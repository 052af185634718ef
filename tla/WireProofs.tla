----------------------------- MODULE WireProofs -----------------------------
(***************************************************************************)
(* Proofs about the wire, for any bytes, any values and all methods.       *)
(*                                                                         *)
(* The codecs: what one side frames, the other takes apart into the same   *)
(* fields; what was cut short is refused; no buffer means one thing to C++ *)
(* and another to Dart; and a value of any type is read back as it was     *)
(* written.  The tables of the four libraries: every dispatcher row fits   *)
(* every proxy row of its id.  The calls: an inductive invariant of        *)
(* WireCalls (Inv) says what every buffer and message on its way holds,    *)
(* and gives its four properties.                                          *)
(***************************************************************************)
EXTENDS WireCalls, SequenceTheorems, FiniteSetTheorems, WellFoundedInduction, TLAPS

\* Taking a number apart byte by byte.
LEMMA Divide ==
  ASSUME NEW v \in Int
  PROVE  /\ v = (v % 256) + 256 * (v \div 256)
         /\ v % 256 \in Octet
         /\ v \div 256 \in Int
         /\ v \div 65536 = (v \div 256) \div 256
         /\ v \div 16777216 = (v \div 65536) \div 256
<1>1. v = (v % 256) + 256 * (v \div 256)
  BY SMT
<1>2. v % 256 \in Octet
  BY SMT DEF Octet
<1>3. v \div 256 \in Int
  BY SMT
<1>4. v \div 65536 = (v \div 256) \div 256
  BY SMT
<1>5. v \div 16777216 = (v \div 65536) \div 256
  BY SMT
<1> QED BY <1>1, <1>2, <1>3, <1>4, <1>5, SMT

\* What the four bytes of a number are, and that they are bytes.
LEMMA LE4Bytes ==
  ASSUME NEW v \in Int
  PROVE  /\ LE4(v) \in Buffer /\ Len(LE4(v)) = 4
         /\ LE4(v)[1] = v % 256
         /\ LE4(v)[2] = (v \div 256) % 256
         /\ LE4(v)[3] = (v \div 65536) % 256
         /\ LE4(v)[4] = (v \div 16777216) % 256
<1> DEFINE a == v % 256
           b == (v \div 256) % 256
           c == (v \div 65536) % 256
           d == (v \div 16777216) % 256
<1>1. a \in Octet /\ b \in Octet
  BY Divide, SMT
<1>2. v \div 65536 \in Int /\ v \div 16777216 \in Int
  BY SMT
<1>3. c \in Octet /\ d \in Octet
  BY <1>2, Divide, SMT
<1>4. LE4(v) = <<a, b, c, d>>
  BY SMT DEF LE4
<1> HIDE DEF a, b, c, d
<1>5. /\ <<a, b, c, d>> \in Buffer
      /\ Len(<<a, b, c, d>>) = 4
      /\ <<a, b, c, d>>[1] = a /\ <<a, b, c, d>>[2] = b
      /\ <<a, b, c, d>>[3] = c /\ <<a, b, c, d>>[4] = d
  BY <1>1, <1>3, SMT DEF Buffer
<1>6. LE4(v) \in Buffer /\ Len(LE4(v)) = 4
  BY <1>4, <1>5, SMT
<1>7. /\ LE4(v)[1] = a /\ LE4(v)[2] = b
      /\ LE4(v)[3] = c /\ LE4(v)[4] = d
  BY <1>4, <1>5, SMT
<1> QED BY <1>6, <1>7, SMT DEF a, b, c, d

\* Three bytes and what is left above them make up the number again.
LEMMA LE4Value ==
  ASSUME NEW v \in Int
  PROVE  v = Low(LE4(v)) + 16777216 * (v \div 16777216)
<1> DEFINE q == v \div 256
           r == q \div 256
           s == r \div 256
<1>1. v = (v % 256) + 256 * q /\ q \in Int
  BY Divide, SMT
<1>2. q = (q % 256) + 256 * r /\ r \in Int
  BY <1>1, Divide, SMT
<1>3. r = (r % 256) + 256 * s /\ s \in Int
  BY <1>2, Divide, SMT
<1>4. v \div 65536 = r /\ v \div 16777216 = s
  BY Divide, SMT
<1>5. Low(LE4(v)) = (v % 256) + 256 * (q % 256) + 65536 * (r % 256)
  <2> DEFINE w == LE4(v)
  <2>1. w[1] = v % 256 /\ w[2] = q % 256 /\ w[3] = r % 256
    <3>1. w[1] = v % 256 /\ w[2] = q % 256 /\ w[3] = (v \div 65536) % 256
      BY LE4Bytes, SMT
    <3> QED BY <3>1, <1>4, SMT
  <2> HIDE DEF w, q, r
  <2>2. Low(w) = w[1] + 256 * w[2] + 65536 * w[3]
    BY SMT DEF Low
  <2>3. Low(w) = (v % 256) + 256 * (q % 256) + 65536 * (r % 256)
    BY <2>1, <2>2, SMT
  <2> QED BY <2>3, SMT DEF w
<1> HIDE DEF q, r, s
<1>6. v % 256 \in Int /\ q % 256 \in Int /\ r % 256 \in Int
  BY <1>1, <1>2, <1>3, SMT
<1> QED BY <1>1, <1>2, <1>3, <1>4, <1>5, <1>6, SMT

\* The bounds of the numbers the model tells apart.
LEMMA Ranges ==
  /\ Huge \in Int /\ Huge = 2147483647
  /\ \A v : v \in Count <=> v \in Int /\ 0 <= v /\ v <= Huge
  /\ \A v : v \in Integer <=> v \in Int /\ 0 - Huge - 1 <= v /\ v <= Huge
<1>1. Huge \in Int
  BY SMT DEF Huge
<1>2. \A v : v \in Count <=> v \in Int /\ 0 <= v /\ v <= Huge
  BY <1>1, SMT DEF Count
<1>3. \A v : v \in Integer <=> v \in Int /\ 0 - Huge - 1 <= v /\ v <= Huge
  BY <1>1, SMT DEF Integer
<1>4. Huge = 2147483647
  BY SMT DEF Huge
<1> QED BY <1>1, <1>2, <1>3, <1>4

\* The highest byte tells the sign.
LEMMA HighByte ==
  ASSUME NEW v \in Integer
  PROVE  /\ v \div 16777216 \in Int
         /\ v \div 16777216 < 128 /\ 0 - 128 <= v \div 16777216
         /\ v >= 0 <=> v \div 16777216 >= 0
         /\ v >= 0 => (v \div 16777216) % 256 = v \div 16777216
         /\ v < 0  => (v \div 16777216) % 256 = 256 + (v \div 16777216)
<1>1. v \in Int /\ 0 - 2147483648 <= v /\ v <= 2147483647
  BY Ranges, SMT
<1> DEFINE h == v \div 16777216
<1>2. h \in Int /\ h < 128 /\ 0 - 128 <= h /\ (v >= 0 <=> h >= 0)
  BY <1>1, SMT
<1>3. \A x \in Int : x < 128 /\ x >= 0 => x % 256 = x
  BY SMT
<1>4. \A x \in Int : x < 0 /\ x >= 0 - 128 => x % 256 = 256 + x
  BY SMT
<1> HIDE DEF h
<1>5. /\ v >= 0 => h % 256 = h
      /\ v < 0 => h % 256 = 256 + h
  BY <1>1, <1>2, <1>3, <1>4, SMT
<1> QED BY <1>2, <1>5, SMT DEF h

\* Eight bytes: the four of the number, and its sign four times.
LEMMA LE8Bytes ==
  ASSUME NEW v \in Int
  PROVE  /\ LE8(v) \in Buffer /\ Len(LE8(v)) = 8
         /\ \A i \in 1 .. 4 : LE8(v)[i] = LE4(v)[i]
         /\ \A i \in 5 .. 8 : LE8(v)[i] = IF v < 0 THEN 255 ELSE 0
<1> DEFINE w == LE4(v)
           f == IF v < 0 THEN <<255, 255, 255, 255>> ELSE <<0, 0, 0, 0>>
<1>1. w \in Buffer /\ Len(w) = 4
  BY LE4Bytes, SMT
<1>2. /\ f \in Buffer /\ Len(f) = 4
      /\ \A i \in 1 .. 4 : f[i] = IF v < 0 THEN 255 ELSE 0
  <2>1. \A x \in Octet : /\ <<x, x, x, x>> \in Buffer /\ Len(<<x, x, x, x>>) = 4
                         /\ <<x, x, x, x>>[1] = x /\ <<x, x, x, x>>[2] = x
                         /\ <<x, x, x, x>>[3] = x /\ <<x, x, x, x>>[4] = x
    BY SMT DEF Buffer
  <2>2. \A i \in 1 .. 4 : i = 1 \/ i = 2 \/ i = 3 \/ i = 4
    BY SMT
  <2>3. 255 \in Octet /\ 0 \in Octet
    BY SMT DEF Octet
  <2>4. CASE v < 0
    BY <2>1, <2>2, <2>3, <2>4, SMT
  <2>5. CASE ~(v < 0)
    BY <2>1, <2>2, <2>3, <2>5, SMT
  <2> QED BY <2>4, <2>5, SMT
<1>3. LE8(v) = w \o f
  BY SMT DEF LE8
<1> HIDE DEF w, f
<1>4. /\ w \o f \in Buffer
      /\ Len(w \o f) = Len(w) + Len(f)
      /\ \A i \in 1 .. Len(w) + Len(f) : (w \o f)[i] = IF i <= Len(w) THEN w[i] ELSE f[i - Len(w)]
  BY <1>1, <1>2, ConcatProperties DEF Buffer
<1>5. \A i \in 1 .. 4 : (w \o f)[i] = w[i]
  BY <1>1, <1>2, <1>4, SMT
<1>6. \A i \in 5 .. 8 : (w \o f)[i] = IF v < 0 THEN 255 ELSE 0
  BY <1>1, <1>2, <1>4, SMT
<1> QED BY <1>1, <1>2, <1>3, <1>4, <1>5, <1>6, SMT DEF w

\* Four bytes that are those of v say v, whatever follows them.
LEMMA FourBytesSay ==
  ASSUME NEW v \in Integer, NEW b,
         \A i \in 1 .. 4 : b[i] = LE4(v)[i]
  PROVE  /\ v < 0 <=> b[4] >= 128
         /\ v = Low(b) + 16777216 * (IF b[4] >= 128 THEN b[4] - 256 ELSE b[4])
<1> DEFINE h == v \div 16777216
           w == LE4(v)
<1>1. v \in Int
  BY SMT DEF Integer
<1>2. /\ h \in Int /\ h < 128 /\ 0 - 128 <= h
      /\ v >= 0 <=> h >= 0
      /\ v >= 0 => h % 256 = h
      /\ v < 0 => h % 256 = 256 + h
  BY HighByte, SMT
<1>3. w[4] = h % 256
  BY <1>1, LE4Bytes, SMT
<1>4. v = Low(w) + 16777216 * h
  BY <1>1, LE4Value, SMT
<1>5. b[1] = w[1] /\ b[2] = w[2] /\ b[3] = w[3] /\ b[4] = w[4]
  BY SMT
<1> HIDE DEF h, w
<1>6. Low(b) = Low(w)
  BY <1>5, SMT DEF Low
<1>7. v < 0 <=> b[4] >= 128
  BY <1>1, <1>2, <1>3, <1>5, SMT
<1>8. h = IF b[4] >= 128 THEN b[4] - 256 ELSE b[4]
  BY <1>1, <1>2, <1>3, <1>5, SMT
<1> QED BY <1>4, <1>6, <1>7, <1>8, SMT

\* What was written in four bytes is what they say.
LEMMA SayLE4 ==
  ASSUME NEW v \in Integer
  PROVE  /\ Signed(LE4(v)) = v
         /\ v >= 0 => Unsigned(LE4(v)) = v
<1> DEFINE w == LE4(v)
<1>1. /\ v < 0 <=> w[4] >= 128
      /\ v = Low(w) + 16777216 * (IF w[4] >= 128 THEN w[4] - 256 ELSE w[4])
  BY FourBytesSay, SMT
<1>2. v \in Int
  BY SMT DEF Integer
<1>3. Len(w) = 4
  BY <1>2, LE4Bytes, SMT
<1> HIDE DEF w
<1>4. 5 .. Len(w) = {}
  BY <1>3, SMT
<1>5. Signed(w) = v
  BY <1>1, <1>4, SMT DEF Signed
<1>6. v >= 0 => Unsigned(w) = v
  BY <1>1, <1>2, <1>4, SMT DEF Unsigned
<1> QED BY <1>5, <1>6, SMT DEF w

\* What was written in eight bytes is what they say.
LEMMA SayLE8 ==
  ASSUME NEW v \in Integer
  PROVE  /\ Signed(LE8(v)) = v
         /\ v >= 0 => Unsigned(LE8(v)) = v
<1> DEFINE w == LE8(v)
<1>1. v \in Int
  BY SMT DEF Integer
<1>2. /\ Len(w) = 8
      /\ \A i \in 1 .. 4 : w[i] = LE4(v)[i]
      /\ \A i \in 5 .. 8 : w[i] = IF v < 0 THEN 255 ELSE 0
  BY <1>1, LE8Bytes, SMT
<1> HIDE DEF w
<1>3. /\ v < 0 <=> w[4] >= 128
      /\ v = Low(w) + 16777216 * (IF w[4] >= 128 THEN w[4] - 256 ELSE w[4])
  BY <1>2, FourBytesSay, SMT
<1>4. \A i \in 5 .. Len(w) : w[i] = IF w[4] >= 128 THEN 255 ELSE 0
  BY <1>1, <1>2, <1>3, SMT
<1>5. Signed(w) = v
  BY <1>3, <1>4, SMT DEF Signed
<1>6. v >= 0 => Unsigned(w) = v
  <2> SUFFICES ASSUME v >= 0 PROVE Unsigned(w) = v
    OBVIOUS
  <2>1. ~(w[4] >= 128)
    BY <1>1, <1>3, SMT
  <2>2. \A i \in 5 .. Len(w) : w[i] = 0
    BY <1>4, <2>1, SMT
  <2> QED BY <1>3, <2>1, <2>2, SMT DEF Unsigned
<1> QED BY <1>5, <1>6, SMT DEF w

\* The bytes w stand in the buffer b from position p on.
Stands(b, p, w) ==
  /\ p - 1 + Len(w) <= Len(b)
  /\ \A i \in 1 .. Len(w) : b[p - 1 + i] = w[i]

\* What stands in a buffer is cut out of it whole.
LEMMA TakeStanding ==
  ASSUME NEW b \in Buffer, NEW w \in Buffer, NEW p \in Nat, p >= 1, Stands(b, p, w)
  PROVE  SubSeq(b, p, p + Len(w) - 1) = w
<1> DEFINE n == p + Len(w) - 1
           s == SubSeq(b, p, n)
<1>1. Len(b) \in Nat /\ Len(w) \in Nat
  BY DEF Buffer
<1>2. /\ p - 1 + Len(w) <= Len(b)
      /\ \A i \in 1 .. Len(w) : b[p - 1 + i] = w[i]
  BY DEF Stands
<1>3. n \in Int /\ n - p + 1 = Len(w) /\ n <= Len(b)
  BY <1>1, <1>2
<1>4. \A i \in p .. n : b[i] \in Octet
  <2>1. \A i \in p .. n : i \in 1 .. Len(b)
    BY <1>1, <1>3
  <2> QED BY <2>1, ElementOfSeq DEF Buffer
<1> HIDE DEF n
<1>5. /\ s \in Seq(Octet)
      /\ Len(s) = IF p <= n THEN n - p + 1 ELSE 0
      /\ \A i \in 1 .. n - p + 1 : s[i] = b[p + i - 1]
  BY <1>3, <1>4, SubSeqProperties
<1>6. Len(s) = Len(w)
  BY <1>1, <1>3, <1>5
<1>7. \A i \in 1 .. Len(w) : s[i] = w[i]
  <2> TAKE i \in 1 .. Len(w)
  <2>1. s[i] = b[p + i - 1]
    BY <1>3, <1>5
  <2>2. p + i - 1 = p - 1 + i
    BY <1>1
  <2>3. b[p - 1 + i] = w[i]
    BY <1>2
  <2> QED BY <2>1, <2>2, <2>3
<1> HIDE DEF s
<1>8. s = w
  BY <1>5, <1>6, <1>7, SeqEqual DEF Buffer
<1> QED BY <1>8 DEF s, n

\* The same, by the position of the last byte.
LEMMA TakeUpTo ==
  ASSUME NEW b \in Buffer, NEW w \in Buffer, NEW p \in Nat, p >= 1, NEW q \in Int,
         q = p + Len(w) - 1, Stands(b, p, w)
  PROVE  SubSeq(b, p, q) = w
  BY TakeStanding

\* Appending to a buffer puts the new bytes at its end and leaves the others.
LEMMA StandsConcat ==
  ASSUME NEW s \in Buffer, NEW t \in Buffer
  PROVE  /\ s \o t \in Buffer /\ Len(s \o t) = Len(s) + Len(t)
         /\ Stands(s \o t, Len(s) + 1, t)
         /\ \A w \in Buffer, p \in Nat : p >= 1 /\ Stands(s, p, w) => Stands(s \o t, p, w)
<1>1. /\ s \o t \in Buffer /\ Len(s \o t) = Len(s) + Len(t)
      /\ \A i \in 1 .. Len(s) + Len(t) : (s \o t)[i] = IF i <= Len(s) THEN s[i] ELSE t[i - Len(s)]
  BY ConcatProperties DEF Buffer
<1>2. Len(s) \in Nat /\ Len(t) \in Nat
  BY DEF Buffer
<1> DEFINE u == s \o t
<1> HIDE DEF u
<1>3. /\ Len(u) = Len(s) + Len(t)
      /\ \A i \in 1 .. Len(s) + Len(t) : u[i] = IF i <= Len(s) THEN s[i] ELSE t[i - Len(s)]
  BY <1>1 DEF u
<1>4. Stands(u, Len(s) + 1, t)
  <2>1. \A i \in 1 .. Len(t) : u[Len(s) + 1 - 1 + i] = t[i]
    <3> TAKE i \in 1 .. Len(t)
    <3>1. Len(s) + 1 - 1 + i = Len(s) + i /\ Len(s) + i \in 1 .. Len(s) + Len(t)
      BY <1>2
    <3>2. ~(Len(s) + i <= Len(s)) /\ Len(s) + i - Len(s) = i
      BY <1>2
    <3> QED BY <1>3, <3>1, <3>2
  <2> QED BY <1>2, <1>3, <2>1 DEF Stands
<1>5. ASSUME NEW w \in Buffer, NEW p \in Nat, p >= 1, Stands(s, p, w)
      PROVE  Stands(u, p, w)
  <2>1. /\ p - 1 + Len(w) <= Len(s)
        /\ \A i \in 1 .. Len(w) : s[p - 1 + i] = w[i]
    BY <1>5 DEF Stands
  <2>2. Len(w) \in Nat
    BY DEF Buffer
  <2>3. \A i \in 1 .. Len(w) : u[p - 1 + i] = w[i]
    <3> TAKE i \in 1 .. Len(w)
    <3>1. p - 1 + i \in 1 .. Len(s) + Len(t) /\ p - 1 + i <= Len(s)
      BY <1>2, <1>5, <2>1, <2>2
    <3> QED BY <1>3, <2>1, <3>1
  <2> QED BY <1>2, <1>3, <2>1, <2>2, <2>3 DEF Stands
<1> QED BY <1>1, <1>4, <1>5 DEF u

\* One more piece at the end: it stands there, and what stood before stays.
LEMMA StandsMore ==
  ASSUME NEW s \in Buffer, NEW t \in Buffer, NEW n \in Nat, Len(s) = n
  PROVE  /\ s \o t \in Buffer /\ Len(s \o t) = n + Len(t)
         /\ Stands(s \o t, n + 1, t)
  BY StandsConcat

\* What stood before an appended piece stays where it is.
LEMMA StandsKept ==
  ASSUME NEW s \in Buffer, NEW t \in Buffer, NEW w \in Buffer, NEW p \in Nat,
         p >= 1, Stands(s, p, w)
  PROVE  Stands(s \o t, p, w)
  BY StandsConcat

\* Cutting a buffer short leaves what stands before the cut.
LEMMA StandsCut ==
  ASSUME NEW b \in Buffer, NEW n \in 0 .. Len(b)
  PROVE  /\ SubSeq(b, 1, n) \in Buffer /\ Len(SubSeq(b, 1, n)) = n
         /\ \A w \in Buffer, p \in Nat :
              p >= 1 /\ Stands(b, p, w) /\ p - 1 + Len(w) <= n => Stands(SubSeq(b, 1, n), p, w)
<1> DEFINE c == SubSeq(b, 1, n)
<1>1. Len(b) \in Nat /\ n \in Int /\ 0 <= n /\ n <= Len(b)
  BY DEF Buffer
<1>2. \A i \in 1 .. n : b[i] \in Octet
  <2>1. \A i \in 1 .. n : i \in 1 .. Len(b)
    BY <1>1
  <2> QED BY <2>1, ElementOfSeq DEF Buffer
<1>3. /\ c \in Seq(Octet)
      /\ Len(c) = IF 1 <= n THEN n - 1 + 1 ELSE 0
      /\ \A i \in 1 .. n - 1 + 1 : c[i] = b[1 + i - 1]
  BY <1>1, <1>2, SubSeqProperties
<1>4. c \in Buffer /\ Len(c) = n /\ \A i \in 1 .. n : c[i] = b[i]
  BY <1>1, <1>3 DEF Buffer
<1> HIDE DEF c
<1>5. ASSUME NEW w \in Buffer, NEW p \in Nat, p >= 1, Stands(b, p, w), p - 1 + Len(w) <= n
      PROVE  Stands(c, p, w)
  <2>1. Len(w) \in Nat
    BY DEF Buffer
  <2>2. \A i \in 1 .. Len(w) : c[p - 1 + i] = w[i]
    <3> TAKE i \in 1 .. Len(w)
    <3>1. p - 1 + i \in 1 .. n
      BY <1>1, <1>5, <2>1
    <3>2. b[p - 1 + i] = w[i]
      BY <1>5 DEF Stands
    <3> QED BY <1>4, <3>1, <3>2
  <2> QED BY <1>4, <1>5, <2>2 DEF Stands
<1> QED BY <1>4, <1>5 DEF c

\* The three codecs write and read a number the same way.
LEMMA OneWire ==
  \A v : /\ WriteU32(v) = LE4(v) /\ WriteU64(v) = LE8(v)
         /\ PutU32(v) = LE4(v) /\ PutU64(v) = LE8(v)
         /\ dcb_write_u32(v) = LE4(v) /\ dcb_write_u64(v) = LE8(v)
         /\ WriteU16(v) = LE2(v) /\ PutU16(v) = LE2(v)
  BY DEF WriteU32, WriteU64, PutU32, PutU64, dcb_write_u32, dcb_write_u64, WriteU16, PutU16

\* Reading four or eight bytes, and failing where they are cut off.  A position
\* of the C++ reader counts from 1, one of the Dart reader from 0.
LEMMA ReadFour ==
  ASSUME NEW b \in Buffer, NEW p \in Nat, p >= 1
  PROVE  /\ Has(b, p, 4) <=> p + 3 <= Len(b)
         /\ ReadU32(b, p) =
              IF p + 3 <= Len(b) THEN Read(Unsigned(SubSeq(b, p, p + 3)), p + 4)
                                 ELSE Truncated
         /\ ReadI32(b, p) =
              IF p + 3 <= Len(b) THEN Read(Signed(SubSeq(b, p, p + 3)), p + 4)
                                 ELSE Truncated
         /\ GetU32(b, p - 1) =
              IF p + 3 <= Len(b) THEN Got(Unsigned(SubSeq(b, p, p + 3)), p + 3)
                                 ELSE Failed
         /\ GetI32(b, p - 1) =
              IF p + 3 <= Len(b) THEN Got(Signed(SubSeq(b, p, p + 3)), p + 3)
                                 ELSE Failed
<1>1. Len(b) \in Nat
  BY DEF Buffer
<1>2. Has(b, p, 4) <=> p + 3 <= Len(b)
  BY <1>1 DEF Has
<1>3. Take(b, p, 4) = SubSeq(b, p, p + 3)
  <2>1. p + 4 - 1 = p + 3
    OBVIOUS
  <2> QED BY <2>1 DEF Take
<1>4. Enough(b, p - 1, 4) <=> p + 3 <= Len(b)
  BY <1>1 DEF Enough
<1>5. Bytes(b, p - 1, 4) = SubSeq(b, p, p + 3) /\ p - 1 + 4 = p + 3
  <2>1. p - 1 + 1 = p /\ p - 1 + 4 = p + 3
    OBVIOUS
  <2> QED BY <2>1 DEF Bytes
<1>7. ReadU32(b, p) =
        IF p + 3 <= Len(b) THEN Read(Unsigned(SubSeq(b, p, p + 3)), p + 4)
                           ELSE Truncated
  BY <1>2, <1>3 DEF ReadU32
<1>8. ReadI32(b, p) =
        IF p + 3 <= Len(b) THEN Read(Signed(SubSeq(b, p, p + 3)), p + 4)
                           ELSE Truncated
  BY <1>2, <1>3 DEF ReadI32
<1>9. GetU32(b, p - 1) =
        IF p + 3 <= Len(b) THEN Got(Unsigned(SubSeq(b, p, p + 3)), p + 3)
                           ELSE Failed
  BY <1>4, <1>5 DEF GetU32, Fixed
<1>10. GetI32(b, p - 1) =
         IF p + 3 <= Len(b) THEN Got(Signed(SubSeq(b, p, p + 3)), p + 3)
                            ELSE Failed
  BY <1>4, <1>5 DEF GetI32, Fixed
<1> QED BY <1>2, <1>7, <1>8, <1>9, <1>10

\* The same for eight bytes.
LEMMA ReadEight ==
  ASSUME NEW b \in Buffer, NEW p \in Nat, p >= 1
  PROVE  /\ ReadU64(b, p) =
              IF p + 7 <= Len(b) THEN Read(Unsigned(SubSeq(b, p, p + 7)), p + 8)
                                 ELSE Truncated
         /\ ReadI64(b, p) =
              IF p + 7 <= Len(b) THEN Read(Signed(SubSeq(b, p, p + 7)), p + 8)
                                 ELSE Truncated
         /\ GetU64(b, p - 1) =
              IF p + 7 <= Len(b) THEN Got(Unsigned(SubSeq(b, p, p + 7)), p + 7)
                                 ELSE Failed
         /\ GetI64(b, p - 1) =
              IF p + 7 <= Len(b) THEN Got(Signed(SubSeq(b, p, p + 7)), p + 7)
                                 ELSE Failed
<1>1. Len(b) \in Nat
  BY DEF Buffer
<1>2. Has(b, p, 8) <=> p + 7 <= Len(b)
  BY <1>1 DEF Has
<1>3. Take(b, p, 8) = SubSeq(b, p, p + 7)
  <2>1. p + 8 - 1 = p + 7
    OBVIOUS
  <2> QED BY <2>1 DEF Take
<1>4. Enough(b, p - 1, 8) <=> p + 7 <= Len(b)
  BY <1>1 DEF Enough
<1>5. Bytes(b, p - 1, 8) = SubSeq(b, p, p + 7) /\ p - 1 + 8 = p + 7
  <2>1. p - 1 + 1 = p /\ p - 1 + 8 = p + 7
    OBVIOUS
  <2> QED BY <2>1 DEF Bytes
<1>7. ReadU64(b, p) =
        IF p + 7 <= Len(b) THEN Read(Unsigned(SubSeq(b, p, p + 7)), p + 8)
                           ELSE Truncated
  BY <1>2, <1>3 DEF ReadU64
<1>8. ReadI64(b, p) =
        IF p + 7 <= Len(b) THEN Read(Signed(SubSeq(b, p, p + 7)), p + 8)
                           ELSE Truncated
  BY <1>2, <1>3 DEF ReadI64
<1>9. GetU64(b, p - 1) =
        IF p + 7 <= Len(b) THEN Got(Unsigned(SubSeq(b, p, p + 7)), p + 7)
                           ELSE Failed
  BY <1>4, <1>5 DEF GetU64, Fixed
<1>10. GetI64(b, p - 1) =
         IF p + 7 <= Len(b) THEN Got(Signed(SubSeq(b, p, p + 7)), p + 7)
                            ELSE Failed
  BY <1>4, <1>5 DEF GetI64, Fixed
<1> QED BY <1>7, <1>8, <1>9, <1>10

\* Every piece of a header is a few bytes.
LEMMA Encodings ==
  /\ \A v \in Int : /\ LE4(v) \in Buffer /\ Len(LE4(v)) = 4
                    /\ LE8(v) \in Buffer /\ Len(LE8(v)) = 8
  /\ LE2(1) = <<1, 0>>
  /\ <<1, 0>> \in Buffer /\ Len(<<1, 0>>) = 2
  /\ \A x \in Octet : <<x>> \in Buffer /\ Len(<<x>>) = 1 /\ <<x>>[1] = x
<1>1. \A v \in Int : /\ LE4(v) \in Buffer /\ Len(LE4(v)) = 4
                     /\ LE8(v) \in Buffer /\ Len(LE8(v)) = 8
  BY LE4Bytes, LE8Bytes
<1>2. LE2(1) = <<1, 0>>
  BY SMT DEF LE2
<1>3. <<1, 0>> \in Buffer /\ Len(<<1, 0>>) = 2
  <2>1. 1 \in Octet /\ 0 \in Octet
    BY SMT DEF Octet
  <2> QED BY <2>1, SMT DEF Buffer
<1>4. \A x \in Octet : <<x>> \in Buffer /\ Len(<<x>>) = 1 /\ <<x>>[1] = x
  BY SMT DEF Buffer
<1> QED BY <1>1, <1>2, <1>3, <1>4, SMT

\* The numbers considered are integers, and the magic word is one of them.
LEMMA Numbers ==
  /\ Count \subseteq Int /\ Count \subseteq Integer
  /\ Integer \subseteq Int
  /\ \A v \in Count : v >= 0
  /\ Magic \in Count /\ kMagic = Magic
<1>1. Count \subseteq Int /\ Count \subseteq Integer /\ Integer \subseteq Int
  BY Ranges, SMT
<1>2. Magic \in Count /\ kMagic = Magic
  BY Ranges, SMT DEF Magic, kMagic
<1>3. \A v \in Count : v >= 0
  BY SMT DEF Count
<1> QED BY <1>1, <1>2, <1>3

\* Between what was written before it and after it, a piece stands where it was put.
LEMMA PieceStands ==
  ASSUME NEW before \in Buffer, NEW w \in Buffer, NEW after \in Buffer
  PROVE  /\ before \o w \o after \in Buffer
         /\ Len(before \o w \o after) = Len(before) + Len(w) + Len(after)
         /\ Stands(before \o w \o after, Len(before) + 1, w)
<1> DEFINE u == before \o w
<1>1. u \in Buffer /\ Len(u) = Len(before) + Len(w) /\ Stands(u, Len(before) + 1, w)
  BY StandsConcat
<1>2. Len(before) + 1 \in Nat /\ Len(before) + 1 >= 1
  BY DEF Buffer
<1> HIDE DEF u
<1>3. /\ u \o after \in Buffer /\ Len(u \o after) = Len(u) + Len(after)
      /\ Stands(u \o after, Len(before) + 1, w)
  BY <1>1, <1>2, StandsConcat
<1> QED BY <1>1, <1>3 DEF u

\* Where the bytes of a number stand, every reader of that width gives the number.
LEMMA ReadStanding ==
  ASSUME NEW b \in Buffer, NEW p \in Nat, p >= 1, NEW v \in Integer
  PROVE  /\ Stands(b, p, LE4(v)) =>
              /\ ReadI32(b, p) = Read(v, p + 4)
              /\ GetI32(b, p - 1) = Got(v, p + 3)
              /\ v >= 0 => /\ ReadU32(b, p) = Read(v, p + 4)
                           /\ GetU32(b, p - 1) = Got(v, p + 3)
         /\ Stands(b, p, LE8(v)) =>
              /\ ReadI64(b, p) = Read(v, p + 8)
              /\ GetI64(b, p - 1) = Got(v, p + 7)
              /\ v >= 0 => /\ ReadU64(b, p) = Read(v, p + 8)
                           /\ GetU64(b, p - 1) = Got(v, p + 7)
<1>1. /\ LE4(v) \in Buffer /\ Len(LE4(v)) = 4
      /\ LE8(v) \in Buffer /\ Len(LE8(v)) = 8
  BY Encodings, Numbers
<1>2. /\ p + 4 - 1 = p + 3 /\ p - 1 + 4 = p + 3
      /\ p + 8 - 1 = p + 7 /\ p - 1 + 8 = p + 7
  OBVIOUS
<1>3. ASSUME Stands(b, p, LE4(v))
      PROVE  p + 3 <= Len(b) /\ SubSeq(b, p, p + 3) = LE4(v)
  <2>1. SubSeq(b, p, p + 4 - 1) = LE4(v)
    BY <1>1, <1>3, TakeStanding
  <2> QED BY <1>1, <1>2, <1>3, <2>1 DEF Stands
<1>4. ASSUME Stands(b, p, LE8(v))
      PROVE  p + 7 <= Len(b) /\ SubSeq(b, p, p + 7) = LE8(v)
  <2>1. SubSeq(b, p, p + 8 - 1) = LE8(v)
    BY <1>1, <1>4, TakeStanding
  <2> QED BY <1>1, <1>2, <1>4, <2>1 DEF Stands
<1>5. ASSUME Stands(b, p, LE4(v))
      PROVE  /\ ReadI32(b, p) = Read(v, p + 4)
             /\ GetI32(b, p - 1) = Got(v, p + 3)
             /\ v >= 0 => /\ ReadU32(b, p) = Read(v, p + 4)
                          /\ GetU32(b, p - 1) = Got(v, p + 3)
  <2>1. p + 3 <= Len(b) /\ SubSeq(b, p, p + 3) = LE4(v)
    BY <1>3, <1>5
  <2>2. /\ ReadI32(b, p) = Read(Signed(LE4(v)), p + 4)
        /\ GetI32(b, p - 1) = Got(Signed(LE4(v)), p + 3)
        /\ ReadU32(b, p) = Read(Unsigned(LE4(v)), p + 4)
        /\ GetU32(b, p - 1) = Got(Unsigned(LE4(v)), p + 3)
    BY <2>1, ReadFour
  <2> QED BY <2>2, SayLE4
<1>6. ASSUME Stands(b, p, LE8(v))
      PROVE  /\ ReadI64(b, p) = Read(v, p + 8)
             /\ GetI64(b, p - 1) = Got(v, p + 7)
             /\ v >= 0 => /\ ReadU64(b, p) = Read(v, p + 8)
                          /\ GetU64(b, p - 1) = Got(v, p + 7)
  <2>1. p + 7 <= Len(b) /\ SubSeq(b, p, p + 7) = LE8(v)
    BY <1>4, <1>6
  <2>2. /\ ReadI64(b, p) = Read(Signed(LE8(v)), p + 8)
        /\ GetI64(b, p - 1) = Got(Signed(LE8(v)), p + 7)
        /\ ReadU64(b, p) = Read(Unsigned(LE8(v)), p + 8)
        /\ GetU64(b, p - 1) = Got(Unsigned(LE8(v)), p + 7)
    BY <2>1, ReadEight
  <2> QED BY <2>2, SayLE8
<1> QED BY <1>5, <1>6

\* A number put anywhere into a buffer by one side is the number the other side
\* reads there, whatever stands before and after it, also when it is negative.
THEOREM NumbersCross ==
  ASSUME NEW v \in Integer, NEW before \in Buffer, NEW after \in Buffer
  PROVE  LET p == Len(before)
             fromDart4 == before \o PutU32(v) \o after
             fromDart8 == before \o PutU64(v) \o after
             fromCpp4  == before \o WriteU32(v) \o after
             fromCpp8  == before \o WriteU64(v) \o after
         IN  /\ ReadI32(fromDart4, p + 1) = Read(v, p + 5)
             /\ ReadI64(fromDart8, p + 1) = Read(v, p + 9)
             /\ GetI32(fromCpp4, p) = Got(v, p + 4)
             /\ GetI64(fromCpp8, p) = Got(v, p + 8)
             /\ v >= 0 => /\ ReadU32(fromDart4, p + 1) = Read(v, p + 5)
                          /\ ReadU64(fromDart8, p + 1) = Read(v, p + 9)
                          /\ GetU32(fromCpp4, p) = Got(v, p + 4)
                          /\ GetU64(fromCpp8, p) = Got(v, p + 8)
<1> DEFINE p  == Len(before)
           b4 == before \o LE4(v) \o after
           b8 == before \o LE8(v) \o after
<1>1. p \in Nat /\ p + 1 >= 1 /\ p + 1 \in Nat
  BY DEF Buffer
<1>2. b4 \in Buffer /\ Stands(b4, p + 1, LE4(v))
  BY Encodings, Numbers, PieceStands
<1>3. b8 \in Buffer /\ Stands(b8, p + 1, LE8(v))
  BY Encodings, Numbers, PieceStands
<1>4. /\ before \o PutU32(v) \o after = b4 /\ before \o WriteU32(v) \o after = b4
      /\ before \o PutU64(v) \o after = b8 /\ before \o WriteU64(v) \o after = b8
  BY OneWire
<1> HIDE DEF p, b4, b8
<1>5. p + 1 - 1 = p /\ p + 1 + 4 = p + 5 /\ p + 1 + 3 = p + 4
      /\ p + 1 + 8 = p + 9 /\ p + 1 + 7 = p + 8
  BY <1>1
<1>6. /\ ReadI32(b4, p + 1) = Read(v, p + 5)
      /\ GetI32(b4, p) = Got(v, p + 4)
      /\ v >= 0 => /\ ReadU32(b4, p + 1) = Read(v, p + 5)
                   /\ GetU32(b4, p) = Got(v, p + 4)
  <2>1. /\ ReadI32(b4, p + 1) = Read(v, p + 1 + 4)
        /\ GetI32(b4, p + 1 - 1) = Got(v, p + 1 + 3)
        /\ v >= 0 => /\ ReadU32(b4, p + 1) = Read(v, p + 1 + 4)
                     /\ GetU32(b4, p + 1 - 1) = Got(v, p + 1 + 3)
    BY <1>1, <1>2, ReadStanding
  <2> QED BY <1>5, <2>1
<1>7. /\ ReadI64(b8, p + 1) = Read(v, p + 9)
      /\ GetI64(b8, p) = Got(v, p + 8)
      /\ v >= 0 => /\ ReadU64(b8, p + 1) = Read(v, p + 9)
                   /\ GetU64(b8, p) = Got(v, p + 8)
  <2>1. /\ ReadI64(b8, p + 1) = Read(v, p + 1 + 8)
        /\ GetI64(b8, p + 1 - 1) = Got(v, p + 1 + 7)
        /\ v >= 0 => /\ ReadU64(b8, p + 1) = Read(v, p + 1 + 8)
                     /\ GetU64(b8, p + 1 - 1) = Got(v, p + 1 + 7)
    BY <1>1, <1>3, ReadStanding
  <2> QED BY <1>5, <2>1
<1> QED BY <1>4, <1>6, <1>7 DEF p

\* Where two pieces stand one after the other, each of them stands.
LEMMA StandsSplit ==
  ASSUME NEW b \in Buffer, NEW p \in Nat, p >= 1, NEW s \in Buffer, NEW t \in Buffer,
         Stands(b, p, s \o t)
  PROVE  Stands(b, p, s) /\ Stands(b, p + Len(s), t)
<1> DEFINE u == s \o t
<1>1. /\ Len(u) = Len(s) + Len(t)
      /\ \A i \in 1 .. Len(s) + Len(t) : u[i] = IF i <= Len(s) THEN s[i] ELSE t[i - Len(s)]
  BY ConcatProperties DEF Buffer
<1>2. Len(s) \in Nat /\ Len(t) \in Nat /\ Len(b) \in Nat
  BY DEF Buffer
<1>3. /\ p - 1 + Len(u) <= Len(b)
      /\ \A i \in 1 .. Len(u) : b[p - 1 + i] = u[i]
  BY DEF Stands
<1> HIDE DEF u
<1>4. Stands(b, p, s)
  <2>1. \A i \in 1 .. Len(s) : b[p - 1 + i] = s[i]
    <3> TAKE i \in 1 .. Len(s)
    <3>1. i \in 1 .. Len(s) + Len(t) /\ i <= Len(s)
      BY <1>2
    <3> QED BY <1>1, <1>3, <3>1
  <2> QED BY <1>1, <1>2, <1>3, <2>1 DEF Stands
<1>5. Stands(b, p + Len(s), t)
  <2>1. \A i \in 1 .. Len(t) : b[p + Len(s) - 1 + i] = t[i]
    <3> TAKE i \in 1 .. Len(t)
    <3>1. /\ Len(s) + i \in 1 .. Len(s) + Len(t) /\ ~(Len(s) + i <= Len(s))
          /\ Len(s) + i - Len(s) = i
          /\ p + Len(s) - 1 + i = p - 1 + (Len(s) + i)
      BY <1>2
    <3> QED BY <1>1, <1>3, <3>1
  <2> QED BY <1>1, <1>2, <1>3, <2>1 DEF Stands
<1> QED BY <1>4, <1>5

\* The C reader moves on without an error.
LEMMA AdvanceMoves ==
  ASSUME NEW b, NEW pos \in Int, NEW n \in Int, NEW v
  PROVE  Advance([data |-> b, pos |-> pos, error |-> FALSE], n, v)
           = [v |-> v, r |-> [data |-> b, pos |-> pos + n, error |-> FALSE]]
<1> DEFINE r(e) == [data |-> b, pos |-> pos, error |-> e]
<1>1. ASSUME NEW e, NEW x
      PROVE  [r(e) EXCEPT !.pos = x] = [data |-> b, pos |-> x, error |-> e]
  BY SMT
<1>2. r(FALSE).pos = pos
  OBVIOUS
<1>3. Advance(r(FALSE), n, v) = [v |-> v, r |-> [r(FALSE) EXCEPT !.pos = pos + n]]
  BY <1>2 DEF Advance
<1> QED BY <1>1, <1>3

\* Where a length and that many bytes stand, all three readers give the bytes.
LEMMA ReadText ==
  ASSUME NEW b \in Buffer, NEW p \in Nat, p >= 1, NEW s \in Buffer, Len(s) \in Count,
         Stands(b, p, LE4(Len(s))), Stands(b, p + 4, s)
  PROVE  /\ ReadStr(b, p) = Read(s, p + 4 + Len(s))
         /\ ReadBlob(b, p) = Read(s, p + 4 + Len(s))
         /\ GetStr(b, p - 1) = Got(s, p + 3 + Len(s))
         /\ dcb_read_len_bytes([data |-> b, pos |-> p - 1, error |-> FALSE])
              = [v |-> s, r |-> [data |-> b, pos |-> p + 3 + Len(s), error |-> FALSE]]
<1> DEFINE n == Len(s)
<1>1. n \in Integer /\ n \in Nat /\ n >= 0 /\ Len(b) \in Nat
  BY Numbers DEF Buffer
<1>2. /\ ReadU32(b, p) = Read(n, p + 4)
      /\ GetU32(b, p - 1) = Got(n, p + 3)
  BY <1>1, ReadStanding
<1>3. p + 4 - 1 + n <= Len(b)
  BY DEF Stands
<1>4. SubSeq(b, p + 4, p + 4 + n - 1) = s
  <2>1. p + 4 \in Nat /\ p + 4 >= 1
    OBVIOUS
  <2> QED BY <2>1, TakeStanding
<1>5. Stands(b, p, LE4(n)) /\ LE4(n) \in Buffer /\ Len(LE4(n)) = 4
  BY <1>1, Encodings, Numbers
<1> HIDE DEF n
<1>6. Has(b, p + 4, n)
  BY <1>1, <1>3 DEF Has
<1>7. ReadCounted(b, p) = Read(s, p + 4 + n)
  <2>1. ReadU32(b, p).ok /\ ReadU32(b, p).v = n
        /\ ReadU32(b, p).next = p + 4
    BY <1>2 DEF Read
  <2>2. Take(b, p + 4, n) = s
    BY <1>4 DEF Take
  <2> QED BY <1>6, <2>1, <2>2 DEF ReadCounted
<1>8. GetStr(b, p - 1) = Got(s, p + 3 + n)
  <2>1. n <= Len(b) /\ Enough(b, p + 3, n)
    BY <1>1, <1>3 DEF Enough
  <2>2. Bytes(b, p + 3, n) = s
    <3>1. p + 3 + 1 = p + 4 /\ p + 3 + n = p + 4 + n - 1
      BY <1>1
    <3> QED BY <1>4, <3>1 DEF Bytes
  <2>3. GetU32(b, p - 1).ok /\ GetU32(b, p - 1).v = n
        /\ GetU32(b, p - 1).pos = p + 3
    BY <1>2 DEF Got
  <2> QED BY <2>1, <2>2, <2>3 DEF GetStr, Fixed, Raw
<1>9. dcb_read_len_bytes([data |-> b, pos |-> p - 1, error |-> FALSE])
        = [v |-> s, r |-> [data |-> b, pos |-> p + 3 + n, error |-> FALSE]]
  <2> DEFINE r0 == [data |-> b, pos |-> p - 1, error |-> FALSE]
             r1 == [data |-> b, pos |-> p + 3, error |-> FALSE]
             r2 == [data |-> b, pos |-> p + 3 + n, error |-> FALSE]
  <2>1. Within(r0, 4)
    BY <1>1, <1>3 DEF Within
  <2>2. Chunk(r0, 4) = LE4(n)
    <3>1. SubSeq(b, p, p + 4 - 1) = LE4(n)
      BY <1>5, TakeStanding
    <3>2. p - 1 + 1 = p /\ p - 1 + 4 = p + 4 - 1
      OBVIOUS
    <3> QED BY <3>1, <3>2 DEF Chunk
  <2>3. Unsigned(Chunk(r0, 4)) = n
    BY <1>1, <2>2, SayLE4, OneWire
  <2>4. Advance(r0, 4, n) = [v |-> n, r |-> r1]
    <3>1. p - 1 + 4 = p + 3
      OBVIOUS
    <3> QED BY <1>1, <3>1, AdvanceMoves
  <2>5. dcb_read_u32(r0) = [v |-> n, r |-> r1]
    BY <2>1, <2>3, <2>4 DEF dcb_read_u32
  <2>6. Within(r1, n)
    BY <1>1, <1>3 DEF Within
  <2>7. Chunk(r1, n) = s
    <3>1. p + 3 + 1 = p + 4 /\ p + 3 + n = p + 4 + n - 1
      BY <1>1
    <3> QED BY <1>4, <3>1 DEF Chunk
  <2>8. Advance(r1, n, s) = [v |-> s, r |-> r2]
    BY <1>1, AdvanceMoves
  <2> HIDE DEF r0, r1, r2
  <2>9. dcb_read_len_bytes(r0) = [v |-> s, r |-> r2]
    BY <2>5, <2>6, <2>7, <2>8 DEF dcb_read_len_bytes
  <2> QED BY <2>9 DEF r0, r2
<1> QED BY <1>7, <1>8, <1>9 DEF n, ReadStr, ReadBlob

\* Where the length or the bytes do not fit, all three readers refuse.
LEMMA RefuseText ==
  ASSUME NEW b \in Buffer, NEW p \in Nat, p >= 1, NEW n \in Count,
         \/ Len(b) < p + 3
         \/ Stands(b, p, LE4(n)) /\ Len(b) < p + 3 + n
  PROVE  /\ ~ReadStr(b, p).ok
         /\ ~ReadBlob(b, p).ok
         /\ ~GetStr(b, p - 1).ok
         /\ dcb_read_len_bytes([data |-> b, pos |-> p - 1, error |-> FALSE]).r.error
<1> DEFINE r0 == [data |-> b, pos |-> p - 1, error |-> FALSE]
           r1 == [data |-> b, pos |-> p + 3, error |-> FALSE]
<1>1. n \in Integer /\ n \in Int /\ n >= 0 /\ Len(b) \in Nat
  BY Numbers DEF Buffer
<1>2. ~Truncated.ok /\ ~Failed.ok
  BY DEF Truncated, Failed
<1>3. CASE Len(b) < p + 3
  <2>1. ReadU32(b, p) = Truncated /\ GetU32(b, p - 1) = Failed
    <3>1. ~(p + 3 <= Len(b))
      BY <1>1, <1>3
    <3> QED BY <3>1, ReadFour
  <2>2. ~ReadCounted(b, p).ok
    BY <1>2, <2>1 DEF ReadCounted
  <2>3. ~GetStr(b, p - 1).ok
    BY <1>2, <2>1 DEF GetStr
  <2>4. ~Within(r0, 4)
    BY <1>1, <1>3 DEF Within
  <2>5. Stuck(r0, 0).r.error
    BY DEF Stuck
  <2>6. dcb_read_u32(r0).r.error
    BY <2>4, <2>5 DEF dcb_read_u32
  <2> DEFINE m == dcb_read_u32(r0)
  <2> HIDE DEF m
  <2>7. ASSUME m.r.error PROVE ~Within(m.r, m.v)
    BY <2>7 DEF Within
  <2>8. DOMAIN m.r = {"data", "pos", "error"}
    <3>1. m = Stuck(r0, 0)
      BY <2>4 DEF m, dcb_read_u32
    <3> QED BY <3>1 DEF Stuck
  <2>9. Stuck(m.r, <<>>).r.error
    BY <2>8 DEF Stuck
  <2>10. dcb_read_len_bytes(r0).r.error
    BY <2>6, <2>7, <2>9 DEF dcb_read_len_bytes, m
  <2> QED BY <2>2, <2>3, <2>10 DEF ReadStr, ReadBlob
<1>4. CASE Stands(b, p, LE4(n)) /\ Len(b) < p + 3 + n
  <2>1. /\ ReadU32(b, p) = Read(n, p + 4)
        /\ GetU32(b, p - 1) = Got(n, p + 3)
    BY <1>1, <1>4, ReadStanding
  <2>2. LE4(n) \in Buffer /\ Len(LE4(n)) = 4
    BY <1>1, Encodings
  <2>3. p + 3 <= Len(b)
    BY <1>1, <1>4, <2>2 DEF Stands
  <2>4. ~Has(b, p + 4, n)
    BY <1>1, <1>4 DEF Has
  <2>5. ~ReadCounted(b, p).ok
    <3>1. ReadU32(b, p).next = p + 4 /\ ReadU32(b, p).v = n
      BY <2>1 DEF Read
    <3> QED BY <1>2, <2>4, <3>1 DEF ReadCounted
  <2>6. ~Enough(b, p + 3, n)
    BY <1>1, <1>4 DEF Enough
  <2>7. ~GetStr(b, p - 1).ok
    <3>1. GetU32(b, p - 1).pos = p + 3 /\ GetU32(b, p - 1).v = n
      BY <2>1 DEF Got
    <3> QED BY <1>2, <2>6, <3>1 DEF GetStr, Fixed
  <2>8. dcb_read_u32(r0) = [v |-> n, r |-> r1]
    <3>1. Within(r0, 4)
      BY <1>1, <2>3 DEF Within
    <3>2. Chunk(r0, 4) = LE4(n)
      <4>1. SubSeq(b, p, p + 4 - 1) = LE4(n)
        BY <1>4, <2>2, TakeStanding
      <4>2. p - 1 + 1 = p /\ p - 1 + 4 = p + 4 - 1
        OBVIOUS
      <4> QED BY <4>1, <4>2 DEF Chunk
    <3>3. Unsigned(Chunk(r0, 4)) = n
      BY <1>1, <3>2, SayLE4, OneWire
    <3>4. Advance(r0, 4, n) = [v |-> n, r |-> r1]
      <4>1. p - 1 + 4 = p + 3
        OBVIOUS
      <4> QED BY <1>1, <4>1, AdvanceMoves
    <3> QED BY <3>1, <3>3, <3>4 DEF dcb_read_u32
  <2>9. ~Within(r1, n)
    BY <1>1, <1>4 DEF Within
  <2>10. Stuck(r1, <<>>).r.error
    BY DEF Stuck
  <2> HIDE DEF r1
  <2>11. dcb_read_len_bytes(r0).r.error
    BY <2>8, <2>9, <2>10 DEF dcb_read_len_bytes
  <2> QED BY <2>5, <2>7, <2>11 DEF ReadStr, ReadBlob
<1> QED BY <1>3, <1>4

\* A string or a blob is its length and its bytes, in every codec.
LEMMA TextBytes ==
  ASSUME NEW s \in Buffer, Len(s) \in Count
  PROVE  /\ LE4(Len(s)) \o s \in Buffer
         /\ Len(LE4(Len(s)) \o s) = 4 + Len(s)
         /\ WriteStr(s) = LE4(Len(s)) \o s
         /\ WriteBlob(s) = LE4(Len(s)) \o s
         /\ PutStr(s) = LE4(Len(s)) \o s
         /\ dcb_write_len_bytes(s) = LE4(Len(s)) \o s
<1>1. LE4(Len(s)) \in Buffer /\ Len(LE4(Len(s))) = 4
  BY Encodings, Numbers
<1>2. /\ LE4(Len(s)) \o s \in Buffer
      /\ Len(LE4(Len(s)) \o s) = 4 + Len(s)
  <2> DEFINE h == LE4(Len(s))
  <2>1. h \in Buffer /\ Len(h) = 4
    BY <1>1
  <2> HIDE DEF h
  <2>2. h \o s \in Buffer /\ Len(h \o s) = Len(h) + Len(s)
    BY <2>1, StandsConcat
  <2> QED BY <2>1, <2>2 DEF h
<1>3. /\ WriteStr(s) = LE4(Len(s)) \o s
      /\ WriteBlob(s) = LE4(Len(s)) \o s
      /\ PutStr(s) = LE4(Len(s)) \o s
      /\ dcb_write_len_bytes(s) = LE4(Len(s)) \o s
  BY OneWire DEF WriteStr, WriteBlob, PutStr, dcb_write_len_bytes
<1> QED BY <1>2, <1>3

\* A string or a blob written anywhere into a buffer, by the C++, the Dart or the
\* C codec, is read back whole by each of them, whatever its bytes are.
THEOREM StringsCross ==
  ASSUME NEW s \in Buffer, Len(s) \in Count, NEW before \in Buffer, NEW after \in Buffer,
         NEW w \in {WriteStr(s), WriteBlob(s), PutStr(s),
                    dcb_write_len_bytes(s)}
  PROVE  LET p == Len(before)
             b == before \o w \o after
         IN  /\ ReadStr(b, p + 1) = Read(s, p + 5 + Len(s))
             /\ ReadBlob(b, p + 1) = Read(s, p + 5 + Len(s))
             /\ GetStr(b, p) = Got(s, p + 4 + Len(s))
             /\ dcb_read_len_bytes([data |-> b, pos |-> p, error |-> FALSE])
                  = [v |-> s, r |-> [data |-> b, pos |-> p + 4 + Len(s), error |-> FALSE]]
<1> DEFINE p == Len(before)
           b == before \o w \o after
           h == LE4(Len(s))
<1>1. p \in Nat /\ p + 1 \in Nat /\ p + 1 >= 1 /\ Len(s) \in Nat
  BY DEF Buffer
<1>2. w = h \o s /\ h \o s \in Buffer
  BY TextBytes
<1>3. h \in Buffer /\ Len(h) = 4
  BY Encodings, Numbers
<1>4. b \in Buffer /\ Stands(b, p + 1, h \o s)
  BY <1>2, PieceStands
<1> HIDE DEF p, b
<1>5. Stands(b, p + 1, h) /\ Stands(b, p + 1 + 4, s)
  <2> HIDE DEF h
  <2> QED BY <1>1, <1>3, <1>4, StandsSplit
<1>6. /\ ReadStr(b, p + 1) = Read(s, p + 1 + 4 + Len(s))
      /\ ReadBlob(b, p + 1) = Read(s, p + 1 + 4 + Len(s))
      /\ GetStr(b, p) = Got(s, p + 1 + 3 + Len(s))
      /\ dcb_read_len_bytes([data |-> b, pos |-> p, error |-> FALSE])
           = [v |-> s, r |-> [data |-> b, pos |-> p + 1 + 3 + Len(s), error |-> FALSE]]
  <2> DEFINE q == p + 1
  <2>1. q \in Nat /\ q >= 1 /\ Stands(b, q, LE4(Len(s))) /\ Stands(b, q + 4, s)
    BY <1>1, <1>5
  <2> HIDE DEF q, h
  <2>2. /\ ReadStr(b, q) = Read(s, q + 4 + Len(s))
        /\ ReadBlob(b, q) = Read(s, q + 4 + Len(s))
        /\ GetStr(b, q - 1) = Got(s, q + 3 + Len(s))
        /\ dcb_read_len_bytes([data |-> b, pos |-> q - 1, error |-> FALSE])
             = [v |-> s, r |-> [data |-> b, pos |-> q + 3 + Len(s), error |-> FALSE]]
    BY <1>4, <2>1, ReadText
  <2>3. q = p + 1 /\ q - 1 = p
    BY <1>1 DEF q
  <2> QED BY <2>2, <2>3
<1>7. /\ p + 1 + 4 + Len(s) = p + 5 + Len(s)
      /\ p + 1 + 3 + Len(s) = p + 4 + Len(s)
  BY <1>1
<1> QED BY <1>6, <1>7 DEF p, b

\* A string or a blob whose last bytes are missing, be it one byte of the text or
\* all of it and part of the length, is refused by each of the three readers.
THEOREM CutStringsAreRefused ==
  ASSUME NEW s \in Buffer, Len(s) \in Count, NEW before \in Buffer,
         NEW w \in {WriteStr(s), WriteBlob(s), PutStr(s),
                    dcb_write_len_bytes(s)},
         NEW n \in Len(before) .. Len(before \o w) - 1
  PROVE  LET p == Len(before)
             b == SubSeq(before \o w, 1, n)
         IN  /\ ~ReadStr(b, p + 1).ok
             /\ ~ReadBlob(b, p + 1).ok
             /\ ~GetStr(b, p).ok
             /\ dcb_read_len_bytes([data |-> b, pos |-> p, error |-> FALSE]).r.error
<1> DEFINE p == Len(before)
           u == before \o w
           b == SubSeq(u, 1, n)
           h == LE4(Len(s))
<1>1. p \in Nat /\ p + 1 \in Nat /\ p + 1 >= 1 /\ Len(s) \in Nat /\ p + 1 - 1 = p
  BY DEF Buffer
<1>2. w = h \o s /\ h \o s \in Buffer /\ Len(h \o s) = 4 + Len(s)
  BY TextBytes
<1>3. h \in Buffer /\ Len(h) = 4
  BY Encodings, Numbers
<1>4. u \in Buffer /\ Len(u) = p + 4 + Len(s) /\ Stands(u, p + 1, h \o s)
  <2>1. u \in Buffer /\ Len(u) = p + Len(h \o s) /\ Stands(u, p + 1, h \o s)
    BY <1>2, StandsConcat
  <2> HIDE DEF h, u, p
  <2> QED BY <1>1, <1>2, <2>1
<1>5. n \in Int /\ p <= n /\ n <= Len(u) - 1 /\ n \in 0 .. Len(u)
  <2>1. n \in p .. Len(u) - 1
    OBVIOUS
  <2> HIDE DEF p, u
  <2> QED BY <1>1, <1>4, <2>1
<1> HIDE DEF p, u
<1>6. Stands(u, p + 1, h)
  <2> HIDE DEF h
  <2> QED BY <1>1, <1>3, <1>4, StandsSplit
<1>7. b \in Buffer /\ Len(b) = n
  BY <1>4, <1>5, StandsCut
<1>8. CASE n < p + 4
  <2>1. Len(b) < p + 1 + 3
    <3> HIDE DEF b
    <3> QED BY <1>1, <1>5, <1>7, <1>8
  <2> HIDE DEF b
  <2>2. /\ ~ReadStr(b, p + 1).ok
        /\ ~ReadBlob(b, p + 1).ok
        /\ ~GetStr(b, p).ok
        /\ dcb_read_len_bytes([data |-> b, pos |-> p, error |-> FALSE]).r.error
    <3> DEFINE q == p + 1
    <3>1. /\ q \in Nat /\ q >= 1
          /\ \/ Len(b) < q + 3
             \/ Stands(b, q, LE4(Len(s))) /\ Len(b) < q + 3 + Len(s)
      BY <1>1, <2>1
    <3>2. q = p + 1 /\ q - 1 = p
      BY <1>1
    <3> HIDE DEF q, h
    <3>3. /\ ~ReadStr(b, q).ok
          /\ ~ReadBlob(b, q).ok
          /\ ~GetStr(b, q - 1).ok
          /\ dcb_read_len_bytes([data |-> b, pos |-> q - 1, error |-> FALSE]).r.error
      BY <1>7, <3>1, RefuseText
    <3> QED BY <3>2, <3>3
  <2> QED BY <1>1, <2>2 DEF p, u, b
<1>9. CASE n >= p + 4
  <2>1. Stands(b, p + 1, h)
    <3> DEFINE q == p + 1
    <3>1. q \in Nat /\ q >= 1 /\ q - 1 + Len(h) <= n /\ Stands(u, q, h)
      <4>1. q \in Nat /\ q >= 1 /\ q - 1 = p /\ Stands(u, q, h)
        BY <1>1, <1>6
      <4> HIDE DEF q, h
      <4> QED BY <1>1, <1>3, <1>5, <1>9, <4>1
    <3> HIDE DEF q, h
    <3>2. Stands(b, q, h)
      BY <1>3, <1>4, <1>5, <3>1, StandsCut
    <3> QED BY <3>2 DEF q
  <2>2. Len(b) < p + 1 + 3 + Len(s)
    <3> HIDE DEF b
    <3> QED BY <1>1, <1>4, <1>5, <1>7
  <2> HIDE DEF b
  <2>3. /\ ~ReadStr(b, p + 1).ok
        /\ ~ReadBlob(b, p + 1).ok
        /\ ~GetStr(b, p).ok
        /\ dcb_read_len_bytes([data |-> b, pos |-> p, error |-> FALSE]).r.error
    <3> DEFINE q == p + 1
    <3>1. /\ q \in Nat /\ q >= 1
          /\ \/ Len(b) < q + 3
             \/ Stands(b, q, LE4(Len(s))) /\ Len(b) < q + 3 + Len(s)
      BY <1>1, <2>1, <2>2
    <3>2. q = p + 1 /\ q - 1 = p
      BY <1>1
    <3> HIDE DEF q, h
    <3>3. /\ ~ReadStr(b, q).ok
          /\ ~ReadBlob(b, q).ok
          /\ ~GetStr(b, q - 1).ok
          /\ dcb_read_len_bytes([data |-> b, pos |-> q - 1, error |-> FALSE]).r.error
      BY <1>7, <3>1, RefuseText
    <3> QED BY <3>2, <3>3
  <2> QED BY <1>1, <2>3 DEF p, u, b
<1> QED BY <1>1, <1>5, <1>8, <1>9

\* A frame at the head of a buffer.
FrameStands(b, type, req, method, payload) ==
  /\ Stands(b, 1, LE4(Magic))
  /\ Stands(b, 5, <<1, 0>>)
  /\ Stands(b, 7, <<type>>)
  /\ Stands(b, 8, << 0 >>)
  /\ Stands(b, 9, LE8(req))
  /\ Stands(b, 17, LE4(method))
  /\ Stands(b, 21, LE4(Len(payload)))
  /\ Stands(b, 25, payload)

\* make_frame and makeFrame lay the same frame, field by field.
LEMMA FrameLaid ==
  ASSUME NEW type \in Octet, NEW req \in Count, NEW method \in Count,
         NEW payload \in Buffer, Len(payload) \in Count
  PROVE  LET f == make_frame(type, req, method, payload)
         IN  /\ makeFrame(type, req, method, payload) = f
             /\ f \in Buffer
             /\ Len(f) = 24 + Len(payload)
             /\ FrameStands(f, type, req, method, payload)
<1> DEFINE a == LE4(Magic)
           b == <<1, 0>>
           c == <<type>>
           d == << 0 >>
           e == LE8(req)
           g == LE4(method)
           h == LE4(Len(payload))
           f2 == a \o b
           f3 == f2 \o c
           f4 == f3 \o d
           f5 == f4 \o e
           f6 == f5 \o g
           f7 == f6 \o h
           f8 == f7 \o payload
<1>1. /\ a \in Buffer /\ Len(a) = 4
      /\ e \in Buffer /\ Len(e) = 8
      /\ g \in Buffer /\ Len(g) = 4
      /\ h \in Buffer /\ Len(h) = 4
  BY Encodings, Numbers
<1>2. /\ b \in Buffer /\ Len(b) = 2
      /\ c \in Buffer /\ Len(c) = 1
      /\ d \in Buffer /\ Len(d) = 1
  <2>1. 0 \in Octet
    BY SMT DEF Octet
  <2> QED BY <2>1, Encodings
<1>3. make_frame(type, req, method, payload) = f8
  <2>1. /\ WriteU32(Magic) = a /\ WriteU16(Version) = b
        /\ WriteU8(type) = c /\ WriteU8(0) = d
        /\ WriteU64(req) = e /\ WriteU32(method) = g
        /\ WriteU32(Len(payload)) = h
    BY OneWire, Encodings DEF WriteU8, Version
  <2> HIDE DEF a, b, c, d, e, g, h
  <2> QED BY <2>1 DEF make_frame
<1>4. makeFrame(type, req, method, payload) = f8
  <2>1. /\ PutU32(kMagic) = a /\ PutU16(kProtocolVersion) = b
        /\ PutU64(req) = e /\ PutU32(method) = g
        /\ PutU32(Len(payload)) = h
    BY OneWire, Encodings, Numbers DEF kProtocolVersion
  <2>2. PutU8(type) = c /\ PutU8(0) = d
    <3>1. \A x \in Octet : x % 256 = x
      BY SMT DEF Octet
    <3>2. 0 \in Octet
      BY SMT DEF Octet
    <3> QED BY <3>1, <3>2 DEF PutU8
  <2> HIDE DEF a, b, c, d, e, g, h
  <2> QED BY <2>1, <2>2 DEF makeFrame
<1> HIDE DEF a, b, c, d, e, g, h
<1>5. a \in Buffer /\ Len(a) = 4 /\ Stands(a, 1, a)
  BY <1>1 DEF Stands
<1>6. /\ f2 \in Buffer /\ Len(f2) = 6
      /\ Stands(f2, 1, a) /\ Stands(f2, 5, b)
  <2>1. /\ f2 \in Buffer /\ Len(f2) = 4 + Len(b)
        /\ Stands(f2, 4 + 1, b)
    BY <1>1, <1>2, <1>5, StandsMore
  <2>2. Stands(f2, 1, a)
    BY <1>1, <1>2, <1>5, StandsKept
  <2> HIDE DEF f2
  <2> QED BY <1>1, <1>2, <2>1, <2>2
<1> HIDE DEF f2
<1>7. /\ f3 \in Buffer /\ Len(f3) = 7
      /\ Stands(f3, 1, a) /\ Stands(f3, 5, b) /\ Stands(f3, 7, c)
  <2>1. /\ f3 \in Buffer /\ Len(f3) = 6 + Len(c)
        /\ Stands(f3, 6 + 1, c)
    BY <1>1, <1>2, <1>6, StandsMore
  <2>2. Stands(f3, 1, a)
    BY <1>1, <1>2, <1>6, StandsKept
  <2>3. Stands(f3, 5, b)
    BY <1>1, <1>2, <1>6, StandsKept
  <2> HIDE DEF f3
  <2> QED BY <1>1, <1>2, <2>1, <2>2, <2>3
<1> HIDE DEF f3
<1>8. /\ f4 \in Buffer /\ Len(f4) = 8
      /\ Stands(f4, 1, a) /\ Stands(f4, 5, b) /\ Stands(f4, 7, c) /\ Stands(f4, 8, d)
  <2>1. /\ f4 \in Buffer /\ Len(f4) = 7 + Len(d)
        /\ Stands(f4, 7 + 1, d)
    BY <1>1, <1>2, <1>7, StandsMore
  <2>2. Stands(f4, 1, a)
    BY <1>1, <1>2, <1>7, StandsKept
  <2>3. Stands(f4, 5, b)
    BY <1>1, <1>2, <1>7, StandsKept
  <2>4. Stands(f4, 7, c)
    BY <1>1, <1>2, <1>7, StandsKept
  <2> HIDE DEF f4
  <2> QED BY <1>1, <1>2, <2>1, <2>2, <2>3, <2>4
<1> HIDE DEF f4
<1>9. /\ f5 \in Buffer /\ Len(f5) = 16
      /\ Stands(f5, 1, a) /\ Stands(f5, 5, b) /\ Stands(f5, 7, c) /\ Stands(f5, 8, d)
      /\ Stands(f5, 9, e)
  <2>1. /\ f5 \in Buffer /\ Len(f5) = 8 + Len(e)
        /\ Stands(f5, 8 + 1, e)
    BY <1>1, <1>2, <1>8, StandsMore
  <2>2. Stands(f5, 1, a)
    BY <1>1, <1>2, <1>8, StandsKept
  <2>3. Stands(f5, 5, b)
    BY <1>1, <1>2, <1>8, StandsKept
  <2>4. Stands(f5, 7, c)
    BY <1>1, <1>2, <1>8, StandsKept
  <2>5. Stands(f5, 8, d)
    BY <1>1, <1>2, <1>8, StandsKept
  <2> HIDE DEF f5
  <2> QED BY <1>1, <1>2, <2>1, <2>2, <2>3, <2>4, <2>5
<1> HIDE DEF f5
<1>10. /\ f6 \in Buffer /\ Len(f6) = 20
       /\ Stands(f6, 1, a) /\ Stands(f6, 5, b) /\ Stands(f6, 7, c) /\ Stands(f6, 8, d)
       /\ Stands(f6, 9, e) /\ Stands(f6, 17, g)
  <2>1. /\ f6 \in Buffer /\ Len(f6) = 16 + Len(g)
        /\ Stands(f6, 16 + 1, g)
    BY <1>1, <1>2, <1>9, StandsMore
  <2>2. Stands(f6, 1, a)
    BY <1>1, <1>2, <1>9, StandsKept
  <2>3. Stands(f6, 5, b)
    BY <1>1, <1>2, <1>9, StandsKept
  <2>4. Stands(f6, 7, c)
    BY <1>1, <1>2, <1>9, StandsKept
  <2>5. Stands(f6, 8, d)
    BY <1>1, <1>2, <1>9, StandsKept
  <2>6. Stands(f6, 9, e)
    BY <1>1, <1>2, <1>9, StandsKept
  <2> HIDE DEF f6
  <2> QED BY <1>1, <1>2, <2>1, <2>2, <2>3, <2>4, <2>5, <2>6
<1> HIDE DEF f6
<1>11. /\ f7 \in Buffer /\ Len(f7) = 24
       /\ Stands(f7, 1, a) /\ Stands(f7, 5, b) /\ Stands(f7, 7, c) /\ Stands(f7, 8, d)
       /\ Stands(f7, 9, e) /\ Stands(f7, 17, g) /\ Stands(f7, 21, h)
  <2>1. /\ f7 \in Buffer /\ Len(f7) = 20 + Len(h)
        /\ Stands(f7, 20 + 1, h)
    BY <1>1, <1>2, <1>10, StandsMore
  <2>2. Stands(f7, 1, a)
    BY <1>1, <1>2, <1>10, StandsKept
  <2>3. Stands(f7, 5, b)
    BY <1>1, <1>2, <1>10, StandsKept
  <2>4. Stands(f7, 7, c)
    BY <1>1, <1>2, <1>10, StandsKept
  <2>5. Stands(f7, 8, d)
    BY <1>1, <1>2, <1>10, StandsKept
  <2>6. Stands(f7, 9, e)
    BY <1>1, <1>2, <1>10, StandsKept
  <2>7. Stands(f7, 17, g)
    BY <1>1, <1>2, <1>10, StandsKept
  <2> HIDE DEF f7
  <2> QED BY <1>1, <1>2, <2>1, <2>2, <2>3, <2>4, <2>5, <2>6, <2>7
<1> HIDE DEF f7
<1>12. /\ f8 \in Buffer /\ Len(f8) = 24 + Len(payload)
       /\ Stands(f8, 1, a) /\ Stands(f8, 5, b) /\ Stands(f8, 7, c) /\ Stands(f8, 8, d)
       /\ Stands(f8, 9, e) /\ Stands(f8, 17, g) /\ Stands(f8, 21, h) /\ Stands(f8, 25, payload)
  <2>1. /\ f8 \in Buffer /\ Len(f8) = 24 + Len(payload)
        /\ Stands(f8, 24 + 1, payload)
    BY <1>1, <1>2, <1>11, StandsMore
  <2>2. Stands(f8, 1, a)
    BY <1>1, <1>2, <1>11, StandsKept
  <2>3. Stands(f8, 5, b)
    BY <1>1, <1>2, <1>11, StandsKept
  <2>4. Stands(f8, 7, c)
    BY <1>1, <1>2, <1>11, StandsKept
  <2>5. Stands(f8, 8, d)
    BY <1>1, <1>2, <1>11, StandsKept
  <2>6. Stands(f8, 9, e)
    BY <1>1, <1>2, <1>11, StandsKept
  <2>7. Stands(f8, 17, g)
    BY <1>1, <1>2, <1>11, StandsKept
  <2>8. Stands(f8, 21, h)
    BY <1>1, <1>2, <1>11, StandsKept
  <2> HIDE DEF f8
  <2> QED BY <1>1, <1>2, <2>1, <2>2, <2>3, <2>4, <2>5, <2>6, <2>7, <2>8
<1> HIDE DEF f8
<1>13. FrameStands(f8, type, req, method, payload)
  BY <1>12 DEF FrameStands, a, b, c, d, e, g, h
<1> QED BY <1>3, <1>4, <1>12, <1>13

\* One byte, or the two of the version, that stand in a buffer.
LEMMA BytesStand ==
  ASSUME NEW b \in Buffer, NEW p \in Nat, p >= 1
  PROVE  /\ \A x \in Octet : Stands(b, p, <<x>>) => p <= Len(b) /\ b[p] = x
         /\ Stands(b, p, <<1, 0>>) => p + 1 <= Len(b) /\ b[p] = 1 /\ b[p + 1] = 0
<1>1. ASSUME NEW x \in Octet, Stands(b, p, <<x>>)
      PROVE  p <= Len(b) /\ b[p] = x
  <2>1. Len(<<x>>) = 1 /\ <<x>>[1] = x
    OBVIOUS
  <2>2. p - 1 + 1 <= Len(b) /\ b[p - 1 + 1] = <<x>>[1]
    BY <1>1, <2>1 DEF Stands
  <2> QED BY <2>1, <2>2
<1>2. ASSUME Stands(b, p, <<1, 0>>)
      PROVE  p + 1 <= Len(b) /\ b[p] = 1 /\ b[p + 1] = 0
  <2>1. Len(<<1, 0>>) = 2 /\ <<1, 0>>[1] = 1 /\ <<1, 0>>[2] = 0
    OBVIOUS
  <2>2. p - 1 + 2 <= Len(b) /\ \A i \in 1 .. 2 : b[p - 1 + i] = <<1, 0>>[i]
    BY <1>2, <2>1 DEF Stands
  <2>3. b[p - 1 + 1] = 1 /\ b[p - 1 + 2] = 0
    BY <2>1, <2>2
  <2>4. p - 1 + 1 = p /\ p - 1 + 2 = p + 1
    OBVIOUS
  <2> QED BY <2>2, <2>3, <2>4
<1> QED BY <1>1, <1>2

\* A number of the header, as each side reads it.
LEMMA FieldRead ==
  ASSUME NEW b \in Buffer, NEW p \in Nat, p >= 1, NEW v \in Count
  PROVE  /\ Stands(b, p, LE4(v)) => /\ ReadU32(b, p) = Read(v, p + 4)
                                         /\ GetU32(b, p - 1) = Got(v, p + 3)
         /\ Stands(b, p, LE8(v)) => /\ ReadU64(b, p) = Read(v, p + 8)
                                         /\ GetU64(b, p - 1) = Got(v, p + 7)
<1>1. v \in Integer /\ v >= 0
  BY Numbers
<1> QED BY <1>1, ReadStanding

\* Where the fixed parts of a header stand, both parsers read its fields alike.
LEMMA HeaderRead ==
  ASSUME NEW b \in Buffer, NEW type \in Octet, NEW req \in Count, NEW method \in Count,
         NEW payload \in Buffer, Len(payload) \in Count,
         Stands(b, 1, LE4(Magic)), Stands(b, 5, <<1, 0>>),
         Stands(b, 7, <<type>>), Stands(b, 8, << 0 >>), Stands(b, 9, LE8(req)),
         Stands(b, 17, LE4(method)), Stands(b, 21, LE4(Len(payload)))
  PROVE  /\ Len(b) >= 24
         /\ ReadU32(b, 1) = Read(Magic, 5)
         /\ ReadU16(b, 5) = Read(1, 7)
         /\ ReadU8(b, 7) = Read(type, 8)
         /\ ReadU8(b, 8) = Read(0, 9)
         /\ ReadU64(b, 9) = Read(req, 17)
         /\ ReadU32(b, 17) = Read(method, 21)
         /\ ReadU32(b, 21) = Read(Len(payload), 25)
         /\ GetU32(b, 0) = Got(Magic, 4)
         /\ Fixed(b, 4, 2, Raw) = Got(<<1, 0>>, 6)
         /\ GetU8(b, 6) = Got(type, 7)
         /\ GetU8(b, 7) = Got(0, 8)
         /\ GetU64(b, 8) = Got(req, 16)
         /\ GetU32(b, 16) = Got(method, 20)
         /\ GetU32(b, 20) = Got(Len(payload), 24)
<1> DEFINE n == Len(payload)
<1>1. /\ Magic \in Integer /\ Magic >= 0
      /\ req \in Integer /\ req >= 0 /\ method \in Integer /\ method >= 0
      /\ n \in Integer /\ n >= 0 /\ n \in Int /\ Len(b) \in Nat
  BY Numbers DEF Buffer
<1>2. Stands(b, 21, LE4(n)) /\ Len(LE4(n)) = 4
  BY <1>1, Encodings
<1> HIDE DEF n
<1>3. Len(b) >= 24
  BY <1>1, <1>2 DEF Stands
<1>4. /\ ReadU32(b, 1) = Read(Magic, 5)
      /\ GetU32(b, 0) = Got(Magic, 4)
  <2>1. /\ ReadU32(b, 1) = Read(Magic, 1 + 4)
        /\ GetU32(b, 1 - 1) = Got(Magic, 1 + 3)
    BY Numbers, FieldRead
  <2> QED BY <2>1
<1>5. /\ ReadU64(b, 9) = Read(req, 17)
      /\ GetU64(b, 8) = Got(req, 16)
  <2>1. /\ ReadU64(b, 9) = Read(req, 9 + 8)
        /\ GetU64(b, 9 - 1) = Got(req, 9 + 7)
    BY FieldRead
  <2> QED BY <2>1
<1>6. /\ ReadU32(b, 17) = Read(method, 21)
      /\ GetU32(b, 16) = Got(method, 20)
  <2>1. /\ ReadU32(b, 17) = Read(method, 17 + 4)
        /\ GetU32(b, 17 - 1) = Got(method, 17 + 3)
    BY FieldRead
  <2> QED BY <2>1
<1>7. /\ ReadU32(b, 21) = Read(n, 25)
      /\ GetU32(b, 20) = Got(n, 24)
  <2>1. /\ ReadU32(b, 21) = Read(n, 21 + 4)
        /\ GetU32(b, 21 - 1) = Got(n, 21 + 3)
    BY <1>2, FieldRead DEF n
  <2> QED BY <2>1
<1>8. /\ b[5] = 1 /\ b[6] = 0 /\ b[7] = type /\ b[8] = 0
  <2>1. 0 \in Octet
    BY DEF Octet
  <2>2. b[5] = 1 /\ b[5 + 1] = 0
    BY BytesStand
  <2>3. b[7] = type /\ b[8] = 0
    BY <2>1, BytesStand
  <2> QED BY <2>2, <2>3
<1>9. /\ ReadU16(b, 5) = Read(1, 7)
      /\ ReadU8(b, 7) = Read(type, 8)
      /\ ReadU8(b, 8) = Read(0, 9)
  <2>1. Has(b, 5, 2) /\ Has(b, 7, 1) /\ Has(b, 8, 1)
    BY <1>1, <1>3 DEF Has
  <2>2. b[5] + 256 * b[5 + 1] = 1
    BY <1>8
  <2>3. ReadU16(b, 5) = Read(1, 7)
    BY <2>1, <2>2 DEF ReadU16
  <2>4. ReadU8(b, 7) = Read(type, 8) /\ ReadU8(b, 8) = Read(0, 9)
    BY <1>8, <2>1 DEF ReadU8
  <2> QED BY <2>3, <2>4
<1>10. Fixed(b, 4, 2, Raw) = Got(<<1, 0>>, 6)
  <2>1. Enough(b, 4, 2)
    BY <1>1, <1>3 DEF Enough
  <2>2. Bytes(b, 4, 2) = <<1, 0>>
    <3> DEFINE w == <<1, 0>>
    <3>1. w \in Buffer /\ Len(w) = 2 /\ Stands(b, 5, w)
      BY Encodings
    <3> HIDE DEF w
    <3> DEFINE p == 5
               q == 6
    <3>2. p \in Nat /\ p >= 1 /\ q \in Int /\ q = p + Len(w) - 1 /\ Stands(b, p, w)
      BY <3>1
    <3> HIDE DEF p, q
    <3>3. SubSeq(b, p, q) = w
      BY <3>1, <3>2, TakeUpTo
    <3> QED BY <3>3 DEF Bytes, w, p, q
  <2> QED BY <2>1, <2>2 DEF Fixed, Raw
<1>11. /\ GetU8(b, 6) = Got(type, 7)
       /\ GetU8(b, 7) = Got(0, 8)
  <2>1. Enough(b, 6, 1) /\ Enough(b, 7, 1)
    BY <1>1, <1>3 DEF Enough
  <2>2. \A i \in 1 .. Len(b) : b[i] \in Octet
    BY ElementOfSeq DEF Buffer
  <2>3. Bytes(b, 6, 1)[1] = b[7] /\ Bytes(b, 7, 1)[1] = b[8]
    <3>1. b[7] \in Octet /\ b[8] \in Octet
      BY <1>1, <1>3, <2>2
    <3>2. SubSeq(b, 7, 7)[1] = b[7 + 1 - 1] /\ SubSeq(b, 8, 8)[1] = b[8 + 1 - 1]
      BY <3>1, SubSeqProperties
    <3> QED BY <3>2 DEF Bytes
  <2>4. /\ First(Bytes(b, 6, 1)) = type
        /\ First(Bytes(b, 7, 1)) = 0
    BY <1>8, <2>3 DEF First
  <2> QED BY <2>1, <2>4 DEF GetU8, Fixed
<1> QED BY <1>3, <1>4, <1>5, <1>6, <1>7, <1>9, <1>10, <1>11 DEF n

\* A buffer that begins with a frame is read as that frame.
LEMMA WholeFrameRead ==
  ASSUME NEW b \in Buffer, NEW type \in Octet, NEW req \in Count, NEW method \in Count,
         NEW payload \in Buffer, Len(payload) \in Count,
         FrameStands(b, type, req, method, payload)
  PROVE  /\ parse_frame(b) = [ok |-> TRUE, type |-> type, req |-> req, method |-> method,
                                     payload |-> payload]
         /\ type \in MsgTypes =>
              parseFrame(b) = [ok |-> TRUE, type |-> type, req |-> req, method |-> method,
                                        payload |-> payload]
<1> DEFINE n == Len(payload)
<1>1. /\ ReadU32(b, 1) = Read(Magic, 5)
      /\ ReadU16(b, 5) = Read(1, 7)
      /\ ReadU8(b, 7) = Read(type, 8)
      /\ ReadU8(b, 8) = Read(0, 9)
      /\ ReadU64(b, 9) = Read(req, 17)
      /\ ReadU32(b, 17) = Read(method, 21)
      /\ ReadU32(b, 21) = Read(n, 25)
  BY HeaderRead DEF FrameStands
<1>2. /\ GetU32(b, 0) = Got(Magic, 4)
      /\ Fixed(b, 4, 2, Raw) = Got(<<1, 0>>, 6)
      /\ GetU8(b, 6) = Got(type, 7)
      /\ GetU8(b, 7) = Got(0, 8)
      /\ GetU64(b, 8) = Got(req, 16)
      /\ GetU32(b, 16) = Got(method, 20)
      /\ GetU32(b, 20) = Got(n, 24)
  BY HeaderRead DEF FrameStands
<1>3. Stands(b, 25, payload) /\ n \in Nat /\ Len(b) \in Nat
  BY DEF FrameStands, Buffer
<1>4. 24 + n <= Len(b)
  BY <1>3 DEF Stands
<1>5. SubSeq(b, 25, 24 + n) = payload
  <2> DEFINE p == 25
             q == 24 + n
  <2>1. p \in Nat /\ p >= 1 /\ q \in Int /\ q = p + n - 1 /\ Stands(b, p, payload)
    <3> HIDE DEF n
    <3> QED BY <1>3
  <2> HIDE DEF p, q
  <2>2. SubSeq(b, p, q) = payload
    BY <2>1, TakeUpTo
  <2> QED BY <2>2 DEF p, q
<1>6. parse_frame(b) = [ok |-> TRUE, type |-> type, req |-> req, method |-> method,
                               payload |-> payload]
  <2>1. Has(b, 25, n)
    BY <1>3, <1>4 DEF Has
  <2>2. Take(b, 25, n) = payload
    <3>1. 25 + n - 1 = 24 + n
      BY <1>3
    <3> QED BY <1>5, <3>1 DEF Take
  <2>3. Version = 1
    BY DEF Version
  <2> HIDE DEF n
  <2>4. \A v, next : Read(v, next).ok /\ Read(v, next).v = v
    BY DEF Read
  <2>5. /\ ReadU32(b, 1).ok /\ ReadU32(b, 1).v = Magic
        /\ ReadU16(b, 5).ok /\ ReadU16(b, 5).v = 1
        /\ ReadU8(b, 7).ok /\ ReadU8(b, 7).v = type
        /\ ReadU8(b, 8).ok
        /\ ReadU64(b, 9).ok /\ ReadU64(b, 9).v = req
        /\ ReadU32(b, 17).ok /\ ReadU32(b, 17).v = method
        /\ ReadU32(b, 21).ok /\ ReadU32(b, 21).v = n
    BY <1>1, <2>4
  <2> QED BY <2>1, <2>2, <2>3, <2>5 DEF parse_frame
<1>7. ASSUME type \in MsgTypes
      PROVE  parseFrame(b) = [ok |-> TRUE, type |-> type, req |-> req, method |-> method,
                                       payload |-> payload]
  <2>1. Len(b) - 24 >= n
    BY <1>3, <1>4
  <2>2. Bytes(b, 24, n) = payload
    BY <1>5 DEF Bytes
  <2>3. PutU16(kProtocolVersion) = <<1, 0>>
    BY OneWire, Encodings DEF kProtocolVersion
  <2>4. kMagic = Magic
    BY Numbers
  <2> HIDE DEF n
  <2>5. \A v, pos : Got(v, pos).ok /\ Got(v, pos).v = v
    BY DEF Got
  <2>6. /\ GetU32(b, 0).ok /\ GetU32(b, 0).v = Magic
        /\ Fixed(b, 4, 2, Raw).ok
        /\ Fixed(b, 4, 2, Raw).v = <<1, 0>>
        /\ GetU8(b, 6).ok /\ GetU8(b, 6).v = type
        /\ GetU8(b, 7).ok
        /\ GetU64(b, 8).ok /\ GetU64(b, 8).v = req
        /\ GetU32(b, 16).ok /\ GetU32(b, 16).v = method
        /\ GetU32(b, 20).ok /\ GetU32(b, 20).v = n
    BY <1>2, <2>5
  <2> QED BY <1>7, <2>1, <2>2, <2>3, <2>4, <2>6 DEF parseFrame
<1> QED BY <1>6, <1>7

\* Bytes after a frame do not disturb it.
LEMMA FrameStandsOn ==
  ASSUME NEW b \in Buffer, NEW rest \in Buffer, NEW type \in Octet, NEW req \in Count,
         NEW method \in Count, NEW payload \in Buffer, Len(payload) \in Count,
         FrameStands(b, type, req, method, payload)
  PROVE  FrameStands(b \o rest, type, req, method, payload)
<1>1. /\ LE4(Magic) \in Buffer /\ LE8(req) \in Buffer
      /\ LE4(method) \in Buffer /\ LE4(Len(payload)) \in Buffer
      /\ <<1, 0>> \in Buffer /\ <<type>> \in Buffer
  BY Encodings, Numbers
<1>2. << 0 >> \in Buffer
  <2>1. 0 \in Octet
    BY DEF Octet
  <2> QED BY <2>1, Encodings
<1>3. Stands(b \o rest, 1, LE4(Magic))
  BY <1>1, StandsKept DEF FrameStands
<1>4. Stands(b \o rest, 5, <<1, 0>>)
  BY <1>1, StandsKept DEF FrameStands
<1>5. Stands(b \o rest, 7, <<type>>)
  BY <1>1, StandsKept DEF FrameStands
<1>6. Stands(b \o rest, 8, << 0 >>)
  BY <1>2, StandsKept DEF FrameStands
<1>7. Stands(b \o rest, 9, LE8(req))
  BY <1>1, StandsKept DEF FrameStands
<1>8. Stands(b \o rest, 17, LE4(method))
  BY <1>1, StandsKept DEF FrameStands
<1>9. Stands(b \o rest, 21, LE4(Len(payload)))
  BY <1>1, StandsKept DEF FrameStands
<1>10. Stands(b \o rest, 25, payload)
  BY StandsKept DEF FrameStands
<1> QED BY <1>3, <1>4, <1>5, <1>6, <1>7, <1>8, <1>9, <1>10 DEF FrameStands

\* A frame built by one side is taken apart by the other into what its sender put
\* in: the type, the request, the method and the payload, byte for byte, also
\* when the buffer goes on after the frame.
THEOREM FramesCross ==
  ASSUME NEW type \in MsgTypes, NEW req \in Count, NEW method \in Count,
         NEW payload \in Buffer, Len(payload) \in Count, NEW rest \in Buffer
  PROVE  LET meant == [ok |-> TRUE, type |-> type, req |-> req, method |-> method,
                       payload |-> payload]
         IN  /\ parse_frame(makeFrame(type, req, method, payload) \o rest) = meant
             /\ parseFrame(make_frame(type, req, method, payload) \o rest) = meant
<1> DEFINE f == make_frame(type, req, method, payload)
<1>1. type \in Octet
  BY DEF Octet, MsgTypes
<1>2. /\ makeFrame(type, req, method, payload) = f
      /\ f \in Buffer
      /\ FrameStands(f, type, req, method, payload)
  BY <1>1, FrameLaid
<1> HIDE DEF f
<1>3. f \o rest \in Buffer
  BY <1>2, StandsConcat
<1>4. FrameStands(f \o rest, type, req, method, payload)
  BY <1>1, <1>2, FrameStandsOn
<1>5. /\ parse_frame(f \o rest)
           = [ok |-> TRUE, type |-> type, req |-> req, method |-> method, payload |-> payload]
      /\ parseFrame(f \o rest)
           = [ok |-> TRUE, type |-> type, req |-> req, method |-> method, payload |-> payload]
  BY <1>1, <1>3, <1>4, WholeFrameRead
<1> QED BY <1>2, <1>5 DEF f

\* No parser accepts a frame whose length field or payload is not there.
LEMMA NoLengthNoFrame ==
  ASSUME NEW b \in Buffer
  PROVE  /\ parse_frame(b).ok =>
              ReadU32(b, 21).ok /\ Has(b, 25, ReadU32(b, 21).v)
         /\ parseFrame(b).ok =>
              GetU32(b, 20).ok /\ Len(b) - 24 >= GetU32(b, 20).v
<1>1. ~[ok |-> FALSE].ok
  OBVIOUS
<1>2. ASSUME ~(ReadU32(b, 21).ok /\ Has(b, 25, ReadU32(b, 21).v))
      PROVE  ~parse_frame(b).ok
  BY <1>1, <1>2 DEF parse_frame
<1>3. ASSUME ~(GetU32(b, 20).ok /\ Len(b) - 24 >= GetU32(b, 20).v)
      PROVE  ~parseFrame(b).ok
  BY <1>1, <1>3 DEF parseFrame
<1> QED BY <1>2, <1>3

\* A frame that lost its end is refused by both sides, wherever it was cut: in the
\* header or in the payload.
THEOREM CutFramesAreRefused ==
  ASSUME NEW type \in Octet, NEW req \in Count, NEW method \in Count,
         NEW payload \in Buffer, Len(payload) \in Count,
         NEW n \in 0 .. 23 + Len(payload)
  PROVE  /\ ~parse_frame(SubSeq(makeFrame(type, req, method, payload), 1, n)).ok
         /\ ~parseFrame(SubSeq(make_frame(type, req, method, payload), 1, n)).ok
<1> DEFINE f == make_frame(type, req, method, payload)
           b == SubSeq(f, 1, n)
           m == Len(payload)
<1>1. /\ makeFrame(type, req, method, payload) = f
      /\ f \in Buffer
      /\ Len(f) = 24 + m
      /\ FrameStands(f, type, req, method, payload)
  BY FrameLaid
<1>2. m \in Nat /\ n \in Int /\ 0 <= n /\ n <= 23 + m /\ n \in 0 .. 23 + m
  BY DEF Buffer
<1> HIDE DEF f
<1>3. n \in 0 .. Len(f)
  <2> HIDE DEF m
  <2> QED BY <1>1, <1>2
<1>4. b \in Buffer /\ Len(b) = n
  BY <1>1, <1>3, StandsCut
<1>5. CASE n < 24
  <2> HIDE DEF b
  <2>1. ReadU32(b, 21) = Truncated /\ GetU32(b, 20) = Failed
    <3>1. ~(21 + 3 <= Len(b))
      BY <1>2, <1>4, <1>5
    <3> DEFINE p == 21
    <3>2. p \in Nat /\ p >= 1 /\ ~(p + 3 <= Len(b)) /\ p - 1 = 20
      BY <3>1
    <3> HIDE DEF p
    <3>3. ReadU32(b, p) = Truncated /\ GetU32(b, p - 1) = Failed
      BY <1>4, <3>2, ReadFour
    <3>4. GetU32(b, 20) = Failed
      BY <3>2, <3>3
    <3> QED BY <3>3, <3>4 DEF p
  <2>2. ~ReadU32(b, 21).ok /\ ~GetU32(b, 20).ok
    BY <2>1 DEF Truncated, Failed
  <2>3. ~parse_frame(b).ok /\ ~parseFrame(b).ok
    BY <1>4, <2>2, NoLengthNoFrame
  <2> QED BY <1>1, <2>3 DEF f, b
<1>6. CASE n >= 24
  <2> DEFINE h == LE4(m)
             g == LE4(method)
             e == LE8(req)
             a == LE4(Magic)
             v == <<1, 0>>
             t == <<type>>
             z == << 0 >>
  <2>1. /\ a \in Buffer /\ Len(a) = 4 /\ h \in Buffer /\ Len(h) = 4
        /\ g \in Buffer /\ Len(g) = 4 /\ e \in Buffer /\ Len(e) = 8
    BY Encodings, Numbers
  <2>2. /\ v \in Buffer /\ Len(v) = 2 /\ t \in Buffer /\ Len(t) = 1
        /\ z \in Buffer /\ Len(z) = 1
    <3>1. 0 \in Octet
      BY DEF Octet
    <3> QED BY <3>1, Encodings
  <2>3. /\ Stands(f, 1, a) /\ Stands(f, 5, v) /\ Stands(f, 7, t) /\ Stands(f, 8, z)
        /\ Stands(f, 9, e) /\ Stands(f, 17, g) /\ Stands(f, 21, h)
    BY <1>1 DEF FrameStands
  <2>4. \A w \in Buffer, p \in Nat :
          p >= 1 /\ Stands(f, p, w) /\ p - 1 + Len(w) <= n => Stands(b, p, w)
    BY <1>1, <1>3, StandsCut
  <2> HIDE DEF a, v, t, z, e, g, h, b
  <2>5. Stands(b, 1, a)
    <3>1. 1 \in Nat /\ 1 >= 1 /\ 1 - 1 + Len(a) <= n
      BY <1>2, <1>6, <2>1
    <3> QED BY <2>1, <2>2, <2>3, <2>4, <3>1, Zenon
  <2>6. Stands(b, 5, v)
    <3>1. 5 \in Nat /\ 5 >= 1 /\ 5 - 1 + Len(v) <= n
      BY <1>2, <1>6, <2>2
    <3> QED BY <2>1, <2>2, <2>3, <2>4, <3>1, Zenon
  <2>7. Stands(b, 7, t)
    <3>1. 7 \in Nat /\ 7 >= 1 /\ 7 - 1 + Len(t) <= n
      BY <1>2, <1>6, <2>2
    <3> QED BY <2>1, <2>2, <2>3, <2>4, <3>1, Zenon
  <2>8. Stands(b, 8, z)
    <3>1. 8 \in Nat /\ 8 >= 1 /\ 8 - 1 + Len(z) <= n
      BY <1>2, <1>6, <2>2
    <3> QED BY <2>1, <2>2, <2>3, <2>4, <3>1, Zenon
  <2>9. Stands(b, 9, e)
    <3>1. 9 \in Nat /\ 9 >= 1 /\ 9 - 1 + Len(e) <= n
      BY <1>2, <1>6, <2>1
    <3> QED BY <2>1, <2>2, <2>3, <2>4, <3>1, Zenon
  <2>10. Stands(b, 17, g)
    <3>1. 17 \in Nat /\ 17 >= 1 /\ 17 - 1 + Len(g) <= n
      BY <1>2, <1>6, <2>1
    <3> QED BY <2>1, <2>2, <2>3, <2>4, <3>1, Zenon
  <2>11. Stands(b, 21, h)
    <3>1. 21 \in Nat /\ 21 >= 1 /\ 21 - 1 + Len(h) <= n
      BY <1>2, <1>6, <2>1
    <3> QED BY <2>1, <2>2, <2>3, <2>4, <3>1, Zenon
  <2>12. /\ ReadU32(b, 21) = Read(m, 25)
         /\ GetU32(b, 20) = Got(m, 24)
    BY <1>4, <2>5, <2>6, <2>7, <2>8, <2>9, <2>10, <2>11, HeaderRead DEF a, v, t, z, e, g, h
  <2>13. ReadU32(b, 21).v = m /\ GetU32(b, 20).v = m
    BY <2>12 DEF Read, Got
  <2> HIDE DEF m
  <2>14. ~Has(b, 25, m) /\ ~(Len(b) - 24 >= m)
    BY <1>2, <1>4, <1>6 DEF Has
  <2>15. ~parse_frame(b).ok /\ ~parseFrame(b).ok
    BY <1>4, <2>13, <2>14, NoLengthNoFrame
  <2> QED BY <1>1, <2>15 DEF f, b
<1> QED BY <1>2, <1>5, <1>6

\* At any position of any buffer, the two readers fail together or agree.
LEMMA ReadersAgree ==
  ASSUME NEW b \in Buffer, NEW p \in Nat, p >= 1
  PROVE  /\ ReadU32(b, p).ok <=> GetU32(b, p - 1).ok
         /\ ReadU32(b, p).ok => /\ ReadU32(b, p).v = GetU32(b, p - 1).v
                                        /\ ReadU32(b, p).v \in Int
                                        /\ p + 3 <= Len(b)
         /\ ReadU64(b, p).ok <=> GetU64(b, p - 1).ok
         /\ ReadU64(b, p).ok => ReadU64(b, p).v = GetU64(b, p - 1).v
         /\ ReadU8(b, p).ok <=> GetU8(b, p - 1).ok
         /\ ReadU8(b, p).ok => ReadU8(b, p).v = GetU8(b, p - 1).v
<1>1. Len(b) \in Nat /\ \A i \in 1 .. Len(b) : b[i] \in Octet
  BY ElementOfSeq DEF Buffer
<1>2. /\ \A v, next : Read(v, next).ok /\ Read(v, next).v = v
      /\ \A v, pos : Got(v, pos).ok /\ Got(v, pos).v = v
      /\ ~Truncated.ok /\ ~Failed.ok
  BY DEF Read, Truncated, Got, Failed
<1>3. ASSUME p + 3 <= Len(b)
      PROVE  Unsigned(SubSeq(b, p, p + 3)) \in Int
  <2> DEFINE s == SubSeq(b, p, p + 3)
  <2>1. \A i \in p .. p + 3 : b[i] \in Octet
    BY <1>1, <1>3
  <2>2. s \in Seq(Octet) /\ Len(s) = 4
    <3>1. /\ s \in Seq(Octet)
          /\ Len(s) = IF p <= p + 3 THEN p + 3 - p + 1 ELSE 0
      BY <2>1, SubSeqProperties
    <3> HIDE DEF s
    <3>2. p <= p + 3 /\ p + 3 - p + 1 = 4
      OBVIOUS
    <3> QED BY <3>1, <3>2
  <2> HIDE DEF s
  <2>3. s[1] \in Octet /\ s[2] \in Octet /\ s[3] \in Octet /\ s[4] \in Octet
    <3>1. \A i \in 1 .. Len(s) : s[i] \in Octet
      BY <2>2, ElementOfSeq
    <3>2. 1 \in 1 .. Len(s) /\ 2 \in 1 .. Len(s) /\ 3 \in 1 .. Len(s) /\ 4 \in 1 .. Len(s)
      BY <2>2
    <3> QED BY <3>1, <3>2
  <2>4. s[1] \in Int /\ s[2] \in Int /\ s[3] \in Int /\ s[4] \in Int
    BY <2>3 DEF Octet
  <2>5. Low(s) \in Int
    BY <2>4, SMT DEF Low
  <2>6. Unsigned(s) \in Int
    BY <2>4, <2>5, SMT DEF Unsigned, Huge
  <2> QED BY <2>6 DEF s
<1>4. /\ ReadU32(b, p).ok <=> GetU32(b, p - 1).ok
      /\ ReadU32(b, p).ok => /\ ReadU32(b, p).v = GetU32(b, p - 1).v
                                     /\ ReadU32(b, p).v \in Int
                                     /\ p + 3 <= Len(b)
  <2>1. CASE p + 3 <= Len(b)
    <3>1. /\ ReadU32(b, p) = Read(Unsigned(SubSeq(b, p, p + 3)), p + 4)
          /\ GetU32(b, p - 1) = Got(Unsigned(SubSeq(b, p, p + 3)), p + 3)
      BY <2>1, ReadFour
    <3> QED BY <1>2, <1>3, <2>1, <3>1
  <2>2. CASE ~(p + 3 <= Len(b))
    <3>1. ReadU32(b, p) = Truncated /\ GetU32(b, p - 1) = Failed
      BY <2>2, ReadFour
    <3> QED BY <1>2, <3>1
  <2> QED BY <2>1, <2>2
<1>5. /\ ReadU64(b, p).ok <=> GetU64(b, p - 1).ok
      /\ ReadU64(b, p).ok => ReadU64(b, p).v = GetU64(b, p - 1).v
  <2>1. CASE p + 7 <= Len(b)
    <3>1. /\ ReadU64(b, p) = Read(Unsigned(SubSeq(b, p, p + 7)), p + 8)
          /\ GetU64(b, p - 1) = Got(Unsigned(SubSeq(b, p, p + 7)), p + 7)
      BY <2>1, ReadEight
    <3> QED BY <1>2, <3>1
  <2>2. CASE ~(p + 7 <= Len(b))
    <3>1. ReadU64(b, p) = Truncated /\ GetU64(b, p - 1) = Failed
      BY <2>2, ReadEight
    <3> QED BY <1>2, <3>1
  <2> QED BY <2>1, <2>2
<1>6. /\ ReadU8(b, p).ok <=> GetU8(b, p - 1).ok
      /\ ReadU8(b, p).ok => ReadU8(b, p).v = GetU8(b, p - 1).v
  <2>1. Has(b, p, 1) <=> p <= Len(b)
    BY <1>1 DEF Has
  <2>2. Enough(b, p - 1, 1) <=> p <= Len(b)
    BY <1>1 DEF Enough
  <2>3. CASE p <= Len(b)
    <3>1. ReadU8(b, p) = Read(b[p], p + 1)
      BY <2>1, <2>3 DEF ReadU8
    <3>2. Bytes(b, p - 1, 1)[1] = b[p]
      <4>1. \A i \in p .. p : b[i] \in Octet
        BY <1>1, <2>3
      <4>2. \A i \in 1 .. p - p + 1 : SubSeq(b, p, p)[i] = b[p + i - 1]
        BY <4>1, SubSeqProperties
      <4>3. p - 1 + 1 = p /\ 1 \in 1 .. p - p + 1 /\ p + 1 - 1 = p
        OBVIOUS
      <4>4. SubSeq(b, p, p)[1] = b[p]
        BY <4>2, <4>3
      <4> QED BY <4>3, <4>4 DEF Bytes
    <3>3. GetU8(b, p - 1) = Got(b[p], p - 1 + 1)
      BY <2>2, <2>3, <3>2 DEF GetU8, Fixed, First
    <3> QED BY <1>2, <3>1, <3>3
  <2>4. CASE ~(p <= Len(b))
    <3>1. ReadU8(b, p) = Truncated
      BY <2>1, <2>4 DEF ReadU8
    <3>2. GetU8(b, p - 1) = Failed
      BY <2>2, <2>4 DEF GetU8, Fixed
    <3> QED BY <1>2, <3>1, <3>2
  <2> QED BY <2>3, <2>4
<1> QED BY <1>4, <1>5, <1>6

\* C++ compares a number and Dart two bytes: they accept the same versions.
LEMMA VersionsAgree ==
  ASSUME NEW b \in Buffer, Len(b) >= 24
  PROVE  /\ ReadU16(b, 5).ok
         /\ Fixed(b, 4, 2, Raw).ok
         /\ ReadU16(b, 5).v = Version
              <=> Fixed(b, 4, 2, Raw).v = PutU16(kProtocolVersion)
<1>1. Len(b) \in Nat /\ \A i \in 1 .. Len(b) : b[i] \in Octet
  BY ElementOfSeq DEF Buffer
<1> DEFINE s == SubSeq(b, 5, 6)
<1>2. b[5] \in Octet /\ b[6] \in Octet
  BY <1>1
<1>3. b[5] \in Int /\ b[6] \in Int /\ 0 <= b[5] /\ b[5] <= 255 /\ 0 <= b[6] /\ b[6] <= 255
  <2>1. \A x \in Octet : x \in Int /\ 0 <= x /\ x <= 255
    BY DEF Octet
  <2> QED BY <1>2, <2>1
<1>4. s \in Seq(Octet) /\ Len(s) = 2 /\ s[1] = b[5] /\ s[2] = b[6]
  <2>1. \A i \in 5 .. 6 : b[i] \in Octet
    BY <1>1
  <2>2. /\ s \in Seq(Octet) /\ Len(s) = IF 5 <= 6 THEN 6 - 5 + 1 ELSE 0
        /\ \A i \in 1 .. 6 - 5 + 1 : s[i] = b[5 + i - 1]
    BY <2>1, SubSeqProperties
  <2> HIDE DEF s
  <2>3. s[1] = b[5 + 1 - 1] /\ s[2] = b[5 + 2 - 1]
    BY <2>2
  <2> QED BY <2>2, <2>3
<1>5. ReadU16(b, 5) = Read(b[5] + 256 * b[6], 7)
  <2>1. Has(b, 5, 2)
    BY <1>1 DEF Has
  <2> QED BY <2>1 DEF ReadU16
<1>6. Fixed(b, 4, 2, Raw) = Got(s, 6)
  <2>1. Enough(b, 4, 2)
    BY <1>1 DEF Enough
  <2>2. Bytes(b, 4, 2) = s
    BY DEF Bytes
  <2> HIDE DEF s
  <2> QED BY <2>1, <2>2 DEF Fixed, Raw
<1> HIDE DEF s
<1>7. b[5] + 256 * b[6] = 1 <=> b[5] = 1 /\ b[6] = 0
  BY <1>3
<1>8. s = <<1, 0>> <=> s[1] = 1 /\ s[2] = 0
  <2>1. <<1, 0>> \in Seq(Octet) /\ Len(<<1, 0>>) = 2 /\ <<1, 0>>[1] = 1 /\ <<1, 0>>[2] = 0
    BY Encodings DEF Buffer
  <2>2. ASSUME s[1] = 1, s[2] = 0 PROVE s = <<1, 0>>
    <3> DEFINE w == <<1, 0>>
    <3>1. w \in Seq(Octet) /\ Len(w) = Len(s) /\ w[1] = s[1] /\ w[2] = s[2]
      BY <1>4, <2>1, <2>2
    <3> HIDE DEF w
    <3>2. \A i \in 1 .. Len(s) : s[i] = w[i]
      <4>1. \A i \in 1 .. 2 : i = 1 \/ i = 2
        OBVIOUS
      <4> QED BY <1>4, <3>1, <4>1
    <3>3. s = w
      BY <1>4, <3>1, <3>2, SeqEqual
    <3> QED BY <3>3 DEF w
  <2> QED BY <2>1, <2>2
<1>9. PutU16(kProtocolVersion) = <<1, 0>> /\ Version = 1
  BY OneWire, Encodings DEF kProtocolVersion, Version
<1>10. ReadU16(b, 5).ok /\ ReadU16(b, 5).v = b[5] + 256 * b[6]
  BY <1>5 DEF Read
<1>11. Fixed(b, 4, 2, Raw).ok /\ Fixed(b, 4, 2, Raw).v = s
  BY <1>6 DEF Got
<1> QED BY <1>4, <1>7, <1>8, <1>9, <1>10, <1>11

\* Whatever bytes arrive, the two sides read the same frame in them: what Dart
\* accepts C++ accepts with the same fields, and what C++ accepts Dart accepts
\* too, but for a type that Dart does not know.
THEOREM ParsersAgree ==
  ASSUME NEW b \in Buffer
  PROVE  /\ parseFrame(b).ok => parse_frame(b) = parseFrame(b)
         /\ parse_frame(b).ok =>
              \/ parseFrame(b) = parse_frame(b)
              \/ parse_frame(b).type \notin MsgTypes /\ ~parseFrame(b).ok
<1>1. Len(b) \in Nat /\ ~[ok |-> FALSE].ok
  BY DEF Buffer
<1> DEFINE cm == ReadU32(b, 1)   dm == GetU32(b, 0)
           cv == ReadU16(b, 5)   dv == Fixed(b, 4, 2, Raw)
           ct == ReadU8(b, 7)    dt == GetU8(b, 6)
           cf == ReadU8(b, 8)    df == GetU8(b, 7)
           cr == ReadU64(b, 9)   dr == GetU64(b, 8)
           ci == ReadU32(b, 17)  di == GetU32(b, 16)
           cn == ReadU32(b, 21)  dn == GetU32(b, 20)
           CppTakes == /\ cm.ok /\ cm.v = Magic
                       /\ cv.ok /\ cv.v = Version
                       /\ ct.ok /\ cf.ok /\ cr.ok /\ ci.ok
                       /\ cn.ok /\ Has(b, 25, cn.v)
           DartTakes == /\ dm.ok /\ dm.v = kMagic
                        /\ dv.ok /\ dv.v = PutU16(kProtocolVersion)
                        /\ dt.ok /\ dt.v \in MsgTypes
                        /\ df.ok /\ dr.ok /\ di.ok
                        /\ dn.ok /\ Len(b) - 24 >= dn.v
<1>2. parse_frame(b)
        = IF CppTakes THEN [ok |-> TRUE, type |-> ct.v, req |-> cr.v, method |-> ci.v,
                            payload |-> Take(b, 25, cn.v)]
                      ELSE [ok |-> FALSE]
  BY DEF parse_frame
<1>3. parseFrame(b)
        = IF DartTakes THEN [ok |-> TRUE, type |-> dt.v, req |-> dr.v, method |-> di.v,
                             payload |-> Bytes(b, 24, dn.v)]
                       ELSE [ok |-> FALSE]
  BY DEF parseFrame
<1>4. /\ cm.ok <=> dm.ok
      /\ cm.ok => cm.v = dm.v
  BY ReadersAgree
<1>5. /\ ct.ok <=> dt.ok
      /\ ct.ok => ct.v = dt.v
  BY ReadersAgree
<1>6. cf.ok <=> df.ok
  BY ReadersAgree
<1>7. /\ cr.ok <=> dr.ok
      /\ cr.ok => cr.v = dr.v
  BY ReadersAgree
<1>8. /\ ci.ok <=> di.ok
      /\ ci.ok => ci.v = di.v
  BY ReadersAgree
<1>9. /\ cn.ok <=> dn.ok
      /\ cn.ok => cn.v = dn.v /\ cn.v \in Int /\ 21 + 3 <= Len(b)
  BY ReadersAgree
<1>10. cn.ok => /\ cv.ok /\ dv.ok
                /\ cv.v = Version <=> dv.v = PutU16(kProtocolVersion)
  <2> SUFFICES ASSUME cn.ok
               PROVE  /\ cv.ok /\ dv.ok
                      /\ cv.v = Version
                           <=> dv.v = PutU16(kProtocolVersion)
    OBVIOUS
  <2>1. Len(b) >= 24
    BY <1>1, <1>9
  <2> QED BY <2>1, VersionsAgree
<1> HIDE DEF cm, dm, cv, dv, ct, dt, cf, df, cr, dr, ci, di, cn, dn
<1>11. cn.ok => /\ Has(b, 25, cn.v) <=> Len(b) - 24 >= dn.v
                /\ Take(b, 25, cn.v) = Bytes(b, 24, dn.v)
  <2> SUFFICES ASSUME cn.ok
               PROVE  /\ Has(b, 25, cn.v) <=> Len(b) - 24 >= dn.v
                      /\ Take(b, 25, cn.v) = Bytes(b, 24, dn.v)
    OBVIOUS
  <2>1. cn.v = dn.v /\ cn.v \in Int /\ 24 <= Len(b)
    BY <1>9
  <2>2. Has(b, 25, cn.v) <=> Len(b) - 24 >= dn.v
    BY <1>1, <2>1 DEF Has
  <2>3. 25 + cn.v - 1 = 24 + dn.v /\ 24 + 1 = 25
    BY <2>1
  <2> QED BY <2>2, <2>3 DEF Take, Bytes
<1>12. kMagic = Magic
  BY Numbers
<1>13. DartTakes <=> CppTakes /\ ct.v \in MsgTypes
  BY <1>4, <1>5, <1>6, <1>7, <1>8, <1>9, <1>10, <1>11, <1>12
<1>14. CppTakes /\ DartTakes => parse_frame(b) = parseFrame(b)
  BY <1>2, <1>3, <1>5, <1>7, <1>8, <1>11
<1>15. parse_frame(b).ok => CppTakes
  BY <1>1, <1>2
<1>16. parseFrame(b).ok => DartTakes
  BY <1>1, <1>3
<1>17. CppTakes => parse_frame(b).type = ct.v
  BY <1>2
<1> HIDE DEF CppTakes, DartTakes
<1> QED BY <1>13, <1>14, <1>15, <1>16, <1>17

-----------------------------------------------------------------------------
(***************************************************************************)
(* Values of whole types: lists, sets, maps, records and optionals, whose  *)
(* parts are values in turn.  The walk of a reader over the parts is a     *)
(* recursive function; what it has read after i parts is proved by         *)
(* induction on i (FromZeroOn), and a value with three levels of parts     *)
(* from the value with two.                                                *)
(***************************************************************************)

\* Induction over the naturals, for a set.
LEMMA FromZeroOn ==
  ASSUME NEW S, 0 \in S, \A n \in Nat : n \in S => n + 1 \in S
  PROVE  \A n \in Nat : n \in S
<1> DEFINE T == Nat \ S
           R == OpToRel(<, Nat)
<1>1. SUFFICES ASSUME T # {} PROVE FALSE
  OBVIOUS
<1>2. PICK x \in T : \A y \in T : ~(<<y, x>> \in R)
  <2> HIDE DEF R, T
  <2>1. IsWellFoundedOn(R, Nat)
    BY NatLessThanWellFounded, Zenon DEF R
  <2>2. T \subseteq Nat
    BY DEF T
  <2> QED BY <1>1, <2>1, <2>2, WFMin
<1>3. x \in Nat /\ x # 0 /\ x - 1 \in Nat /\ x - 1 < x /\ (x - 1) + 1 = x
  <2>1. x \in Nat /\ x \notin S
    BY <1>2, Zenon
  <2> HIDE DEF R, T
  <2>2. x # 0
    BY <2>1
  <2> QED BY <2>1, <2>2
<1>4. <<x - 1, x>> \in R
  BY <1>3 DEF OpToRel
<1>5. x - 1 \in S
  BY <1>2, <1>3, <1>4, Zenon
<1> QED BY <1>2, <1>3, <1>5, Zenon

-----------------------------------------------------------------------------
\* The walk over the parts of a value is a function: one part after the other.
LEMMA CppWalkExists ==
  ASSUME NEW r, NEW n \in Nat, NEW a
  PROVE  \E f : f = [i \in 0 .. n |-> IF i = 0 THEN a ELSE ReadNext(r, i, f[i - 1])]
<1> DEFINE Walks == {m \in Nat : \E f : f = [i \in 0 .. m |-> IF i = 0 THEN a ELSE ReadNext(r, i, f[i - 1])]}
<1>1. 0 \in Walks
  <2> DEFINE f == [i \in 0 .. 0 |-> a]
  <2>1. f = [i \in 0 .. 0 |-> IF i = 0 THEN a ELSE ReadNext(r, i, f[i - 1])]
    OBVIOUS
  <2> QED BY <2>1
<1>2. ASSUME NEW m \in Nat, m \in Walks PROVE m + 1 \in Walks
  <2>1. PICK f : f = [i \in 0 .. m |-> IF i = 0 THEN a ELSE ReadNext(r, i, f[i - 1])]
    BY <1>2
  <2> DEFINE g == [i \in 0 .. m + 1 |-> IF i <= m THEN f[i] ELSE ReadNext(r, i, f[m])]
  <2>2. ASSUME NEW i \in 0 .. m + 1
        PROVE  g[i] = IF i = 0 THEN a ELSE ReadNext(r, i, g[i - 1])
    <3>1. CASE i = 0
      BY <2>1, <3>1
    <3>2. CASE i # 0 /\ i <= m
      <4>1. i \in 0 .. m /\ i - 1 \in 0 .. m + 1 /\ i - 1 <= m
        BY <3>2
      <4>2. g[i] = f[i] /\ g[i - 1] = f[i - 1]
        BY <3>2, <4>1
      <4>3. f[i] = ReadNext(r, i, f[i - 1])
        BY <2>1, <3>2, <4>1
      <4> QED BY <3>2, <4>2, <4>3
    <3>3. CASE i = m + 1
      <4>1. m \in 0 .. m + 1 /\ m <= m /\ i - 1 = m /\ ~(i <= m) /\ i # 0
        BY <3>3
      <4>2. g[i] = ReadNext(r, i, f[m]) /\ g[m] = f[m]
        BY <4>1
      <4> QED BY <4>1, <4>2
    <3> QED BY <3>1, <3>2, <3>3
  <2> HIDE DEF g
  <2>3. g = [i \in 0 .. m + 1 |-> IF i = 0 THEN a ELSE ReadNext(r, i, g[i - 1])]
    BY <2>2 DEF g
  <2> QED BY <2>3
<1> HIDE DEF Walks
<1>3. n \in Walks
  BY <1>1, <1>2, FromZeroOn
<1> QED BY <1>3 DEF Walks

\* So is that of the Dart reader.
LEMMA DartWalkExists ==
  ASSUME NEW r, NEW n \in Nat, NEW a
  PROVE  \E f : f = [i \in 0 .. n |-> IF i = 0 THEN a ELSE GetNext(r, i, f[i - 1])]
<1> DEFINE Walks == {m \in Nat : \E f : f = [i \in 0 .. m |-> IF i = 0 THEN a ELSE GetNext(r, i, f[i - 1])]}
<1>1. 0 \in Walks
  <2> DEFINE f == [i \in 0 .. 0 |-> a]
  <2>1. f = [i \in 0 .. 0 |-> IF i = 0 THEN a ELSE GetNext(r, i, f[i - 1])]
    OBVIOUS
  <2> QED BY <2>1
<1>2. ASSUME NEW m \in Nat, m \in Walks PROVE m + 1 \in Walks
  <2>1. PICK f : f = [i \in 0 .. m |-> IF i = 0 THEN a ELSE GetNext(r, i, f[i - 1])]
    BY <1>2
  <2> DEFINE g == [i \in 0 .. m + 1 |-> IF i <= m THEN f[i] ELSE GetNext(r, i, f[m])]
  <2>2. ASSUME NEW i \in 0 .. m + 1
        PROVE  g[i] = IF i = 0 THEN a ELSE GetNext(r, i, g[i - 1])
    <3>1. CASE i = 0
      BY <2>1, <3>1
    <3>2. CASE i # 0 /\ i <= m
      <4>1. i \in 0 .. m /\ i - 1 \in 0 .. m + 1 /\ i - 1 <= m
        BY <3>2
      <4>2. g[i] = f[i] /\ g[i - 1] = f[i - 1]
        BY <3>2, <4>1
      <4>3. f[i] = GetNext(r, i, f[i - 1])
        BY <2>1, <3>2, <4>1
      <4> QED BY <3>2, <4>2, <4>3
    <3>3. CASE i = m + 1
      <4>1. m \in 0 .. m + 1 /\ m <= m /\ i - 1 = m /\ ~(i <= m) /\ i # 0
        BY <3>3
      <4>2. g[i] = GetNext(r, i, f[m]) /\ g[m] = f[m]
        BY <4>1
      <4> QED BY <4>1, <4>2
    <3> QED BY <3>1, <3>2, <3>3
  <2> HIDE DEF g
  <2>3. g = [i \in 0 .. m + 1 |-> IF i = 0 THEN a ELSE GetNext(r, i, g[i - 1])]
    BY <2>2 DEF g
  <2> QED BY <2>3
<1> HIDE DEF Walks
<1>3. n \in Walks
  BY <1>1, <1>2, FromZeroOn
<1> QED BY <1>3 DEF Walks

\* What has been read after each part.
LEMMA CppWalkSteps ==
  ASSUME NEW r, NEW n \in Nat, NEW p
  PROVE  \E f : /\ f[0] = Read(<<>>, p)
                /\ \A i \in 1 .. n : f[i] = ReadNext(r, i, f[i - 1])
                /\ ReadParts(r, n, p) = f[n]
<1> DEFINE a == Read(<<>>, p)
           W == CHOOSE f : f = [i \in 0 .. n |-> IF i = 0 THEN a ELSE ReadNext(r, i, f[i - 1])]
<1>1. ReadParts(r, n, p) = W[n]
  BY DEF ReadParts
<1> HIDE DEF a
<1>2. W = [i \in 0 .. n |-> IF i = 0 THEN a ELSE ReadNext(r, i, W[i - 1])]
  BY CppWalkExists
<1> HIDE DEF W
<1>3. W[0] = a
  BY <1>2
<1>4. \A i \in 1 .. n : W[i] = ReadNext(r, i, W[i - 1])
  BY <1>2
<1> QED BY <1>1, <1>3, <1>4 DEF a

\* The same of the Dart reader.
LEMMA DartWalkSteps ==
  ASSUME NEW r, NEW n \in Nat, NEW p
  PROVE  \E f : /\ f[0] = Got(<<>>, p)
                /\ \A i \in 1 .. n : f[i] = GetNext(r, i, f[i - 1])
                /\ GetItems(r, n, p) = f[n]
<1> DEFINE a == Got(<<>>, p)
           W == CHOOSE f : f = [i \in 0 .. n |-> IF i = 0 THEN a ELSE GetNext(r, i, f[i - 1])]
<1>1. GetItems(r, n, p) = W[n]
  BY DEF GetItems
<1> HIDE DEF a
<1>2. W = [i \in 0 .. n |-> IF i = 0 THEN a ELSE GetNext(r, i, W[i - 1])]
  BY DartWalkExists
<1> HIDE DEF W
<1>3. W[0] = a
  BY <1>2
<1>4. \A i \in 1 .. n : W[i] = GetNext(r, i, W[i - 1])
  BY <1>2
<1> QED BY <1>1, <1>3, <1>4 DEF a

\* The buffer b ends inside the bytes w that were put at p.
Ends(b, p, w) ==
  /\ p - 1 <= Len(b) /\ Len(b) < p - 1 + Len(w)
  /\ \A i \in 1 .. Len(w) : p - 1 + i <= Len(b) => b[p - 1 + i] = w[i]

\* A buffer that ends inside two pieces ends inside one of them.
LEMMA EndsSplit ==
  ASSUME NEW b \in Buffer, NEW p \in Nat, p >= 1, NEW s \in Buffer, NEW t \in Buffer,
         Ends(b, p, s \o t)
  PROVE  Ends(b, p, s) \/ (Stands(b, p, s) /\ Ends(b, p + Len(s), t))
<1> DEFINE w == s \o t
<1>1. /\ Len(w) = Len(s) + Len(t)
      /\ \A i \in 1 .. Len(s) + Len(t) : w[i] = IF i <= Len(s) THEN s[i] ELSE t[i - Len(s)]
  BY ConcatProperties DEF Buffer
<1>2. Len(b) \in Nat /\ Len(s) \in Nat /\ Len(t) \in Nat
  BY DEF Buffer
<1> HIDE DEF w
<1>3. /\ p - 1 <= Len(b) /\ Len(b) < p - 1 + Len(w)
      /\ \A i \in 1 .. Len(w) : p - 1 + i <= Len(b) => b[p - 1 + i] = w[i]
  BY DEF Ends, w
<1>4. \A i \in 1 .. Len(s) : p - 1 + i <= Len(b) => b[p - 1 + i] = s[i]
  <2> TAKE i \in 1 .. Len(s)
  <2>1. i \in 1 .. Len(s) + Len(t) /\ i <= Len(s)
    BY <1>2
  <2> QED BY <1>1, <1>3, <2>1
<1>5. \A i \in 1 .. Len(t) : p + Len(s) - 1 + i <= Len(b) => b[p + Len(s) - 1 + i] = t[i]
  <2> TAKE i \in 1 .. Len(t)
  <2> DEFINE k == Len(s) + i
  <2>1. k \in 1 .. Len(s) + Len(t) /\ ~(k <= Len(s)) /\ k - Len(s) = i
        /\ p - 1 + k = p + Len(s) - 1 + i
    BY <1>2
  <2> HIDE DEF k
  <2> QED BY <1>1, <1>3, <2>1
<1>6. CASE Len(b) < p - 1 + Len(s)
  BY <1>2, <1>3, <1>4, <1>6 DEF Ends
<1>7. CASE ~(Len(b) < p - 1 + Len(s))
  <2>1. p - 1 + Len(s) <= Len(b)
    BY <1>2, <1>7
  <2>2. \A i \in 1 .. Len(s) : b[p - 1 + i] = s[i]
    BY <1>2, <1>4, <2>1
  <2>3. p + Len(s) - 1 <= Len(b) /\ Len(b) < p + Len(s) - 1 + Len(t)
    BY <1>1, <1>2, <1>3, <2>1
  <2> QED BY <1>5, <2>1, <2>2, <2>3 DEF Ends, Stands
<1> QED BY <1>6, <1>7

\* No buffer ends inside nothing.
LEMMA NothingEnds ==
  ASSUME NEW b, NEW p \in Nat, Len(b) \in Nat
  PROVE  /\ ~Ends(b, p, <<>>)
         /\ <<>> \in Buffer /\ Len(<<>>) = 0
<1>1. Len(<<>>) = 0 /\ <<>> \in Buffer
  BY DEF Buffer
<1>2. ~(p - 1 <= Len(b) /\ Len(b) < p - 1 + 0)
  OBVIOUS
<1> QED BY <1>1, <1>2 DEF Ends

\* Joining pieces puts one after the other.
LEMMA FlattenExists ==
  ASSUME NEW n \in Nat, NEW w
  PROVE  \E f : f = [i \in 1 .. n |-> IF i = 1 THEN w[i] ELSE f[i - 1] \o w[i]]
<1> DEFINE Walks == {m \in Nat : \E f : f = [i \in 1 .. m |-> IF i = 1 THEN w[i] ELSE f[i - 1] \o w[i]]}
<1>1. 0 \in Walks
  <2> DEFINE f == [i \in 1 .. 0 |-> w[i]]
  <2>1. f = [i \in 1 .. 0 |-> IF i = 1 THEN w[i] ELSE f[i - 1] \o w[i]]
    OBVIOUS
  <2> QED BY <2>1
<1>2. ASSUME NEW m \in Nat, m \in Walks PROVE m + 1 \in Walks
  <2>1. PICK f : f = [i \in 1 .. m |-> IF i = 1 THEN w[i] ELSE f[i - 1] \o w[i]]
    BY <1>2
  <2> DEFINE g == [i \in 1 .. m + 1 |-> IF i <= m THEN f[i] ELSE IF i = 1 THEN w[i] ELSE f[m] \o w[i]]
  <2>2. ASSUME NEW i \in 1 .. m + 1
        PROVE  g[i] = IF i = 1 THEN w[i] ELSE g[i - 1] \o w[i]
    <3>1. CASE i = 1
      <4>1. i \in 1 .. m + 1
        OBVIOUS
      <4>2. CASE i <= m
        <5>1. i \in 1 .. m
          BY <4>2
        <5>2. f[i] = w[i]
          BY <2>1, <3>1, <5>1
        <5>3. g[i] = f[i]
          BY <4>1, <4>2
        <5> QED BY <3>1, <5>2, <5>3
      <4>3. CASE ~(i <= m)
        BY <3>1, <4>1, <4>3
      <4> QED BY <4>2, <4>3
    <3>2. CASE i # 1 /\ i <= m
      <4>1. i \in 1 .. m /\ i - 1 \in 1 .. m + 1 /\ i - 1 <= m
        BY <3>2
      <4>2. g[i] = f[i] /\ g[i - 1] = f[i - 1]
        BY <3>2, <4>1
      <4>3. f[i] = f[i - 1] \o w[i]
        BY <2>1, <3>2, <4>1
      <4> QED BY <3>2, <4>2, <4>3
    <3>3. CASE i # 1 /\ i = m + 1
      <4>1. m \in 1 .. m + 1 /\ m <= m /\ i - 1 = m /\ ~(i <= m)
        BY <3>3
      <4>2. g[i] = f[m] \o w[i] /\ g[m] = f[m]
        BY <3>3, <4>1
      <4> QED BY <3>3, <4>1, <4>2
    <3> QED BY <3>1, <3>2, <3>3
  <2> HIDE DEF g
  <2>3. g = [i \in 1 .. m + 1 |-> IF i = 1 THEN w[i] ELSE g[i - 1] \o w[i]]
    BY <2>2 DEF g
  <2>4. \E h : h = [i \in 1 .. m + 1 |-> IF i = 1 THEN w[i] ELSE h[i - 1] \o w[i]]
    BY <2>3, Zenon
  <2>5. m + 1 \in Nat
    OBVIOUS
  <2> QED BY <2>4, <2>5, Zenon
<1> HIDE DEF Walks
<1>3. n \in Walks
  BY <1>1, <1>2, FromZeroOn
<1> QED BY <1>3 DEF Walks

\* The bytes of the first i pieces, f[i], grow piece by piece.
LEMMA FlattenSteps ==
  ASSUME NEW n \in Nat, NEW w \in [1 .. n -> Buffer]
  PROVE  \E f : /\ f[0] = <<>>
                /\ \A i \in 0 .. n : f[i] \in Buffer
                /\ \A i \in 1 .. n : f[i] = f[i - 1] \o w[i] /\ Len(f[i]) = Len(f[i - 1]) + Len(w[i])
                /\ FlattenSeq(w) = f[n]
<1> DEFINE W == CHOOSE f : f = [i \in 1 .. n |-> IF i = 1 THEN w[i] ELSE f[i - 1] \o w[i]]
           F == [i \in 0 .. n |-> IF i = 0 THEN <<>> ELSE W[i]]
<1>1. Len(w) = n
  OBVIOUS
<1>2. n # 0 => FlattenSeq(w) = W[n]
  BY <1>1, Zenon DEF FlattenSeq
<1>3. n = 0 => FlattenSeq(w) = <<>>
  <2> SUFFICES ASSUME n = 0 PROVE FlattenSeq(w) = w /\ w = <<>>
    OBVIOUS
  <2>1. w = <<>>
    OBVIOUS
  <2> QED BY <1>1, <2>1 DEF FlattenSeq
<1>4. W = [i \in 1 .. n |-> IF i = 1 THEN w[i] ELSE W[i - 1] \o w[i]]
  BY FlattenExists, Zenon
<1> HIDE DEF W
<1>5. F[0] = <<>> /\ <<>> \in Buffer
  BY DEF Buffer
<1>6. \A i \in 1 .. n : i - 1 \in 0 .. n /\ w[i] \in Buffer
  OBVIOUS
<1>7. ASSUME NEW i \in 1 .. n, F[i - 1] \in Buffer PROVE F[i] = F[i - 1] \o w[i]
  <2>1. F[i] = W[i] /\ F[i - 1] = (IF i = 1 THEN <<>> ELSE W[i - 1])
    OBVIOUS
  <2>2. CASE i = 1
    <3>1. W[i] = w[i]
      BY <1>4, <2>2
    <3>2. <<>> \o w[i] = w[i]
      BY <1>6 DEF Buffer
    <3> QED BY <2>1, <2>2, <3>1, <3>2, Zenon
  <2>3. CASE i # 1
    <3>1. W[i] = W[i - 1] \o w[i]
      BY <1>4, <2>3
    <3> QED BY <2>1, <2>3, <3>1
  <2> QED BY <2>2, <2>3
<1>12. F[n] = FlattenSeq(w) /\ F[n] = FlattenSeq(w)
  BY <1>2, <1>3
<1> HIDE DEF F
<1> DEFINE S == {k \in Nat : k <= n => F[k] \in Buffer}
<1>8. 0 \in S
  BY <1>5
<1>9. ASSUME NEW k \in Nat, k \in S PROVE k + 1 \in S
  <2> SUFFICES ASSUME k + 1 <= n PROVE F[k + 1] \in Buffer
    OBVIOUS
  <2>1. k <= n /\ k + 1 \in 1 .. n /\ (k + 1) - 1 = k
    OBVIOUS
  <2>2. F[k] \in Buffer
    BY <1>9, <2>1
  <2> DEFINE i == k + 1
  <2>3. i \in 1 .. n /\ F[i - 1] \in Buffer
    BY <2>1, <2>2
  <2> HIDE DEF i
  <2>4. F[i] = F[i - 1] \o w[i]
    BY <1>7, <2>3
  <2>5. F[i] \in Buffer
    BY <1>6, <2>3, <2>4, StandsConcat
  <2> QED BY <2>5 DEF i
<1> HIDE DEF S
<1>10. \A k \in Nat : k \in S
  BY <1>8, <1>9, FromZeroOn
<1>11. \A i \in 0 .. n : F[i] \in Buffer
  <2> TAKE i \in 0 .. n
  <2>1. i \in Nat /\ i <= n
    OBVIOUS
  <2> QED BY <1>10, <2>1 DEF S
<1>13. \A i \in 1 .. n : F[i] = F[i - 1] \o w[i] /\ Len(F[i]) = Len(F[i - 1]) + Len(w[i])
  <2> TAKE i \in 1 .. n
  <2>1. F[i - 1] \in Buffer /\ w[i] \in Buffer
    BY <1>6, <1>11
  <2>2. F[i] = F[i - 1] \o w[i]
    BY <1>7, <2>1
  <2> QED BY <2>1, <2>2, StandsConcat
<1> QED BY <1>5, <1>11, <1>12, <1>13

\* What a reader gives, y, where the bytes w of x were put at p: x where they
\* stand whole, and no value where the buffer ends inside them.
CppReads(y, b, p, w, x) ==
  /\ Stands(b, p, w) => y = Read(x, p + Len(w))
  /\ Ends(b, p, w) => ~y.ok
DartReads(y, b, p, w, x) ==
  /\ Stands(b, p, w) => y = Got(x, p - 1 + Len(w))
  /\ Ends(b, p, w) => ~y.ok

\* The first k parts, grown by one.
LEMMA OneMore ==
  ASSUME NEW x, NEW m \in Nat
  PROVE  Append([i \in 1 .. m |-> x[i]], x[m + 1]) = [i \in 1 .. m + 1 |-> x[i]]
<1> DEFINE V == {x[i] : i \in 1 .. m + 1}
           s == [i \in 1 .. m |-> x[i]]
           t == [i \in 1 .. m + 1 |-> x[i]]
           e == x[m + 1]
<1>1. e \in V /\ \A i \in 1 .. m : x[i] \in V /\ i \in 1 .. m + 1
  OBVIOUS
<1>2. s \in Seq(V) /\ Len(s) = m /\ t \in Seq(V) /\ Len(t) = m + 1
  BY <1>1
<1>3. \A i \in 1 .. m + 1 : t[i] = IF i <= m THEN s[i] ELSE e
  OBVIOUS
<1> HIDE DEF V, s, t, e
<1>4. /\ Append(s, e) \in Seq(V) /\ Len(Append(s, e)) = Len(s) + 1
      /\ \A i \in 1 .. Len(s) : Append(s, e)[i] = s[i]
      /\ Append(s, e)[Len(s) + 1] = e
  BY <1>1, <1>2, AppendProperties
<1>5. \A i \in 1 .. Len(t) : Append(s, e)[i] = t[i]
  <2> TAKE i \in 1 .. Len(t)
  <2>1. i \in 1 .. m + 1 /\ (i <= m => i \in 1 .. m) /\ (~(i <= m) => i = m + 1)
    BY <1>2
  <2>2. CASE i <= m
    BY <1>2, <1>3, <1>4, <2>1, <2>2
  <2>3. CASE ~(i <= m)
    BY <1>2, <1>3, <1>4, <2>1, <2>3
  <2> QED BY <2>2, <2>3
<1>6. Append(s, e) = t
  BY <1>2, <1>4, <1>5, SeqEqual
<1> QED BY <1>6 DEF s, t, e

\* The parts of a value are read one after the other, each where it stands; a
\* buffer that ends inside one of them is refused.
LEMMA CppWalkCrosses ==
  ASSUME NEW b \in Buffer, NEW p \in Nat, p >= 1, NEW n \in Nat, NEW x,
         NEW w \in [1 .. n -> Buffer], NEW r,
         \A i \in 1 .. n, q \in Nat : q >= 1 => CppReads(r[i][q], b, q, w[i], x[i])
  PROVE  CppReads(ReadParts(r, n, p), b, p, FlattenSeq(w), [i \in 1 .. n |-> x[i]])
<1>1. PICK f : /\ f[0] = <<>>
               /\ \A i \in 0 .. n : f[i] \in Buffer
               /\ \A i \in 1 .. n : f[i] = f[i - 1] \o w[i] /\ Len(f[i]) = Len(f[i - 1]) + Len(w[i])
               /\ FlattenSeq(w) = f[n]
  BY FlattenSteps
<1>2. PICK g : /\ g[0] = Read(<<>>, p)
               /\ \A i \in 1 .. n : g[i] = ReadNext(r, i, g[i - 1])
               /\ ReadParts(r, n, p) = g[n]
  BY CppWalkSteps
<1> DEFINE X(k) == [i \in 1 .. k |-> x[i]]
           S == {k \in Nat : k <= n => CppReads(g[k], b, p, f[k], X(k))}
<1>3. 0 \in S
  <2>1. X(0) = <<>>
    OBVIOUS
  <2>2. Len(f[0]) = 0 /\ ~Ends(b, p, f[0])
    BY <1>1, NothingEnds DEF Buffer
  <2>3. p + 0 = p
    OBVIOUS
  <2> HIDE DEF X
  <2>4. CppReads(g[0], b, p, f[0], X(0))
    BY <1>2, <2>1, <2>2, <2>3 DEF CppReads
  <2> QED BY <2>4
<1>4. ASSUME NEW m \in Nat, m \in S PROVE m + 1 \in S
  <2> SUFFICES ASSUME m + 1 <= n PROVE CppReads(g[m + 1], b, p, f[m + 1], X(m + 1))
    OBVIOUS
  <2> DEFINE i == m + 1
             q == p + Len(f[m])
  <2>1. i \in 1 .. n /\ i - 1 = m /\ m <= n /\ m \in 0 .. n
    OBVIOUS
  <2>2. f[m] \in Buffer /\ w[i] \in Buffer /\ Len(f[m]) \in Nat /\ Len(w[i]) \in Nat
    <3>1. f[m] \in Buffer
      BY <1>1, <2>1
    <3>2. w[i] \in Buffer
      BY <2>1
    <3> QED BY <3>1, <3>2 DEF Buffer
  <2>3. f[i] = f[m] \o w[i] /\ Len(f[i]) = Len(f[m]) + Len(w[i])
    BY <1>1, <2>1
  <2>4. g[i] = ReadNext(r, i, g[m])
    BY <1>2, <2>1
  <2>5. q \in Nat /\ q >= 1
    BY <2>2
  <2>6. CppReads(r[i][q], b, q, w[i], x[i])
    BY <2>1, <2>5
  <2>7. CppReads(g[m], b, p, f[m], X(m))
    BY <1>4, <2>1
  <2>8. Append(X(m), x[i]) = X(i)
    BY <2>1, OneMore
  <2> HIDE DEF i, X
  <2>9. ASSUME Stands(b, p, f[i]) PROVE g[i] = Read(X(i), p + Len(f[i]))
    <3>1. Stands(b, p, f[m]) /\ Stands(b, q, w[i])
      <4>1. Stands(b, p, f[m] \o w[i])
        BY <2>3, <2>9
      <4> HIDE DEF q
      <4>2. Stands(b, p, f[m]) /\ Stands(b, p + Len(f[m]), w[i])
        BY <2>2, <4>1, StandsSplit
      <4> QED BY <4>2 DEF q
    <3>2. g[m] = Read(X(m), p + Len(f[m]))
      BY <2>7, <3>1 DEF CppReads
    <3>3. r[i][q] = Read(x[i], q + Len(w[i]))
      BY <2>6, <3>1 DEF CppReads
    <3>4. p + Len(f[m]) = q /\ q + Len(w[i]) = p + Len(f[i])
      <4> DEFINE lf == Len(f[m])
                 lw == Len(w[i])
      <4>1. lf \in Nat /\ lw \in Nat /\ Len(f[i]) = lf + lw
        BY <2>2, <2>3
      <4> HIDE DEF lf, lw
      <4>2. p + lf = p + lf /\ p + lf + lw = p + (lf + lw)
        BY <4>1
      <4> QED BY <4>1, <4>2 DEF lf, lw
    <3> HIDE DEF q
    <3>5. g[m].ok /\ g[m].v = X(m) /\ g[m].next = q
      BY <3>2, <3>4 DEF Read
    <3>6. /\ r[i][q].ok /\ r[i][q].v = x[i]
          /\ r[i][q].next = p + Len(f[i])
      BY <3>3, <3>4 DEF Read
    <3>7. ReadNext(r, i, g[m]) = Read(Append(X(m), x[i]), p + Len(f[i]))
      BY <3>5, <3>6 DEF ReadNext, Then
    <3> QED BY <2>4, <2>8, <3>7
  <2>10. ASSUME Ends(b, p, f[i]) PROVE ~g[i].ok
    <3>1. CASE Ends(b, p, f[m])
      <4>1. ~g[m].ok
        BY <2>7, <3>1 DEF CppReads
      <4> QED BY <2>4, <4>1, Zenon DEF ReadNext
    <3>2. CASE Stands(b, p, f[m]) /\ Ends(b, q, w[i])
      <4>1. g[m] = Read(X(m), p + Len(f[m]))
        BY <2>7, <3>2 DEF CppReads
      <4>2. ~r[i][q].ok
        BY <2>6, <3>2 DEF CppReads
      <4>3. p + Len(f[m]) = q
        BY <2>2
      <4> HIDE DEF q
      <4>4. g[m].ok /\ g[m].next = q
        BY <4>1, <4>3 DEF Read
      <4>5. ReadNext(r, i, g[m]) = r[i][q]
        BY <4>2, <4>4 DEF ReadNext, Then
      <4> QED BY <2>4, <4>2, <4>5
    <3> QED BY <2>2, <2>3, <2>10, <3>1, <3>2, EndsSplit
  <2>11. CppReads(g[i], b, p, f[i], X(i))
    BY <2>9, <2>10 DEF CppReads
  <2> QED BY <2>11 DEF i
<1> HIDE DEF S
<1>5. n \in S
  BY <1>3, <1>4, FromZeroOn
<1>6. CppReads(g[n], b, p, f[n], X(n))
  BY <1>5 DEF S
<1> QED BY <1>1, <1>2, <1>6

\* The same of the Dart reader, whose positions count from 0.
LEMMA DartWalkCrosses ==
  ASSUME NEW b \in Buffer, NEW p \in Nat, p >= 1, NEW n \in Nat, NEW x,
         NEW w \in [1 .. n -> Buffer], NEW r,
         \A i \in 1 .. n, q \in Nat : q >= 1 => DartReads(r[i][q - 1], b, q, w[i], x[i])
  PROVE  DartReads(GetItems(r, n, p - 1), b, p, FlattenSeq(w), [i \in 1 .. n |-> x[i]])
<1>1. PICK f : /\ f[0] = <<>>
               /\ \A i \in 0 .. n : f[i] \in Buffer
               /\ \A i \in 1 .. n : f[i] = f[i - 1] \o w[i] /\ Len(f[i]) = Len(f[i - 1]) + Len(w[i])
               /\ FlattenSeq(w) = f[n]
  BY FlattenSteps
<1>2. PICK g : /\ g[0] = Got(<<>>, p - 1)
               /\ \A i \in 1 .. n : g[i] = GetNext(r, i, g[i - 1])
               /\ GetItems(r, n, p - 1) = g[n]
  BY DartWalkSteps
<1> DEFINE X(k) == [i \in 1 .. k |-> x[i]]
           S == {k \in Nat : k <= n => DartReads(g[k], b, p, f[k], X(k))}
<1>3. 0 \in S
  <2>1. X(0) = <<>>
    OBVIOUS
  <2>2. Len(f[0]) = 0 /\ ~Ends(b, p, f[0])
    BY <1>1, NothingEnds DEF Buffer
  <2>3. p - 1 + 0 = p - 1
    OBVIOUS
  <2> HIDE DEF X
  <2>4. DartReads(g[0], b, p, f[0], X(0))
    BY <1>2, <2>1, <2>2, <2>3 DEF DartReads
  <2> QED BY <2>4
<1>4. ASSUME NEW m \in Nat, m \in S PROVE m + 1 \in S
  <2> SUFFICES ASSUME m + 1 <= n PROVE DartReads(g[m + 1], b, p, f[m + 1], X(m + 1))
    OBVIOUS
  <2> DEFINE i == m + 1
             q == p + Len(f[m])
  <2>1. i \in 1 .. n /\ i - 1 = m /\ m <= n /\ m \in 0 .. n
    OBVIOUS
  <2>2. f[m] \in Buffer /\ w[i] \in Buffer /\ Len(f[m]) \in Nat /\ Len(w[i]) \in Nat
    <3>1. f[m] \in Buffer
      BY <1>1, <2>1
    <3>2. w[i] \in Buffer
      BY <2>1
    <3> QED BY <3>1, <3>2 DEF Buffer
  <2>3. f[i] = f[m] \o w[i] /\ Len(f[i]) = Len(f[m]) + Len(w[i])
    BY <1>1, <2>1
  <2>4. g[i] = GetNext(r, i, g[m])
    BY <1>2, <2>1
  <2>5. q \in Nat /\ q >= 1
    BY <2>2
  <2>6. DartReads(r[i][q - 1], b, q, w[i], x[i])
    BY <2>1, <2>5
  <2>7. DartReads(g[m], b, p, f[m], X(m))
    BY <1>4, <2>1
  <2>8. Append(X(m), x[i]) = X(i)
    BY <2>1, OneMore
  <2> HIDE DEF i, X
  <2>9. ASSUME Stands(b, p, f[i]) PROVE g[i] = Got(X(i), p - 1 + Len(f[i]))
    <3>1. Stands(b, p, f[m]) /\ Stands(b, q, w[i])
      <4>1. Stands(b, p, f[m] \o w[i])
        BY <2>3, <2>9
      <4> HIDE DEF q
      <4>2. Stands(b, p, f[m]) /\ Stands(b, p + Len(f[m]), w[i])
        BY <2>2, <4>1, StandsSplit
      <4> QED BY <4>2 DEF q
    <3>2. g[m] = Got(X(m), p - 1 + Len(f[m]))
      BY <2>7, <3>1 DEF DartReads
    <3>3. r[i][q - 1] = Got(x[i], q - 1 + Len(w[i]))
      BY <2>6, <3>1 DEF DartReads
    <3>4. p - 1 + Len(f[m]) = q - 1 /\ q - 1 + Len(w[i]) = p - 1 + Len(f[i])
      <4> DEFINE lf == Len(f[m])
                 lw == Len(w[i])
      <4>1. lf \in Nat /\ lw \in Nat /\ Len(f[i]) = lf + lw
        BY <2>2, <2>3
      <4> HIDE DEF lf, lw
      <4>2. p - 1 + lf = (p + lf) - 1 /\ (p + lf) - 1 + lw = p - 1 + (lf + lw)
        BY <4>1
      <4> QED BY <4>1, <4>2 DEF lf, lw
    <3> HIDE DEF q
    <3>5. g[m].ok /\ g[m].v = X(m) /\ g[m].pos = q - 1
      BY <3>2, <3>4 DEF Got
    <3>6. /\ r[i][q - 1].ok /\ r[i][q - 1].v = x[i]
          /\ r[i][q - 1].pos = p - 1 + Len(f[i])
      BY <3>3, <3>4 DEF Got
    <3>7. GetNext(r, i, g[m]) = Got(Append(X(m), x[i]), p - 1 + Len(f[i]))
      BY <3>5, <3>6 DEF GetNext, Mapped
    <3> QED BY <2>4, <2>8, <3>7
  <2>10. ASSUME Ends(b, p, f[i]) PROVE ~g[i].ok
    <3>1. CASE Ends(b, p, f[m])
      <4>1. ~g[m].ok
        BY <2>7, <3>1 DEF DartReads
      <4> QED BY <2>4, <4>1, Zenon DEF GetNext
    <3>2. CASE Stands(b, p, f[m]) /\ Ends(b, q, w[i])
      <4>1. g[m] = Got(X(m), p - 1 + Len(f[m]))
        BY <2>7, <3>2 DEF DartReads
      <4>2. ~r[i][q - 1].ok
        BY <2>6, <3>2 DEF DartReads
      <4>3. p - 1 + Len(f[m]) = q - 1
        BY <2>2
      <4> HIDE DEF q
      <4>4. g[m].ok /\ g[m].pos = q - 1
        BY <4>1, <4>3 DEF Got
      <4>5. GetNext(r, i, g[m]) = r[i][q - 1]
        BY <4>2, <4>4 DEF GetNext, Mapped
      <4> QED BY <2>4, <4>2, <4>5
    <3> QED BY <2>2, <2>3, <2>10, <3>1, <3>2, EndsSplit
  <2>11. DartReads(g[i], b, p, f[i], X(i))
    BY <2>9, <2>10 DEF DartReads
  <2> QED BY <2>11 DEF i
<1> HIDE DEF S
<1>5. n \in S
  BY <1>3, <1>4, FromZeroOn
<1>6. DartReads(g[n], b, p, f[n], X(n))
  BY <1>5 DEF S
<1> QED BY <1>1, <1>2, <1>6

\* A number crosses, in four bytes and in eight, and is refused where it is cut.
LEMMA NumberCrosses ==
  ASSUME NEW b \in Buffer, NEW p \in Nat, p >= 1, NEW v \in Integer
  PROVE  /\ CppReads(ReadI32(b, p), b, p, LE4(v), v)
         /\ DartReads(GetI32(b, p - 1), b, p, LE4(v), v)
         /\ CppReads(ReadI64(b, p), b, p, LE8(v), v)
         /\ DartReads(GetI64(b, p - 1), b, p, LE8(v), v)
         /\ v >= 0 => /\ CppReads(ReadU32(b, p), b, p, LE4(v), v)
                      /\ DartReads(GetU32(b, p - 1), b, p, LE4(v), v)
                      /\ CppReads(ReadU64(b, p), b, p, LE8(v), v)
                      /\ DartReads(GetU64(b, p - 1), b, p, LE8(v), v)
<1> DEFINE w4 == LE4(v)
           w8 == LE8(v)
<1>1. Len(w4) = 4 /\ Len(w8) = 8
  BY Encodings, Numbers
<1>2. Len(b) \in Nat
  BY DEF Buffer
<1>3. p - 1 + 4 = p + 3 /\ p - 1 + 8 = p + 7
  OBVIOUS
<1>4. ~Truncated.ok /\ ~Failed.ok
  BY DEF Truncated, Failed
<1>5. /\ Stands(b, p, w4) =>
           /\ ReadI32(b, p) = Read(v, p + 4)
           /\ GetI32(b, p - 1) = Got(v, p + 3)
           /\ v >= 0 => /\ ReadU32(b, p) = Read(v, p + 4)
                        /\ GetU32(b, p - 1) = Got(v, p + 3)
      /\ Stands(b, p, w8) =>
           /\ ReadI64(b, p) = Read(v, p + 8)
           /\ GetI64(b, p - 1) = Got(v, p + 7)
           /\ v >= 0 => /\ ReadU64(b, p) = Read(v, p + 8)
                        /\ GetU64(b, p - 1) = Got(v, p + 7)
  BY ReadStanding
<1> HIDE DEF w4, w8
<1>6. ASSUME Ends(b, p, w4)
      PROVE  /\ ~ReadI32(b, p).ok /\ ~ReadU32(b, p).ok
             /\ ~GetI32(b, p - 1).ok /\ ~GetU32(b, p - 1).ok
  <2>1. ~(p + 3 <= Len(b))
    BY <1>1, <1>2, <1>3, <1>6 DEF Ends
  <2>2. /\ ReadU32(b, p) = Truncated /\ ReadI32(b, p) = Truncated
        /\ GetU32(b, p - 1) = Failed /\ GetI32(b, p - 1) = Failed
    BY <2>1, ReadFour
  <2> QED BY <1>4, <2>2
<1>7. ASSUME Ends(b, p, w8)
      PROVE  /\ ~ReadI64(b, p).ok /\ ~ReadU64(b, p).ok
             /\ ~GetI64(b, p - 1).ok /\ ~GetU64(b, p - 1).ok
  <2>1. ~(p + 7 <= Len(b))
    BY <1>1, <1>2, <1>3, <1>7 DEF Ends
  <2>2. /\ ReadU64(b, p) = Truncated /\ ReadI64(b, p) = Truncated
        /\ GetU64(b, p - 1) = Failed /\ GetI64(b, p - 1) = Failed
    BY <2>1, ReadEight
  <2> QED BY <1>4, <2>2
<1>8. /\ CppReads(ReadI32(b, p), b, p, w4, v)
      /\ DartReads(GetI32(b, p - 1), b, p, w4, v)
      /\ v >= 0 => /\ CppReads(ReadU32(b, p), b, p, w4, v)
                   /\ DartReads(GetU32(b, p - 1), b, p, w4, v)
  BY <1>1, <1>3, <1>5, <1>6 DEF CppReads, DartReads
<1>9. /\ CppReads(ReadI64(b, p), b, p, w8, v)
      /\ DartReads(GetI64(b, p - 1), b, p, w8, v)
      /\ v >= 0 => /\ CppReads(ReadU64(b, p), b, p, w8, v)
                   /\ DartReads(GetU64(b, p - 1), b, p, w8, v)
  BY <1>1, <1>3, <1>5, <1>7 DEF CppReads, DartReads
<1> QED BY <1>8, <1>9 DEF w4, w8

\* A byte crosses.
LEMMA ByteCrosses ==
  ASSUME NEW b \in Buffer, NEW p \in Nat, p >= 1, NEW v \in Octet
  PROVE  /\ CppReads(ReadU8(b, p), b, p, <<v>>, v)
         /\ DartReads(GetU8(b, p - 1), b, p, <<v>>, v)
<1>1. Len(b) \in Nat /\ Len(<<v>>) = 1 /\ p - 1 + 1 = p
  BY DEF Buffer
<1>2. Has(b, p, 1) <=> p <= Len(b)
  BY <1>1 DEF Has
<1>3. Enough(b, p - 1, 1) <=> p <= Len(b)
  BY <1>1 DEF Enough
<1>4. p <= Len(b) => Bytes(b, p - 1, 1) = SubSeq(b, p, p)
  BY <1>1 DEF Bytes
<1>5. ASSUME Stands(b, p, <<v>>)
      PROVE  /\ ReadU8(b, p) = Read(v, p + 1)
             /\ GetU8(b, p - 1) = Got(v, p)
  <2>1. p <= Len(b) /\ b[p] = v
    BY <1>5, BytesStand
  <2>2. SubSeq(b, p, p) = <<v>>
    <3> DEFINE w == <<v>>
    <3>1. w \in Buffer /\ Len(w) = 1
      BY Encodings
    <3> HIDE DEF w
    <3>2. p = p + Len(w) - 1 /\ p \in Int
      BY <3>1
    <3>3. Stands(b, p, w)
      BY <1>5 DEF w
    <3>4. SubSeq(b, p, p) = w
      BY <3>1, <3>2, <3>3, TakeUpTo
    <3> QED BY <3>4 DEF w
  <2>3. ReadU8(b, p) = Read(v, p + 1)
    BY <1>2, <2>1 DEF ReadU8
  <2>4. GetU8(b, p - 1) = Got(First(<<v>>), p - 1 + 1)
    BY <1>3, <1>4, <2>1, <2>2 DEF GetU8, Fixed
  <2>5. First(<<v>>) = v
    BY DEF First
  <2> QED BY <1>1, <2>3, <2>4, <2>5
<1>6. ASSUME Ends(b, p, <<v>>)
      PROVE  ~ReadU8(b, p).ok /\ ~GetU8(b, p - 1).ok
  <2>1. ~(p <= Len(b))
    BY <1>1, <1>6 DEF Ends
  <2>2. ReadU8(b, p) = Truncated
    BY <1>2, <2>1 DEF ReadU8
  <2>3. GetU8(b, p - 1) = Failed
    BY <1>3, <2>1 DEF GetU8, Fixed
  <2> QED BY <2>2, <2>3 DEF Truncated, Failed
<1> QED BY <1>1, <1>5, <1>6 DEF CppReads, DartReads

\* The eight bytes of a double cross.
LEMMA DoubleCrosses ==
  ASSUME NEW b \in Buffer, NEW p \in Nat, p >= 1, NEW v \in Buffer, Len(v) = 8
  PROVE  /\ CppReads(ReadF64(b, p), b, p, v, v)
         /\ DartReads(GetF64(b, p - 1), b, p, v, v)
<1>1. Len(b) \in Nat /\ p - 1 + 8 = p + 7 /\ p - 1 + 1 = p /\ p + 8 - 1 = p + 7
  BY DEF Buffer
<1>2. Has(b, p, 8) <=> p + 7 <= Len(b)
  BY <1>1 DEF Has
<1>3. Take(b, p, 8) = SubSeq(b, p, p + 7)
  BY <1>1 DEF Take
<1>4. Enough(b, p - 1, 8) <=> p + 7 <= Len(b)
  BY <1>1 DEF Enough
<1>5. Bytes(b, p - 1, 8) = SubSeq(b, p, p + 7)
  BY <1>1 DEF Bytes
<1>6. ASSUME Stands(b, p, v)
      PROVE  /\ ReadF64(b, p) = Read(v, p + 8)
             /\ GetF64(b, p - 1) = Got(v, p + 7)
  <2>1. p + 7 <= Len(b)
    BY <1>1, <1>6 DEF Stands
  <2>2. SubSeq(b, p, p + 7) = v
    <3> DEFINE q == p + 7
    <3>1. q = p + Len(v) - 1 /\ q \in Int
      OBVIOUS
    <3> HIDE DEF q
    <3>2. SubSeq(b, p, q) = v
      BY <1>6, <3>1, TakeUpTo
    <3> QED BY <3>2 DEF q
  <2>3. ReadF64(b, p) = Read(v, p + 8)
    BY <1>2, <1>3, <2>1, <2>2 DEF ReadF64
  <2>4. GetF64(b, p - 1) = Got(Raw(v), p + 7)
    BY <1>1, <1>4, <1>5, <2>1, <2>2 DEF GetF64, Fixed
  <2> QED BY <2>3, <2>4 DEF Raw
<1>7. ASSUME Ends(b, p, v)
      PROVE  ~ReadF64(b, p).ok /\ ~GetF64(b, p - 1).ok
  <2>1. ~(p + 7 <= Len(b))
    BY <1>1, <1>7 DEF Ends
  <2>2. ReadF64(b, p) = Truncated
    BY <1>2, <2>1 DEF ReadF64
  <2>3. GetF64(b, p - 1) = Failed
    BY <1>4, <2>1 DEF GetF64, Fixed
  <2> QED BY <2>2, <2>3 DEF Truncated, Failed
<1> QED BY <1>1, <1>6, <1>7 DEF CppReads, DartReads

\* A string or a blob crosses.
LEMMA TextCrosses ==
  ASSUME NEW b \in Buffer, NEW p \in Nat, p >= 1, NEW s \in Buffer, Len(s) \in Count
  PROVE  /\ CppReads(ReadStr(b, p), b, p, LE4(Len(s)) \o s, s)
         /\ CppReads(ReadBlob(b, p), b, p, LE4(Len(s)) \o s, s)
         /\ DartReads(GetStr(b, p - 1), b, p, LE4(Len(s)) \o s, s)
<1> DEFINE h == LE4(Len(s))
           w == h \o s
<1>1. Len(b) \in Nat /\ Len(s) \in Nat
  BY DEF Buffer
<1>2. h \in Buffer /\ Len(h) = 4
  BY Encodings, Numbers
<1>3. w \in Buffer /\ Len(w) = 4 + Len(s)
  BY TextBytes
<1>4. ASSUME Stands(b, p, w)
      PROVE  /\ ReadStr(b, p) = Read(s, p + 4 + Len(s))
             /\ ReadBlob(b, p) = Read(s, p + 4 + Len(s))
             /\ GetStr(b, p - 1) = Got(s, p + 3 + Len(s))
  <2>1. Stands(b, p, h) /\ Stands(b, p + 4, s)
    <3> HIDE DEF h
    <3> QED BY <1>2, <1>4, StandsSplit
  <2> QED BY <2>1, ReadText
<1>5. ASSUME Ends(b, p, w)
      PROVE  /\ ~ReadStr(b, p).ok /\ ~ReadBlob(b, p).ok
             /\ ~GetStr(b, p - 1).ok
  <2>1. Ends(b, p, h) \/ (Stands(b, p, h) /\ Ends(b, p + 4, s))
    <3> HIDE DEF h
    <3> QED BY <1>2, <1>5, EndsSplit
  <2>2. Ends(b, p, h) => Len(b) < p + 3
    <3> HIDE DEF h
    <3> QED BY <1>1, <1>2 DEF Ends
  <2>3. Ends(b, p + 4, s) => Len(b) < p + 3 + Len(s)
    <3>1. p + 4 - 1 + Len(s) = p + 3 + Len(s)
      BY <1>1
    <3> QED BY <3>1 DEF Ends
  <2> QED BY <2>1, <2>2, <2>3, RefuseText
<1>6. p + Len(w) = p + 4 + Len(s) /\ p - 1 + Len(w) = p + 3 + Len(s)
  <2> HIDE DEF w
  <2> QED BY <1>1, <1>3
<1> HIDE DEF w
<1>7. /\ CppReads(ReadStr(b, p), b, p, w, s)
      /\ CppReads(ReadBlob(b, p), b, p, w, s)
      /\ DartReads(GetStr(b, p - 1), b, p, w, s)
  BY <1>4, <1>5, <1>6 DEF CppReads, DartReads
<1> QED BY <1>7 DEF w, h

\* What Dart sends only, and never receives.
SentKinds == {"fn", "progress", "arr", "set", "map"}

\* Both sides number the enumerators alike.
LEMMA EnumNumbers ==
  ASSUME NEW t, NEW v,
         \/ t.kind = "OrderStatus" /\ v \in {"created", "paid", "shipped"}
         \/ t.kind = "StatusCode" /\ v \in {"ok", "notFound", "serverError"}
  PROVE  /\ EnumValues(t) = EnumNames(t)
         /\ ValueOf(t, v) \in Count
         /\ ValueOf(t, v) + 1 \in DOMAIN EnumNames(t)
         /\ EnumNames(t)[ValueOf(t, v) + 1] = v
         /\ Index(t, v) = ValueOf(t, v)
<1> DEFINE e == EnumNames(t)
           i == CHOOSE k \in DOMAIN e : e[k] = v
<1>1. EnumValues(t) = e
  BY DEF EnumValues, EnumNames, OrderStatusNames, StatusCodeNames
<1>2. DOMAIN e = 1 .. 3 /\ \E k \in DOMAIN e : e[k] = v
  <2>1. CASE t.kind = "OrderStatus"
    <3>1. e = <<"created", "paid", "shipped">>
      BY <2>1 DEF EnumNames, OrderStatusNames
    <3>2. DOMAIN e = 1 .. 3 /\ e[1] = "created" /\ e[2] = "paid" /\ e[3] = "shipped"
      BY <3>1
    <3> HIDE DEF e
    <3>3. v = "created" \/ v = "paid" \/ v = "shipped"
      BY <2>1
    <3>4. 1 \in 1 .. 3 /\ 2 \in 1 .. 3 /\ 3 \in 1 .. 3
      OBVIOUS
    <3> QED BY <3>2, <3>3, <3>4
  <2>2. CASE t.kind # "OrderStatus"
    <3>1. e = <<"ok", "notFound", "serverError">>
      BY <2>2 DEF EnumNames, StatusCodeNames
    <3>2. DOMAIN e = 1 .. 3 /\ e[1] = "ok" /\ e[2] = "notFound" /\ e[3] = "serverError"
      BY <3>1
    <3> HIDE DEF e
    <3>3. v = "ok" \/ v = "notFound" \/ v = "serverError"
      BY <2>2
    <3>4. 1 \in 1 .. 3 /\ 2 \in 1 .. 3 /\ 3 \in 1 .. 3
      OBVIOUS
    <3> QED BY <3>2, <3>3, <3>4
  <2> QED BY <2>1, <2>2
<1>3. ValueOf(t, v) = i - 1
  BY DEF ValueOf
<1>4. Index(t, v) = i - 1
  BY <1>1 DEF Index
<1> HIDE DEF e
<1>5. i \in DOMAIN e /\ e[i] = v
  BY <1>2
<1> HIDE DEF i
<1>6. i \in 1 .. 3
  BY <1>2, <1>5
<1>7. i - 1 \in {0, 1, 2} /\ (i - 1) + 1 = i
  BY <1>6
<1>8. {0, 1, 2} \subseteq Count
  BY Ranges, SMT
<1>9. i - 1 \in Count
  BY <1>7, <1>8
<1> QED BY <1>1, <1>3, <1>4, <1>5, <1>7, <1>9 DEF e

\* A value without parts is written by both sides in the same bytes, and where
\* these stand both read it back.
LEMMA ScalarWritten ==
  ASSUME NEW t, NEW v, ScalarValue(t, v)
  PROVE  /\ WriteScalar(t, v) \in Buffer /\ Len(WriteScalar(t, v)) >= 1
         /\ PutScalar(t, v) = WriteScalar(t, v)
<1> DEFINE w == WriteScalar(t, v)
           u == PutScalar(t, v)
<1>1. CASE t.kind \in {"i32", "u32"}
  <2>1. v \in Int
    BY <1>1, Numbers DEF ScalarValue
  <2>2. w = LE4(v)
    BY <1>1, OneWire DEF WriteScalar
  <2>3. u = LE4(v)
    BY <1>1, OneWire DEF PutScalar
  <2>4. LE4(v) \in Buffer /\ Len(LE4(v)) = 4
    BY <2>1, Encodings
  <2> HIDE DEF w, u
  <2>5. w \in Buffer /\ Len(w) >= 1 /\ u = w
    BY <2>2, <2>3, <2>4
  <2> QED BY <2>5 DEF w, u
<1>2. CASE t.kind \in {"i64", "u64", "time", "ptr", "Counter", "fn", "progress"}
  <2>1. v \in Int
    BY <1>2, Numbers DEF ScalarValue
  <2>2. w = LE8(v)
    BY <1>2, OneWire DEF WriteScalar
  <2>3. u = LE8(v)
    BY <1>2, OneWire DEF PutScalar
  <2>4. LE8(v) \in Buffer /\ Len(LE8(v)) = 8
    BY <2>1, Encodings
  <2> HIDE DEF w, u
  <2>5. w \in Buffer /\ Len(w) >= 1 /\ u = w
    BY <2>2, <2>3, <2>4
  <2> QED BY <2>5 DEF w, u
<1>3. CASE t.kind = "f64"
  <2>1. v \in Buffer /\ Len(v) = 8
    BY <1>3 DEF ScalarValue
  <2>2. w = v
    BY <1>3 DEF WriteScalar, WriteF64
  <2>3. u = v
    BY <1>3 DEF PutScalar
  <2> QED BY <2>1, <2>2, <2>3
<1>4. CASE t.kind = "bool"
  <2> DEFINE x == IF v THEN 1 ELSE 0
  <2>1. x \in {0, 1}
    OBVIOUS
  <2>2. w = <<x>>
    BY <1>4 DEF WriteScalar, WriteBool, WriteU8
  <2>3. u = <<x % 256>>
    BY <1>4 DEF PutScalar, PutU8
  <2> HIDE DEF x, w, u
  <2>4. x % 256 = x /\ x \in Octet
    BY <2>1 DEF Octet
  <2>5. <<x>> \in Buffer /\ Len(<<x>>) = 1
    BY <2>4, Encodings
  <2>6. u = w
    BY <2>2, <2>3, <2>4
  <2>7. w \in Buffer /\ Len(w) >= 1
    BY <2>2, <2>5
  <2> QED BY <2>6, <2>7 DEF w, u
<1>5. CASE t.kind \in {"str", "blob", "u128", "i128"}
  <2>1. v \in Buffer /\ Len(v) \in Count
    BY <1>5 DEF ScalarValue
  <2>2. w = LE4(Len(v)) \o v
    <3>1. w = WriteStr(v) \/ w = WriteBlob(v)
      BY <1>5 DEF WriteScalar
    <3> QED BY <2>1, <3>1, TextBytes
  <2>3. u = LE4(Len(v)) \o v
    <3>1. u = PutStr(v)
      BY <1>5 DEF PutScalar
    <3> QED BY <2>1, <3>1, TextBytes
  <2>4. LE4(Len(v)) \o v \in Buffer /\ Len(LE4(Len(v)) \o v) = 4 + Len(v)
    BY <2>1, TextBytes
  <2>5. Len(v) \in Nat
    BY <2>1 DEF Buffer
  <2>6. 4 + Len(v) >= 1
    BY <2>5
  <2> HIDE DEF w, u
  <2>7. w \in Buffer /\ Len(w) >= 1 /\ u = w
    BY <2>2, <2>3, <2>4, <2>6
  <2> QED BY <2>7 DEF w, u
<1>6. CASE t.kind \in {"OrderStatus", "StatusCode"}
  <2> DEFINE x == ValueOf(t, v)
  <2>1. x \in Count /\ Index(t, v) = x
    BY <1>6, EnumNumbers DEF ScalarValue
  <2>2. w = LE4(x)
    BY <1>6, OneWire DEF WriteScalar, WriteEnum
  <2>3. u = LE4(x)
    BY <1>6, <2>1, OneWire DEF PutScalar
  <2>4. LE4(x) \in Buffer /\ Len(LE4(x)) = 4
    BY <2>1, Numbers, Encodings
  <2> HIDE DEF w, u, x
  <2>5. w \in Buffer /\ Len(w) >= 1 /\ u = w
    BY <2>2, <2>3, <2>4
  <2> QED BY <2>5 DEF w, u
<1>7. t.kind \in {"i32", "u32", "i64", "u64", "time", "ptr", "Counter", "fn", "progress", "f64",
                  "bool", "str", "blob", "u128", "i128", "OrderStatus", "StatusCode"}
  BY DEF ScalarValue
<1> QED BY <1>1, <1>2, <1>3, <1>4, <1>5, <1>6, <1>7

\* Where the bytes of a value without parts stand, both sides read it; Dart
\* reads only what it may be sent.
LEMMA ScalarCrosses ==
  ASSUME NEW t, NEW v, ScalarValue(t, v), NEW b \in Buffer, NEW p \in Nat, p >= 1
  PROVE  /\ CppReads(ReadScalar(t, b, p), b, p, WriteScalar(t, v), v)
         /\ t.kind \notin SentKinds =>
              DartReads(GetScalar(t, b, p - 1), b, p, WriteScalar(t, v), v)
<1> DEFINE w == WriteScalar(t, v)
           y == ReadScalar(t, b, p)
           z == GetScalar(t, b, p - 1)
<1>1. CASE t.kind \in {"i32", "u32"}
  <2>1. v \in Integer /\ (t.kind = "u32" => v >= 0)
    BY <1>1, Numbers DEF ScalarValue
  <2>2. w = LE4(v)
    BY <1>1, OneWire DEF WriteScalar
  <2>3. y = IF t.kind = "i32" THEN ReadI32(b, p) ELSE ReadU32(b, p)
    BY <1>1 DEF ReadScalar
  <2>4. z = IF t.kind = "i32" THEN GetI32(b, p - 1) ELSE GetU32(b, p - 1)
    BY <1>1 DEF GetScalar
  <2> HIDE DEF w, y, z
  <2>5. CppReads(y, b, p, w, v) /\ DartReads(z, b, p, w, v)
    BY <1>1, <2>1, <2>2, <2>3, <2>4, NumberCrosses
  <2> QED BY <2>5 DEF w, y, z
<1>2. CASE t.kind \in {"i64", "time"}
  <2>1. v \in Integer
    BY <1>2 DEF ScalarValue
  <2>2. w = LE8(v)
    BY <1>2, OneWire DEF WriteScalar
  <2>3. y = ReadI64(b, p)
    BY <1>2 DEF ReadScalar
  <2>4. z = GetI64(b, p - 1)
    BY <1>2 DEF GetScalar
  <2> HIDE DEF w, y, z
  <2>5. CppReads(y, b, p, w, v) /\ DartReads(z, b, p, w, v)
    BY <2>1, <2>2, <2>3, <2>4, NumberCrosses
  <2> QED BY <2>5 DEF w, y, z
<1>3. CASE t.kind \in {"u64", "ptr", "Counter", "fn", "progress"}
  <2>1. v \in Integer /\ v >= 0
    BY <1>3, Numbers DEF ScalarValue
  <2>2. w = LE8(v)
    BY <1>3, OneWire DEF WriteScalar
  <2>3. y = ReadU64(b, p)
    BY <1>3 DEF ReadScalar
  <2>4. t.kind \notin SentKinds => z = GetU64(b, p - 1)
    BY <1>3 DEF GetScalar, SentKinds
  <2> HIDE DEF w, y, z
  <2>5. CppReads(y, b, p, w, v) /\ (t.kind \notin SentKinds => DartReads(z, b, p, w, v))
    BY <2>1, <2>2, <2>3, <2>4, NumberCrosses
  <2> QED BY <2>5 DEF w, y, z
<1>4. CASE t.kind = "f64"
  <2>1. v \in Buffer /\ Len(v) = 8
    BY <1>4 DEF ScalarValue
  <2>2. w = v
    BY <1>4 DEF WriteScalar, WriteF64
  <2>3. y = ReadF64(b, p)
    BY <1>4 DEF ReadScalar
  <2>4. z = GetF64(b, p - 1)
    BY <1>4 DEF GetScalar
  <2> HIDE DEF w, y, z
  <2>5. CppReads(y, b, p, w, v) /\ DartReads(z, b, p, w, v)
    BY <2>1, <2>2, <2>3, <2>4, DoubleCrosses
  <2> QED BY <2>5 DEF w, y, z
<1>5. CASE t.kind = "bool"
  <2> DEFINE x == IF v THEN 1 ELSE 0
             y0 == ReadU8(b, p)
             z0 == GetU8(b, p - 1)
  <2>1. v \in BOOLEAN
    BY <1>5 DEF ScalarValue
  <2>2. w = <<x>>
    BY <1>5 DEF WriteScalar, WriteBool, WriteU8
  <2>3. y = IF y0.ok THEN Read(y0.v # 0, y0.next) ELSE y0
    BY <1>5 DEF ReadScalar, Then
  <2>4. z = IF z0.ok THEN Got(z0.v # 0, z0.pos) ELSE z0
    BY <1>5 DEF GetScalar, Mapped
  <2>5. x \in Octet /\ (x # 0) = v
    BY <2>1 DEF Octet
  <2> HIDE DEF w, y, z, x
  <2>6. CppReads(y0, b, p, w, x) /\ DartReads(z0, b, p, w, x)
    BY <2>2, <2>5, ByteCrosses
  <2> HIDE DEF y0, z0
  <2>7. CppReads(y, b, p, w, v)
    <3>1. ASSUME Stands(b, p, w) PROVE y = Read(v, p + Len(w))
      <4>1. y0 = Read(x, p + Len(w))
        BY <2>6, <3>1 DEF CppReads
      <4>2. y0.ok /\ y0.v = x /\ y0.next = p + Len(w)
        BY <4>1 DEF Read
      <4> QED BY <2>5, <2>3, <4>2
    <3>2. ASSUME Ends(b, p, w) PROVE ~y.ok
      BY <2>3, <2>6, <3>2 DEF CppReads
    <3> QED BY <3>1, <3>2 DEF CppReads
  <2>8. DartReads(z, b, p, w, v)
    <3>1. ASSUME Stands(b, p, w) PROVE z = Got(v, p - 1 + Len(w))
      <4>1. z0 = Got(x, p - 1 + Len(w))
        BY <2>6, <3>1 DEF DartReads
      <4>2. z0.ok /\ z0.v = x /\ z0.pos = p - 1 + Len(w)
        BY <4>1 DEF Got
      <4> QED BY <2>5, <2>4, <4>2
    <3>2. ASSUME Ends(b, p, w) PROVE ~z.ok
      BY <2>4, <2>6, <3>2 DEF DartReads, Failed
    <3> QED BY <3>1, <3>2 DEF DartReads
  <2> QED BY <2>7, <2>8 DEF w, y, z
<1>6. CASE t.kind \in {"str", "blob", "u128", "i128"}
  <2>1. v \in Buffer /\ Len(v) \in Count
    BY <1>6 DEF ScalarValue
  <2>2. w = LE4(Len(v)) \o v
    <3>1. w = WriteStr(v) \/ w = WriteBlob(v)
      BY <1>6 DEF WriteScalar
    <3> QED BY <2>1, <3>1, TextBytes
  <2>3. y = ReadStr(b, p) \/ y = ReadBlob(b, p)
    BY <1>6, Zenon DEF ReadScalar
  <2>4. z = GetStr(b, p - 1)
    BY <1>6 DEF GetScalar
  <2> HIDE DEF w, y, z
  <2>5. CppReads(y, b, p, w, v) /\ DartReads(z, b, p, w, v)
    BY <2>1, <2>2, <2>3, <2>4, TextCrosses
  <2> QED BY <2>5 DEF w, y, z
<1>7. CASE t.kind \in {"OrderStatus", "StatusCode"}
  <2> DEFINE x == ValueOf(t, v)
             e == EnumNames(t)
             y0 == ReadI32(b, p)
             z0 == GetI32(b, p - 1)
  <2>1. x \in Count /\ x + 1 \in DOMAIN e /\ e[x + 1] = v /\ EnumValues(t) = e
    BY <1>7, EnumNumbers DEF ScalarValue
  <2>2. w = LE4(x)
    BY <1>7, OneWire DEF WriteScalar, WriteEnum
  <2>3. y = IF y0.ok THEN Read(IF y0.v + 1 \in DOMAIN e THEN e[y0.v + 1] ELSE y0.v, y0.next)
                     ELSE y0
    BY <1>7 DEF ReadScalar, ReadEnum, Then
  <2>4. z = IF z0.ok /\ z0.v + 1 \in DOMAIN e THEN Got(e[z0.v + 1], z0.pos)
                                              ELSE Failed
    BY <1>7, <2>1 DEF GetScalar, GetEnum
  <2>5. x \in Integer
    BY <2>1, Numbers
  <2> HIDE DEF w, y, z, x, e
  <2>6. CppReads(y0, b, p, w, x) /\ DartReads(z0, b, p, w, x)
    BY <2>2, <2>5, NumberCrosses
  <2> HIDE DEF y0, z0
  <2>7. CppReads(y, b, p, w, v)
    <3>1. ASSUME Stands(b, p, w) PROVE y = Read(v, p + Len(w))
      <4>1. y0 = Read(x, p + Len(w))
        BY <2>6, <3>1 DEF CppReads
      <4>2. y0.ok /\ y0.v = x /\ y0.next = p + Len(w)
        BY <4>1 DEF Read
      <4> QED BY <2>1, <2>3, <4>2
    <3>2. ASSUME Ends(b, p, w) PROVE ~y.ok
      BY <2>3, <2>6, <3>2 DEF CppReads
    <3> QED BY <3>1, <3>2 DEF CppReads
  <2>8. DartReads(z, b, p, w, v)
    <3>1. ASSUME Stands(b, p, w) PROVE z = Got(v, p - 1 + Len(w))
      <4>1. z0 = Got(x, p - 1 + Len(w))
        BY <2>6, <3>1 DEF DartReads
      <4>2. z0.ok /\ z0.v = x /\ z0.pos = p - 1 + Len(w)
        BY <4>1 DEF Got
      <4> QED BY <2>1, <2>4, <4>2
    <3>2. ASSUME Ends(b, p, w) PROVE ~z.ok
      BY <2>4, <2>6, <3>2 DEF DartReads, Failed
    <3> QED BY <3>1, <3>2 DEF DartReads
  <2> QED BY <2>7, <2>8 DEF w, y, z
<1>8. t.kind \in {"i32", "u32", "i64", "u64", "time", "ptr", "Counter", "fn", "progress", "f64",
                  "bool", "str", "blob", "u128", "i128", "OrderStatus", "StatusCode"}
  BY DEF ScalarValue
<1> QED BY <1>1, <1>2, <1>3, <1>4, <1>5, <1>6, <1>7, <1>8

\* As many bytes at least as pieces, where no piece is empty.
LEMMA FlattenLong ==
  ASSUME NEW n \in Nat, NEW w \in [1 .. n -> Buffer]
  PROVE  /\ FlattenSeq(w) \in Buffer
         /\ (\A i \in 1 .. n : Len(w[i]) >= 1) => n <= Len(FlattenSeq(w))
<1>1. PICK f : /\ f[0] = <<>>
               /\ \A i \in 0 .. n : f[i] \in Buffer
               /\ \A i \in 1 .. n : f[i] = f[i - 1] \o w[i] /\ Len(f[i]) = Len(f[i - 1]) + Len(w[i])
               /\ FlattenSeq(w) = f[n]
  BY FlattenSteps
<1>2. ASSUME \A i \in 1 .. n : Len(w[i]) >= 1 PROVE n <= Len(f[n])
  <2> DEFINE S == {k \in Nat : k <= n => k <= Len(f[k])}
  <2>1. 0 \in S
    <3>1. Len(f[0]) = 0
      BY <1>1
    <3> QED BY <3>1
  <2>2. ASSUME NEW k \in Nat, k \in S PROVE k + 1 \in S
    <3> SUFFICES ASSUME k + 1 <= n PROVE k + 1 <= Len(f[k + 1])
      OBVIOUS
    <3> DEFINE i == k + 1
    <3>1. i \in 1 .. n /\ i - 1 = k /\ k \in 0 .. n /\ k <= n
      OBVIOUS
    <3>2. k <= Len(f[k])
      BY <2>2, <3>1
    <3>3. Len(f[k]) \in Nat
      BY <1>1, <3>1 DEF Buffer
    <3>4. w[i] \in Buffer /\ Len(w[i]) >= 1
      BY <1>2, <3>1
    <3>5. Len(w[i]) \in Nat
      BY <3>4 DEF Buffer
    <3>6. Len(f[i]) = Len(f[k]) + Len(w[i])
      BY <1>1, <3>1
    <3>7. k + 1 <= Len(f[i])
      <4> DEFINE a == Len(f[k])
                 d == Len(w[i])
                 e == Len(f[i])
      <4>1. a \in Nat /\ d \in Nat /\ e = a + d /\ k <= a /\ d >= 1
        BY <3>2, <3>3, <3>4, <3>5, <3>6
      <4> HIDE DEF a, d, e, i
      <4>2. k + 1 <= e
        BY <4>1
      <4> QED BY <4>2 DEF e
    <3> QED BY <3>7
  <2> HIDE DEF S
  <2>3. n \in S
    BY <2>1, <2>2, FromZeroOn
  <2> QED BY <2>3 DEF S
<1>3. f[n] \in Buffer
  BY <1>1
<1> QED BY <1>1, <1>2, <1>3

\* A counted list crosses, when no item is empty: the readers then find room for
\* as many items as the count says.
LEMMA CppListCrosses ==
  ASSUME NEW b \in Buffer, NEW p \in Nat, p >= 1, NEW n \in Count, NEW x,
         NEW w \in [1 .. n -> Buffer], \A i \in 1 .. n : Len(w[i]) >= 1, NEW r,
         \A i \in 1 .. n, q \in Nat : q >= 1 => CppReads(r[i][q], b, q, w[i], x[i])
  PROVE  CppReads(ReadVec(r, b, p), b, p, LE4(n) \o FlattenSeq(w), [i \in 1 .. n |-> x[i]])
<1> DEFINE h == LE4(n)
           f == FlattenSeq(w)
           s == [i \in 1 .. n |-> x[i]]
           m == ReadU32(b, p)
           y == ReadVec(r, b, p)
           q == p + 4
           z == ReadParts(r, n, p + 4)
<1>1. n \in Nat /\ n \in Integer /\ n >= 0 /\ Len(b) \in Nat
  <2>1. n \in Int /\ n \in Integer /\ n >= 0
    BY Numbers
  <2> QED BY <2>1 DEF Buffer
<1>2. h \in Buffer /\ Len(h) = 4
  BY <1>1, Numbers, Encodings
<1>3. f \in Buffer /\ Len(f) \in Nat /\ n <= Len(f)
  <2>1. f \in Buffer /\ n <= Len(f)
    BY <1>1, FlattenLong
  <2> HIDE DEF f
  <2>2. Len(f) \in Nat
    BY <2>1 DEF Buffer
  <2> QED BY <1>1, <2>1, <2>2
<1>4. CppReads(m, b, p, h, n)
  BY <1>1, NumberCrosses
<1>5. CppReads(z, b, q, f, s)
  <2>1. q \in Nat /\ q >= 1 /\ q = p + 4
    OBVIOUS
  <2> HIDE DEF q, s, f
  <2>2. CppReads(ReadParts(r, n, q), b, q, f, s)
    BY <1>1, <2>1, CppWalkCrosses DEF s, f
  <2> QED BY <2>1, <2>2
<1>6. y = IF m.ok THEN (IF Has(b, m.next, m.v) THEN ReadParts(r, m.v, m.next)
                                                   ELSE Truncated)
                     ELSE m
  BY DEF ReadVec, ReadEach
<1> HIDE DEF h, f, s, m, y, z
<1>7. h \o f \in Buffer /\ Len(h \o f) = 4 + Len(f)
  BY <1>2, <1>3, StandsConcat
<1>8. ASSUME Stands(b, p, h) PROVE m.ok /\ m.v = n /\ m.next = p + 4
  <2>1. m = Read(n, p + Len(h))
    BY <1>4, <1>8 DEF CppReads
  <2>2. p + 4 = p + 4
    OBVIOUS
  <2>3. m = Read(n, p + 4)
    BY <1>2, <2>1, <2>2
  <2> QED BY <2>3 DEF Read
<1>9. ASSUME Stands(b, p, h \o f) PROVE y = Read(s, p + Len(h \o f))
  <2>1. Stands(b, p, h) /\ Stands(b, p + 4, f)
    BY <1>2, <1>3, <1>9, StandsSplit
  <2>2. z = Read(s, q + Len(f))
    BY <1>5, <2>1 DEF CppReads
  <2>3. q + Len(f) = p + (4 + Len(f))
    BY <1>3
  <2>4. Has(b, p + 4, n)
    <3>1. p + 4 - 1 + Len(f) <= Len(b)
      BY <2>1 DEF Stands
    <3> QED BY <1>1, <1>3, <3>1 DEF Has
  <2>5. y = z
    BY <1>6, <1>8, <2>1, <2>4 DEF z
  <2> QED BY <1>7, <2>2, <2>3, <2>5
<1>10. ASSUME Ends(b, p, h \o f) PROVE ~y.ok
  <2>1. CASE Ends(b, p, h)
    <3>1. ~m.ok
      BY <1>4, <2>1 DEF CppReads
    <3> QED BY <1>6, <3>1
  <2>2. CASE Stands(b, p, h) /\ Ends(b, p + 4, f)
    <3>1. ~z.ok
      BY <1>5, <2>2 DEF CppReads
    <3>2. y = z \/ y = Truncated
      BY <1>6, <1>8, <2>2 DEF z
    <3> QED BY <3>1, <3>2 DEF Truncated
  <2>3. Ends(b, p, h) \/ (Stands(b, p, h) /\ Ends(b, p + 4, f))
    BY <1>2, <1>3, <1>10, EndsSplit
  <2> QED BY <2>1, <2>2, <2>3
<1>11. CppReads(y, b, p, h \o f, s)
  BY <1>9, <1>10 DEF CppReads
<1> QED BY <1>11 DEF h, f, s, y

\* The same of the Dart reader.
LEMMA DartListCrosses ==
  ASSUME NEW b \in Buffer, NEW p \in Nat, p >= 1, NEW n \in Count, NEW x,
         NEW w \in [1 .. n -> Buffer], \A i \in 1 .. n : Len(w[i]) >= 1, NEW r,
         \A i \in 1 .. n, q \in Nat : q >= 1 => DartReads(r[i][q - 1], b, q, w[i], x[i])
  PROVE  DartReads(GetList(r, b, p - 1), b, p, LE4(n) \o FlattenSeq(w), [i \in 1 .. n |-> x[i]])
<1> DEFINE h == LE4(n)
           f == FlattenSeq(w)
           s == [i \in 1 .. n |-> x[i]]
           m == GetU32(b, p - 1)
           y == GetList(r, b, p - 1)
           q == p + 4
           z == GetItems(r, n, p + 3)
<1>1. n \in Nat /\ n \in Integer /\ n >= 0 /\ Len(b) \in Nat
  <2>1. n \in Int /\ n \in Integer /\ n >= 0
    BY Numbers
  <2> QED BY <2>1 DEF Buffer
<1>2. h \in Buffer /\ Len(h) = 4
  BY <1>1, Numbers, Encodings
<1>3. f \in Buffer /\ Len(f) \in Nat /\ n <= Len(f)
  <2>1. f \in Buffer /\ n <= Len(f)
    BY <1>1, FlattenLong
  <2> HIDE DEF f
  <2>2. Len(f) \in Nat
    BY <2>1 DEF Buffer
  <2> QED BY <1>1, <2>1, <2>2
<1>4. DartReads(m, b, p, h, n)
  BY <1>1, NumberCrosses
<1>5. DartReads(z, b, q, f, s)
  <2>1. q \in Nat /\ q >= 1 /\ q - 1 = p + 3
    OBVIOUS
  <2> HIDE DEF q, s, f
  <2>2. DartReads(GetItems(r, n, q - 1), b, q, f, s)
    BY <1>1, <2>1, DartWalkCrosses DEF s, f
  <2> QED BY <2>1, <2>2
<1>6. y = IF m.ok /\ m.v <= Len(b) THEN GetItems(r, m.v, m.pos) ELSE Failed
  BY DEF GetList
<1> HIDE DEF h, f, s, m, y, z
<1>7. h \o f \in Buffer /\ Len(h \o f) = 4 + Len(f)
  BY <1>2, <1>3, StandsConcat
<1>8. ASSUME Stands(b, p, h) PROVE m.ok /\ m.v = n /\ m.pos = p + 3
  <2>1. m = Got(n, p - 1 + Len(h))
    BY <1>4, <1>8 DEF DartReads
  <2>2. p - 1 + 4 = p + 3
    OBVIOUS
  <2>3. m = Got(n, p + 3)
    BY <1>2, <2>1, <2>2
  <2> QED BY <2>3 DEF Got
<1>9. ASSUME Stands(b, p, h \o f) PROVE y = Got(s, p - 1 + Len(h \o f))
  <2>1. Stands(b, p, h) /\ Stands(b, p + 4, f)
    BY <1>2, <1>3, <1>9, StandsSplit
  <2>2. z = Got(s, q - 1 + Len(f))
    BY <1>5, <2>1 DEF DartReads
  <2>3. q - 1 + Len(f) = p - 1 + (4 + Len(f))
    BY <1>3
  <2>4. n <= Len(b)
    <3>1. p + 4 - 1 + Len(f) <= Len(b)
      BY <2>1 DEF Stands
    <3> QED BY <1>1, <1>3, <3>1
  <2>5. y = z
    BY <1>6, <1>8, <2>1, <2>4 DEF z
  <2> QED BY <1>7, <2>2, <2>3, <2>5
<1>10. ASSUME Ends(b, p, h \o f) PROVE ~y.ok
  <2>1. CASE Ends(b, p, h)
    <3>1. ~m.ok
      BY <1>4, <2>1 DEF DartReads
    <3> QED BY <1>6, <3>1 DEF Failed
  <2>2. CASE Stands(b, p, h) /\ Ends(b, p + 4, f)
    <3>1. ~z.ok
      BY <1>5, <2>2 DEF DartReads
    <3>2. y = z \/ y = Failed
      BY <1>6, <1>8, <2>2 DEF z
    <3> QED BY <3>1, <3>2 DEF Failed
  <2>3. Ends(b, p, h) \/ (Stands(b, p, h) /\ Ends(b, p + 4, f))
    BY <1>2, <1>3, <1>10, EndsSplit
  <2> QED BY <2>1, <2>2, <2>3
<1>11. DartReads(y, b, p, h \o f, s)
  BY <1>9, <1>10 DEF DartReads
<1> QED BY <1>11 DEF h, f, s, y

\* An optional crosses.
LEMMA CppOptCrosses ==
  ASSUME NEW b \in Buffer, NEW p \in Nat, p >= 1, NEW n \in {0, 1}, NEW x,
         NEW w \in [1 .. n -> Buffer], NEW r,
         \A i \in 1 .. n, q \in Nat : q >= 1 => CppReads(r[i][q], b, q, w[i], x[i])
  PROVE  CppReads(ReadOpt(r, b, p), b, p, WriteOpt(w), [i \in 1 .. n |-> x[i]])
<1> DEFINE s == [i \in 1 .. n |-> x[i]]
           m == ReadU8(b, p)
           y == ReadOpt(r, b, p)
           q == p + 1
           z == r[1][q]
           z0 == r[1][m.next]
<1>1. y = IF m.ok /\ m.v # 0 THEN (IF z0.ok THEN Read(<<z0.v>>, z0.next) ELSE z0)
          ELSE (IF m.ok THEN Read(<<>>, m.next) ELSE m)
  BY DEF ReadOpt, Then
<1>2. /\ CppReads(m, b, p, << 0 >>, 0) /\ CppReads(m, b, p, << 1 >>, 1)
      /\ << 0 >> \in Buffer /\ << 1 >> \in Buffer /\ Len(<< 0 >>) = 1 /\ Len(<< 1 >>) = 1
  <2>1. 0 \in Octet /\ 1 \in Octet
    BY SMT DEF Octet
  <2> QED BY <2>1, ByteCrosses, Encodings
<1> HIDE DEF m, y
<1>3. CASE n = 0
  <2>1. w = <<>> /\ s = <<>>
    BY <1>3
  <2>2. WriteOpt(w) = << 0 >>
    BY <2>1 DEF WriteOpt, WriteU8
  <2> HIDE DEF s, z0
  <2>3. ASSUME Stands(b, p, << 0 >>) PROVE y = Read(<<>>, p + 1)
    <3>1. m = Read(0, p + 1)
      BY <1>2, <2>3 DEF CppReads
    <3>2. m.ok /\ m.v = 0 /\ m.next = p + 1
      BY <3>1 DEF Read
    <3> QED BY <1>1, <3>2
  <2>4. ASSUME Ends(b, p, << 0 >>) PROVE ~y.ok
    BY <1>1, <1>2, <2>4 DEF CppReads
  <2>5. CppReads(y, b, p, << 0 >>, <<>>)
    BY <1>2, <2>3, <2>4 DEF CppReads
  <2> QED BY <2>1, <2>2, <2>5 DEF s, y
<1>4. CASE n = 1
  <2> DEFINE v == w[1]
             u == << 1 >> \o v
  <2>1. 1 \in 1 .. n /\ q \in Nat /\ q >= 1
    BY <1>4
  <2>2. v \in Buffer /\ Len(v) \in Nat
    BY <2>1 DEF Buffer
  <2>3. s = <<x[1]>>
    BY <1>4
  <2>4. w # <<>>
    <3>1. DOMAIN w = 1 .. n
      OBVIOUS
    <3>2. DOMAIN <<>> = {}
      OBVIOUS
    <3> QED BY <2>1, <3>1, <3>2
  <2>5. WriteOpt(w) = u
    BY <2>4 DEF WriteOpt, WriteU8
  <2>6. CppReads(z, b, q, v, x[1])
    BY <2>1
  <2>7. u \in Buffer /\ Len(u) = 1 + Len(v)
    BY <1>2, <2>2, StandsConcat
  <2> HIDE DEF s, v, z, z0
  <2>8. ASSUME Stands(b, p, << 1 >>) PROVE m.ok /\ m.v = 1 /\ m.next = q
    <3>1. m = Read(1, p + 1)
      BY <1>2, <2>8 DEF CppReads
    <3>2. p + 1 = q
      OBVIOUS
    <3> QED BY <3>1, <3>2 DEF Read
  <2>9. ASSUME Stands(b, p, u) PROVE y = Read(<<x[1]>>, p + Len(u))
    <3>1. Stands(b, p, << 1 >>) /\ Stands(b, q, v)
      BY <1>2, <2>2, <2>9, StandsSplit
    <3>2. z = Read(x[1], q + Len(v))
      BY <2>6, <3>1 DEF CppReads
    <3>3. q + Len(v) = p + Len(u)
      <4> HIDE DEF u
      <4> QED BY <2>2, <2>7
    <3> HIDE DEF u, q
    <3>4. z.ok /\ z.v = x[1] /\ z.next = p + Len(u)
      BY <3>2, <3>3 DEF Read
    <3>5. m.ok /\ m.v = 1 /\ z0 = z
      BY <2>8, <3>1 DEF z0, z
    <3> QED BY <1>1, <3>4, <3>5
  <2>10. ASSUME Ends(b, p, u) PROVE ~y.ok
    <3>1. CASE Ends(b, p, << 1 >>)
      <4>1. ~m.ok
        BY <1>2, <3>1 DEF CppReads
      <4> QED BY <1>1, <4>1
    <3>2. CASE Stands(b, p, << 1 >>) /\ Ends(b, q, v)
      <4>1. ~z.ok
        BY <2>6, <3>2 DEF CppReads
      <4>2. m.ok /\ m.v = 1 /\ z0 = z
        BY <2>8, <3>2 DEF z0, z
      <4> QED BY <1>1, <4>1, <4>2
    <3>3. Ends(b, p, << 1 >>) \/ (Stands(b, p, << 1 >>) /\ Ends(b, q, v))
      BY <1>2, <2>2, <2>10, EndsSplit
    <3> QED BY <3>1, <3>2, <3>3
  <2> HIDE DEF u
  <2>11. CppReads(y, b, p, u, <<x[1]>>)
    BY <2>9, <2>10 DEF CppReads
  <2> QED BY <2>3, <2>5, <2>11 DEF s, y
<1> QED BY <1>3, <1>4

\* The same of the Dart reader.
LEMMA DartOptCrosses ==
  ASSUME NEW b \in Buffer, NEW p \in Nat, p >= 1, NEW n \in {0, 1}, NEW x,
         NEW w \in [1 .. n -> Buffer], NEW r,
         \A i \in 1 .. n, q \in Nat : q >= 1 => DartReads(r[i][q - 1], b, q, w[i], x[i])
  PROVE  DartReads(GetOpt(r, b, p - 1), b, p, WriteOpt(w), [i \in 1 .. n |-> x[i]])
<1> DEFINE s == [i \in 1 .. n |-> x[i]]
           m == GetU8(b, p - 1)
           y == GetOpt(r, b, p - 1)
           q == p + 1
           z == r[1][q - 1]
           z0 == r[1][m.pos]
<1>1. y = IF m.ok /\ m.v # 0 THEN (IF z0.ok THEN Got(<<z0.v>>, z0.pos) ELSE z0)
          ELSE (IF m.ok THEN Got(<<>>, m.pos) ELSE m)
  BY DEF GetOpt, Mapped
<1>2. /\ DartReads(m, b, p, << 0 >>, 0) /\ DartReads(m, b, p, << 1 >>, 1)
      /\ << 0 >> \in Buffer /\ << 1 >> \in Buffer /\ Len(<< 0 >>) = 1 /\ Len(<< 1 >>) = 1
  <2>1. 0 \in Octet /\ 1 \in Octet
    BY SMT DEF Octet
  <2> QED BY <2>1, ByteCrosses, Encodings
<1> HIDE DEF m, y
<1>3. CASE n = 0
  <2>1. w = <<>> /\ s = <<>>
    BY <1>3
  <2>2. WriteOpt(w) = << 0 >>
    BY <2>1 DEF WriteOpt, WriteU8
  <2> HIDE DEF s, z0
  <2>3. ASSUME Stands(b, p, << 0 >>) PROVE y = Got(<<>>, p - 1 + 1)
    <3>1. m = Got(0, p - 1 + 1)
      BY <1>2, <2>3 DEF DartReads
    <3>2. m.ok /\ m.v = 0 /\ m.pos = p - 1 + 1
      BY <3>1 DEF Got
    <3> QED BY <1>1, <3>2
  <2>4. ASSUME Ends(b, p, << 0 >>) PROVE ~y.ok
    BY <1>1, <1>2, <2>4 DEF DartReads
  <2>5. DartReads(y, b, p, << 0 >>, <<>>)
    BY <1>2, <2>3, <2>4 DEF DartReads
  <2> QED BY <2>1, <2>2, <2>5 DEF s, y
<1>4. CASE n = 1
  <2> DEFINE v == w[1]
             u == << 1 >> \o v
  <2>1. 1 \in 1 .. n /\ q \in Nat /\ q >= 1
    BY <1>4
  <2>2. v \in Buffer /\ Len(v) \in Nat
    BY <2>1 DEF Buffer
  <2>3. s = <<x[1]>>
    BY <1>4
  <2>4. w # <<>>
    <3>1. DOMAIN w = 1 .. n
      OBVIOUS
    <3>2. DOMAIN <<>> = {}
      OBVIOUS
    <3> QED BY <2>1, <3>1, <3>2
  <2>5. WriteOpt(w) = u
    BY <2>4 DEF WriteOpt, WriteU8
  <2>6. DartReads(z, b, q, v, x[1])
    BY <2>1
  <2>7. u \in Buffer /\ Len(u) = 1 + Len(v)
    BY <1>2, <2>2, StandsConcat
  <2> HIDE DEF s, v, z, z0
  <2>8. ASSUME Stands(b, p, << 1 >>) PROVE m.ok /\ m.v = 1 /\ m.pos = q - 1
    <3>1. m = Got(1, p - 1 + 1)
      BY <1>2, <2>8 DEF DartReads
    <3>2. p - 1 + 1 = q - 1
      OBVIOUS
    <3> QED BY <3>1, <3>2 DEF Got
  <2>9. ASSUME Stands(b, p, u) PROVE y = Got(<<x[1]>>, p - 1 + Len(u))
    <3>1. Stands(b, p, << 1 >>) /\ Stands(b, q, v)
      BY <1>2, <2>2, <2>9, StandsSplit
    <3>2. z = Got(x[1], q - 1 + Len(v))
      BY <2>6, <3>1 DEF DartReads
    <3>3. q - 1 + Len(v) = p - 1 + Len(u)
      <4> HIDE DEF u
      <4> QED BY <2>2, <2>7
    <3> HIDE DEF u, q
    <3>4. z.ok /\ z.v = x[1] /\ z.pos = p - 1 + Len(u)
      BY <3>2, <3>3 DEF Got
    <3>5. m.ok /\ m.v = 1 /\ z0 = z
      BY <2>8, <3>1 DEF z0, z
    <3> QED BY <1>1, <3>4, <3>5
  <2>10. ASSUME Ends(b, p, u) PROVE ~y.ok
    <3>1. CASE Ends(b, p, << 1 >>)
      <4>1. ~m.ok
        BY <1>2, <3>1 DEF DartReads
      <4> QED BY <1>1, <4>1
    <3>2. CASE Stands(b, p, << 1 >>) /\ Ends(b, q, v)
      <4>1. ~z.ok
        BY <2>6, <3>2 DEF DartReads
      <4>2. m.ok /\ m.v = 1 /\ z0 = z
        BY <2>8, <3>2 DEF z0, z
      <4> QED BY <1>1, <4>1, <4>2
    <3>3. Ends(b, p, << 1 >>) \/ (Stands(b, p, << 1 >>) /\ Ends(b, q, v))
      BY <1>2, <2>2, <2>10, EndsSplit
    <3> QED BY <3>1, <3>2, <3>3
  <2> HIDE DEF u
  <2>11. DartReads(y, b, p, u, <<x[1]>>)
    BY <2>9, <2>10 DEF DartReads
  <2> QED BY <2>3, <2>5, <2>11 DEF s, y
<1> QED BY <1>3, <1>4

\* The order in which a set is written.
LEMMA SetOrder ==
  ASSUME NEW S, IsFiniteSet(S)
  PROVE  LET s == SetToSeq(S) IN
         /\ IsList(s) /\ Len(s) = Cardinality(S)
         /\ {s[i] : i \in DOMAIN s} = S
         /\ \A i, j \in DOMAIN s : s[i] = s[j] => i = j
<1> DEFINE s == SetToSeq(S)
           n == Cardinality(S)
           P(f) == f \in [1 .. n -> S] /\ \A i, j \in DOMAIN f : f[i] = f[j] => i = j
<1>1. n \in Nat /\ ExistsBijection(1 .. n, S)
  BY FS_CardinalityType
<1>2. PICK f : f \in Bijection(1 .. n, S)
  BY <1>1 DEF ExistsBijection
<1>3. f \in [1 .. n -> S] /\ IsInjective(f)
  BY <1>2 DEF Bijection, Injection, IsInjective
<1>5. s \in [1 .. n -> S] /\ IsInjective(s)
  BY <1>3 DEF SetToSeq
<1> HIDE DEF s
<1>7. \A i, j \in DOMAIN s : s[i] = s[j] => i = j
  BY <1>5 DEF IsInjective
<1>8. s \in Injection(1 .. n, S)
  BY <1>5 DEF Injection, IsInjective
<1>9. Cardinality(1 .. n) = n
  BY <1>1, FS_Interval
<1>10. s \in Surjection(1 .. n, S)
  <2> HIDE DEF n
  <2>1. Cardinality(1 .. n) = Cardinality(S)
    BY <1>9 DEF n
  <2> QED BY <1>8, <2>1, FS_Injection
<1>11. \A e \in S : \E i \in 1 .. n : s[i] = e
  BY <1>10 DEF Surjection
<1>12. DOMAIN s = 1 .. n /\ \A i \in 1 .. n : s[i] \in S
  BY <1>5
<1> HIDE DEF n
<1>13. {s[i] : i \in DOMAIN s} = S
  BY <1>11, <1>12
<1>14. s = [i \in 1 .. n |-> s[i]] /\ Len(s) = n
  BY <1>1, <1>5
<1>15. IsList(s)
  BY <1>1, <1>14 DEF IsList
<1> QED BY <1>7, <1>13, <1>14, <1>15 DEF s, n

\* Both sides see the same parts in a value, of the same types.
LEMMA SamePartTypes ==
  ASSUME NEW t, Nests(t)
  PROVE  /\ Composite(t)
         /\ \A i : ItemType(t, i) = PartType(t, i)
         /\ t.kind \in Records => DataClass(t) = Fields(t)
<1>1. Classes = Records
  BY DEF Classes, Records
<1>2. Composite(t)
  BY <1>1 DEF Composite, Nests, Listed
<1>3. ASSUME t.kind \in Records PROVE DataClass(t) = Fields(t)
  <2>1. CASE t.kind = "Point"
    BY <2>1 DEF DataClass, Fields, PointFields,
                F64, Opt, Str, Plain
  <2>2. CASE t.kind = "Rect"
    BY <2>2 DEF DataClass, Fields, RectFields,
                Point, Plain
  <2>3. CASE t.kind = "Person"
    BY <2>3 DEF DataClass, Fields, PersonFields,
                Str, I32, Plain
  <2>4. CASE t.kind = "tuple"
    BY <2>4 DEF DataClass, Fields
  <2> QED BY <1>3, <2>1, <2>2, <2>3, <2>4 DEF Records
<1>5. ASSUME NEW i PROVE ItemType(t, i) = PartType(t, i)
  BY <1>1, <1>3 DEF ItemType, PartType
<1> QED BY <1>2, <1>3, <1>5

\* What the shape of a value says of its parts, and that the value can be put
\* together from them again, a set or a map in any order.
LEMMA PartsOf ==
  ASSUME NEW t, NEW v, Nests(t), Shaped(t, v)
  PROVE  LET x == Parts(t, v) IN
         /\ IsList(x)
         /\ Items(t, v) = x
         /\ t.kind \in {"vec", "set", "map"} => Len(x) \in Count
         /\ t.kind = "opt" => Len(x) \in {0, 1}
         /\ t.kind = "arr" => Len(x) = t.size /\ Len(x) >= 1
         /\ t.kind \in Records => Len(x) = Len(Fields(t)) /\ Len(x) >= 1
         /\ t.kind \notin {"set", "map"} => x = v
         /\ t.kind = "set" => ToSet(x) = v
         /\ t.kind = "map" => FirstOfKey(x) = v
<1> DEFINE x == Parts(t, v)
<1>1. CASE t.kind \in {"set", "map"}
  <2>1. x = SetToSeq(v)
    BY <1>1 DEF Parts
  <2>2. Items(t, v) = SetToSeq(v)
    BY <1>1 DEF Items
  <2>3. IsFiniteSet(v) /\ Cardinality(v) \in Count
    BY <1>1 DEF Shaped, Records
  <2> HIDE DEF x
  <2>4. /\ SetToSeq(v) = x
        /\ IsList(x) /\ Len(x) = Cardinality(v)
        /\ {x[i] : i \in DOMAIN x} = v
        /\ \A i, j \in DOMAIN x : x[i] = x[j] => i = j
    BY <2>1, <2>3, SetOrder
  <2>5. ToSet(x) = v
    BY <2>4 DEF ToSet
  <2>6. t.kind = "map" => FirstOfKey(x) = v
    <3> SUFFICES ASSUME t.kind = "map" PROVE FirstOfKey(x) = v
      OBVIOUS
    <3>1. \A d, e \in v : d[1] = e[1] => d = e
      BY DEF Shaped, Records
    <3>2. DOMAIN x = 1 .. Len(x) /\ Len(x) \in Nat
      BY <2>4 DEF IsList
    <3>3. ASSUME NEW j \in DOMAIN x, NEW h \in 1 .. j - 1 PROVE x[h][1] # x[j][1]
      <4>1. h \in DOMAIN x /\ h # j
        BY <3>2
      <4>2. x[h] \in v /\ x[j] \in v
        BY <2>4, <4>1
      <4> QED BY <2>4, <3>1, <4>1, <4>2
    <3>4. {j \in DOMAIN x : \A h \in 1 .. j - 1 : x[h][1] # x[j][1]} = DOMAIN x
      BY <3>3
    <3> QED BY <2>4, <3>4 DEF FirstOfKey
  <2> QED BY <1>1, <2>2, <2>3, <2>4, <2>5, <2>6 DEF x, Records
<1>2. CASE t.kind \notin {"set", "map"}
  <2>1. x = v /\ Items(t, v) = v
    BY <1>2 DEF Parts, Items
  <2> QED BY <1>2, <2>1 DEF Shaped, Records
<1> QED BY <1>1, <1>2

\* Both sides put the bytes of the parts together alike, and to at least one byte.
LEMMA NestedWritten ==
  ASSUME NEW t, NEW v, Nests(t), Shaped(t, v), NEW n, n = Len(Parts(t, v)),
         NEW w \in [1 .. n -> Buffer], \A i \in 1 .. n : Len(w[i]) >= 1
  PROVE  /\ WriteNested(t, w) \in Buffer /\ Len(WriteNested(t, w)) >= 1
         /\ PutItems(t, w) = WriteNested(t, w)
<1> DEFINE f == FlattenSeq(w)
           h == LE4(n)
           y == WriteNested(t, w)
           z == PutItems(t, w)
<1>1. n \in Nat /\ Len(w) = n
  BY PartsOf DEF IsList
<1>2. f \in Buffer /\ FlattenSeq(w) = f /\ n <= Len(f) /\ Len(f) \in Nat
  <2>1. f \in Buffer /\ FlattenSeq(w) = f /\ n <= Len(f)
    BY <1>1, FlattenLong
  <2> HIDE DEF f
  <2>2. Len(f) \in Nat
    BY <2>1 DEF Buffer
  <2> QED BY <2>1, <2>2
<1>3. Classes = Records
  BY DEF Classes, Records
<1>4. CASE t.kind = "opt"
  <2>1. y = WriteOpt(w)
    BY <1>4 DEF WriteNested, Records
  <2>2. z = PutOpt(w)
    BY <1>4 DEF PutItems, Classes
  <2> HIDE DEF y, z
  <2>3. 0 \in Octet /\ 1 \in Octet /\ 0 % 256 = 0 /\ 1 % 256 = 1
    BY SMT DEF Octet
  <2>4. << 0 >> \in Buffer /\ << 1 >> \in Buffer /\ Len(<< 0 >>) = 1 /\ Len(<< 1 >>) = 1
    BY <2>3, Encodings
  <2>5. CASE w = <<>>
    <3>1. y = << 0 >> /\ z = << 0 >>
      BY <2>1, <2>2, <2>3, <2>5 DEF WriteOpt, WriteU8, PutOpt, PutU8
    <3> QED BY <2>4, <3>1 DEF y, z
  <2>6. CASE w # <<>>
    <3> DEFINE a == w[1]
               u == << 1 >> \o a
    <3>1. y = u /\ z = u
      BY <2>1, <2>2, <2>3, <2>6 DEF WriteOpt, WriteU8, PutOpt, PutU8
    <3>2. 1 \in 1 .. n
      <4>1. n # 0
        <5> SUFFICES ASSUME n = 0 PROVE w = <<>>
          BY <2>6
        <5> QED OBVIOUS
      <4> QED BY <1>1, <4>1
    <3>3. a \in Buffer
      BY <3>2
    <3>4. Len(a) \in Nat
      BY <3>3 DEF Buffer
    <3> HIDE DEF a
    <3>5. u \in Buffer /\ Len(u) = 1 + Len(a)
      BY <2>4, <3>3, StandsConcat
    <3> HIDE DEF u
    <3>6. u \in Buffer /\ Len(u) >= 1
      BY <3>4, <3>5
    <3> QED BY <3>1, <3>6 DEF y, z
  <2> QED BY <2>5, <2>6
<1>5. CASE t.kind \in {"vec", "set", "map"}
  <2>1. n \in Int
    BY <1>1
  <2>2. h \in Buffer /\ Len(h) = 4
    BY <2>1, Encodings
  <2>3. y = h \o f
    BY <1>1, <1>5, OneWire DEF WriteNested, Records, WriteVec
  <2>4. z = h \o f
    BY <1>1, <1>2, <1>5, OneWire DEF PutItems, Classes, PutList
  <2> HIDE DEF y, z, h, f
  <2>5. h \o f \in Buffer /\ Len(h \o f) = 4 + Len(f)
    BY <1>2, <2>2, StandsConcat
  <2>6. y \in Buffer /\ Len(y) >= 1 /\ z = y
    BY <1>2, <2>3, <2>4, <2>5
  <2> QED BY <2>6 DEF y, z
<1>6. CASE t.kind \in {"arr"} \cup Records
  <2>1. t.kind \notin {"opt", "vec", "set", "map"}
    BY <1>6 DEF Records
  <2>2. y = f
    BY <1>6, <2>1 DEF WriteNested, Records
  <2>3. z = f
    BY <1>2, <1>3, <1>6, <2>1 DEF PutItems, Classes
  <2>4. n >= 1
    BY <1>6, PartsOf
  <2> HIDE DEF y, z, f
  <2>5. y \in Buffer /\ Len(y) >= 1 /\ z = y
    BY <1>1, <1>2, <2>2, <2>3, <2>4
  <2> QED BY <2>5 DEF y, z
<1>7. t.kind = "opt" \/ t.kind \in {"vec", "set", "map"} \/ t.kind \in {"arr"} \cup Records
  BY DEF Nests, Listed
<1> QED BY <1>4, <1>5, <1>6, <1>7

\* Where the bytes of the parts of a value stand, C++ reads the value.
LEMMA CppNestedCrosses ==
  ASSUME NEW t, NEW v, Nests(t), Shaped(t, v),
         NEW x, x = Parts(t, v), NEW n, n = Len(x),
         NEW w \in [1 .. n -> Buffer], \A i \in 1 .. n : Len(w[i]) >= 1,
         NEW b \in Buffer, NEW p \in Nat, p >= 1, NEW r,
         \A i \in 1 .. n, q \in Nat : q >= 1 => CppReads(r[i][q], b, q, w[i], x[i])
  PROVE  CppReads(ReadNested(t, r, b, p), b, p, WriteNested(t, w), v)
<1> DEFINE f == FlattenSeq(w)
           h == LE4(n)
           s == [i \in 1 .. n |-> x[i]]
           u == WriteNested(t, w)
           y == ReadNested(t, r, b, p)
<1>1. n \in Nat /\ Len(w) = n /\ x = s
  BY PartsOf DEF IsList
<1>2. CASE t.kind = "opt"
  <2>1. n \in {0, 1} /\ x = v
    BY <1>2, PartsOf
  <2>2. u = WriteOpt(w)
    BY <1>2 DEF WriteNested, Records
  <2>3. y = ReadOpt(r, b, p)
    BY <1>2 DEF ReadNested, Records
  <2>4. CppReads(ReadOpt(r, b, p), b, p, WriteOpt(w), s)
    BY <2>1, CppOptCrosses
  <2> QED BY <1>1, <2>1, <2>2, <2>3, <2>4
<1>3. CASE t.kind \in {"vec", "set", "map"}
  <2> DEFINE m == ReadVec(r, b, p)
             g(a) == IF t.kind = "vec" THEN a ELSE IF t.kind = "set" THEN ToSet(a)
                     ELSE FirstOfKey(a)
  <2>1. n \in Count
    BY <1>3, PartsOf
  <2>2. u = h \o f
    BY <1>1, <1>3, OneWire DEF WriteNested, Records, WriteVec
  <2>3. CppReads(m, b, p, h \o f, s)
    BY <2>1, CppListCrosses
  <2>4. y = IF m.ok /\ t.kind # "vec" THEN Read(g(m.v), m.next) ELSE m
    BY <1>3 DEF ReadNested, Records,
                   ReadSet, ReadMap, Then
  <2>5. g(x) = v
    BY <1>3, PartsOf
  <2> HIDE DEF u, m, g, h, f, s, y
  <2>6. ASSUME Stands(b, p, u) PROVE y = Read(v, p + Len(u))
    <3>1. m = Read(x, p + Len(u))
      BY <1>1, <2>2, <2>3, <2>6 DEF CppReads
    <3>2. m.ok /\ m.v = x /\ m.next = p + Len(u)
      BY <3>1 DEF Read
    <3>3. CASE t.kind = "vec"
      <4>1. x = v
        BY <2>5, <3>3 DEF g
      <4> QED BY <2>4, <3>1, <3>3, <4>1
    <3>4. CASE t.kind # "vec"
      BY <2>4, <2>5, <3>2, <3>4
    <3> QED BY <3>3, <3>4
  <2>7. ASSUME Ends(b, p, u) PROVE ~y.ok
    <3>1. ~m.ok
      BY <2>2, <2>3, <2>7 DEF CppReads
    <3> QED BY <2>4, <3>1
  <2>8. CppReads(y, b, p, u, v)
    BY <2>6, <2>7 DEF CppReads
  <2> QED BY <2>8 DEF u, y
<1>4. CASE t.kind \in {"arr"} \cup Records
  <2>1. t.kind \notin {"opt", "vec", "set", "map"}
    BY <1>4 DEF Records
  <2>2. u = f
    BY <1>4, <2>1 DEF WriteNested, Records
  <2>3. x = v
    BY <2>1, PartsOf
  <2>4. y = ReadParts(r, n, p)
    <3>1. CASE t.kind = "arr"
      <4>1. n = t.size
        BY <3>1, PartsOf
      <4> QED BY <3>1, <4>1 DEF ReadNested, Records
    <3>2. CASE t.kind \in Records
      <4>1. n = Len(Fields(t)) /\ t.kind # "arr"
        BY <3>2, PartsOf DEF Records
      <4> QED BY <2>1, <3>2, <4>1 DEF ReadNested, Records
    <3> QED BY <1>4, <3>1, <3>2
  <2>5. CppReads(ReadParts(r, n, p), b, p, f, s)
    BY <1>1, CppWalkCrosses
  <2> QED BY <1>1, <2>2, <2>3, <2>4, <2>5
<1>5. t.kind = "opt" \/ t.kind \in {"vec", "set", "map"} \/ t.kind \in {"arr"} \cup Records
  BY DEF Nests, Listed
<1> QED BY <1>2, <1>3, <1>4, <1>5

\* So does Dart, for the types that it is sent.
LEMMA DartNestedCrosses ==
  ASSUME NEW t, NEW v, Nests(t), Shaped(t, v), t.kind \notin SentKinds,
         NEW x, x = Parts(t, v), NEW n, n = Len(x),
         NEW w \in [1 .. n -> Buffer], \A i \in 1 .. n : Len(w[i]) >= 1,
         NEW b \in Buffer, NEW p \in Nat, p >= 1, NEW r,
         \A i \in 1 .. n, q \in Nat : q >= 1 => DartReads(r[i][q - 1], b, q, w[i], x[i])
  PROVE  DartReads(GetComposite(t, r, b, p - 1), b, p, WriteNested(t, w), v)
<1> DEFINE f == FlattenSeq(w)
           h == LE4(n)
           s == [i \in 1 .. n |-> x[i]]
           u == WriteNested(t, w)
           y == GetComposite(t, r, b, p - 1)
<1>1. n \in Nat /\ Len(w) = n /\ x = s
  BY PartsOf DEF IsList
<1>2. x = v
  BY PartsOf DEF SentKinds
<1>3. FlattenSeq(w) = f
  BY <1>1, FlattenLong
<1>4. CASE t.kind = "opt"
  <2>1. n \in {0, 1}
    BY <1>4, PartsOf
  <2>2. u = WriteOpt(w)
    BY <1>4 DEF WriteNested, Records
  <2>3. y = GetOpt(r, b, p - 1)
    BY <1>4 DEF GetComposite, Classes
  <2>4. DartReads(GetOpt(r, b, p - 1), b, p, WriteOpt(w), s)
    BY <2>1, DartOptCrosses
  <2> QED BY <1>1, <1>2, <2>2, <2>3, <2>4
<1>5. CASE t.kind = "vec"
  <2>1. n \in Count
    BY <1>5, PartsOf
  <2>2. u = h \o f
    BY <1>1, <1>5, OneWire DEF WriteNested, Records, WriteVec
  <2>3. DartReads(GetList(r, b, p - 1), b, p, h \o f, s)
    BY <1>3, <2>1, DartListCrosses
  <2>4. y = GetList(r, b, p - 1)
    BY <1>5 DEF GetComposite, Classes
  <2> QED BY <1>1, <1>2, <2>2, <2>3, <2>4
<1>6. CASE t.kind \in Records
  <2>1. t.kind \notin {"opt", "vec", "set", "map", "arr"}
    BY <1>6 DEF Records
  <2>2. u = f
    BY <1>6, <2>1 DEF WriteNested, Records
  <2>3. y = GetItems(r, n, p - 1)
    <3>1. n = Len(Fields(t)) /\ DataClass(t) = Fields(t)
      BY <1>6, PartsOf, SamePartTypes
    <3>2. Classes = Records
      BY DEF Classes, Records
    <3> QED BY <1>6, <2>1, <3>1, <3>2 DEF GetComposite, Classes
  <2>4. DartReads(GetItems(r, n, p - 1), b, p, f, s)
    <3>1. DartReads(GetItems(r, n, p - 1), b, p, FlattenSeq(w), s)
      BY <1>1, DartWalkCrosses
    <3> QED BY <1>3, <3>1
  <2> QED BY <1>1, <1>2, <2>2, <2>3, <2>4
<1>7. t.kind = "opt" \/ t.kind = "vec" \/ t.kind \in Records
  BY DEF Nests, Listed, SentKinds
<1> QED BY <1>4, <1>5, <1>6, <1>7

\* Nothing in v is of a type that Dart sends only.
NotSent(t, v) == t.kind \notin SentKinds
ReceivedOver(inner(_, _), t, v) ==
  /\ NotSent(t, v)
  /\ Nests(t) =>
       \A i \in DOMAIN Parts(t, v) : inner(PartType(t, i), Parts(t, v)[i])
Received1(t, v) == ReceivedOver(NotSent, t, v)
Received2(t, v) == ReceivedOver(Received1, t, v)
Received(t, v)  == ReceivedOver(Received2, t, v)

\* Both sides take the same types apart.
LEMMA SameNesting ==
  ASSUME NEW t
  PROVE  Composite(t) <=> Nests(t)
  BY DEF Composite, Classes, Nests, Listed, Records

\* A value with one level of parts is written by both sides alike.
LEMMA Level1Written ==
  ASSUME NEW t, NEW v, Typed1(t, v)
  PROVE  /\ Write1(t, v) \in Buffer /\ Len(Write1(t, v)) >= 1
         /\ Put1(t, v) = Write1(t, v)
<1>1. CASE Nests(t)
  <2> DEFINE x == Parts(t, v)
             n == Len(x)
             w == [i \in 1 .. n |-> WriteScalar(PartType(t, i), x[i])]
  <2>1. Shaped(t, v) /\ \A i \in DOMAIN x : ScalarValue(PartType(t, i), x[i])
    BY <1>1 DEF Typed1, TypedOver
  <2>2. DOMAIN x = 1 .. n /\ n \in Nat /\ Items(t, v) = x
    BY <1>1, <2>1, PartsOf DEF IsList
  <2>3. Composite(t) /\ \A i : ItemType(t, i) = PartType(t, i)
    BY <1>1, SamePartTypes
  <2>4. Write1(t, v) = WriteNested(t, w)
    BY <1>1, <2>2 DEF Write1, WriteOver
  <2>5. Put1(t, v) = PutItems(t, [i \in 1 .. n |-> PutScalar(PartType(t, i), x[i])])
    BY <2>2, <2>3 DEF Put1, PutOver
  <2> HIDE DEF x, n
  <2>6. \A i \in 1 .. n : /\ WriteScalar(PartType(t, i), x[i]) \in Buffer
                         /\ Len(WriteScalar(PartType(t, i), x[i])) >= 1
                         /\ PutScalar(PartType(t, i), x[i])
                              = WriteScalar(PartType(t, i), x[i])
    BY <2>1, <2>2, ScalarWritten
  <2>7. [i \in 1 .. n |-> PutScalar(PartType(t, i), x[i])] = w
    BY <2>6
  <2>8. w \in [1 .. n -> Buffer] /\ \A i \in 1 .. n : Len(w[i]) >= 1
    BY <2>6
  <2> HIDE DEF w
  <2>9. /\ WriteNested(t, w) \in Buffer /\ Len(WriteNested(t, w)) >= 1
        /\ PutItems(t, w) = WriteNested(t, w)
    BY <1>1, <2>1, <2>8, NestedWritten DEF x, n
  <2> QED BY <2>4, <2>5, <2>7, <2>9
<1>2. CASE ~Nests(t)
  <2>1. ScalarValue(t, v)
    BY <1>2 DEF Typed1, TypedOver
  <2>2. ~Composite(t)
    BY <1>2, SameNesting
  <2>3. Write1(t, v) = WriteScalar(t, v)
    BY <1>2 DEF Write1, WriteOver
  <2>4. Put1(t, v) = PutScalar(t, v)
    BY <2>2 DEF Put1, PutOver
  <2> QED BY <2>1, <2>3, <2>4, ScalarWritten
<1> QED BY <1>1, <1>2

\* Where the bytes of a value with one level of parts stand, both sides read it.
LEMMA Level1Crosses ==
  ASSUME NEW t, NEW v, Typed1(t, v), NEW b \in Buffer, NEW p \in Nat, p >= 1
  PROVE  /\ CppReads(Read1(t, b, p), b, p, Write1(t, v), v)
         /\ Received1(t, v) => DartReads(Get1(t, b, p - 1), b, p, Write1(t, v), v)
<1>1. CASE Nests(t)
  <2> DEFINE x == Parts(t, v)
             n == Len(x)
             w == [i \in 1 .. n |-> WriteScalar(PartType(t, i), x[i])]
             r == [i \in Nat |-> [q \in Nat |-> ReadScalar(PartType(t, i), b, q)]]
             g == [i \in Nat |-> [q \in Nat |-> GetScalar(PartType(t, i), b, q)]]
  <2>1. Shaped(t, v) /\ \A i \in DOMAIN x : ScalarValue(PartType(t, i), x[i])
    BY <1>1 DEF Typed1, TypedOver
  <2>2. DOMAIN x = 1 .. n /\ n \in Nat
    BY <1>1, <2>1, PartsOf DEF IsList
  <2>3. Composite(t) /\ \A i : ItemType(t, i) = PartType(t, i)
    BY <1>1, SamePartTypes
  <2>4. Write1(t, v) = WriteNested(t, w)
    BY <1>1, <2>2 DEF Write1, WriteOver
  <2>5. Read1(t, b, p) = ReadNested(t, r, b, p)
    BY <1>1 DEF Read1, ReadOver
  <2>6. Get1(t, b, p - 1) = GetComposite(t, g, b, p - 1)
    BY <2>3 DEF Get1, GetOver
  <2>7. Received1(t, v) => t.kind \notin SentKinds /\ \A i \in DOMAIN x : NotSent(PartType(t, i), x[i])
    BY <1>1 DEF Received1, ReceivedOver, NotSent
  <2> HIDE DEF x, n
  <2>8. w \in [1 .. n -> Buffer] /\ \A i \in 1 .. n : Len(w[i]) >= 1
    BY <2>1, <2>2, ScalarWritten
  <2>9. \A i \in 1 .. n, q \in Nat : q >= 1 => CppReads(r[i][q], b, q, w[i], x[i])
    <3> SUFFICES ASSUME NEW i \in 1 .. n, NEW q \in Nat, q >= 1
                 PROVE  CppReads(r[i][q], b, q, w[i], x[i])
      OBVIOUS
    <3>1. i \in Nat /\ ScalarValue(PartType(t, i), x[i])
      BY <2>1, <2>2
    <3>2. r[i][q] = ReadScalar(PartType(t, i), b, q)
      BY <3>1
    <3>3. w[i] = WriteScalar(PartType(t, i), x[i])
      OBVIOUS
    <3> HIDE DEF r, w
    <3> QED BY <3>1, <3>2, <3>3, ScalarCrosses
  <2>10. ASSUME Received1(t, v)
         PROVE  \A i \in 1 .. n, q \in Nat : q >= 1 => DartReads(g[i][q - 1], b, q, w[i], x[i])
    <3> SUFFICES ASSUME NEW i \in 1 .. n, NEW q \in Nat, q >= 1
                 PROVE  DartReads(g[i][q - 1], b, q, w[i], x[i])
      OBVIOUS
    <3>1. i \in Nat /\ q - 1 \in Nat /\ ScalarValue(PartType(t, i), x[i])
      BY <2>1, <2>2
    <3>2. g[i][q - 1] = GetScalar(PartType(t, i), b, q - 1)
      BY <3>1
    <3>3. w[i] = WriteScalar(PartType(t, i), x[i])
      OBVIOUS
    <3>4. NotSent(PartType(t, i), x[i])
      BY <2>2, <2>7, <2>10
    <3> HIDE DEF g, w
    <3> QED BY <3>1, <3>2, <3>3, <3>4, ScalarCrosses DEF NotSent
  <2> HIDE DEF w, r, g
  <2>11. CppReads(ReadNested(t, r, b, p), b, p, WriteNested(t, w), v)
    BY <1>1, <2>1, <2>8, <2>9, CppNestedCrosses DEF x, n
  <2>12. Received1(t, v) =>
           DartReads(GetComposite(t, g, b, p - 1), b, p, WriteNested(t, w), v)
    BY <1>1, <2>1, <2>7, <2>8, <2>10, DartNestedCrosses DEF x, n
  <2> QED BY <2>4, <2>5, <2>6, <2>11, <2>12
<1>2. CASE ~Nests(t)
  <2>1. ScalarValue(t, v)
    BY <1>2 DEF Typed1, TypedOver
  <2>2. ~Composite(t)
    BY <1>2, SameNesting
  <2>3. Write1(t, v) = WriteScalar(t, v)
    BY <1>2 DEF Write1, WriteOver
  <2>4. Read1(t, b, p) = ReadScalar(t, b, p)
    BY <1>2 DEF Read1, ReadOver
  <2>5. Get1(t, b, p - 1) = GetScalar(t, b, p - 1)
    BY <2>2 DEF Get1, GetOver
  <2>6. Received1(t, v) => NotSent(t, v)
    BY DEF Received1, ReceivedOver, NotSent
  <2> QED BY <2>1, <2>3, <2>4, <2>5, <2>6, ScalarCrosses DEF NotSent
<1> QED BY <1>1, <1>2

\* A value with two levels of parts is written by both sides alike.
LEMMA Level2Written ==
  ASSUME NEW t, NEW v, Typed2(t, v)
  PROVE  /\ Write2(t, v) \in Buffer /\ Len(Write2(t, v)) >= 1
         /\ Put2(t, v) = Write2(t, v)
<1>1. CASE Nests(t)
  <2> DEFINE x == Parts(t, v)
             n == Len(x)
             w == [i \in 1 .. n |-> Write1(PartType(t, i), x[i])]
  <2>1. Shaped(t, v) /\ \A i \in DOMAIN x : Typed1(PartType(t, i), x[i])
    BY <1>1 DEF Typed2, TypedOver
  <2>2. DOMAIN x = 1 .. n /\ n \in Nat /\ Items(t, v) = x
    BY <1>1, <2>1, PartsOf DEF IsList
  <2>3. Composite(t) /\ \A i : ItemType(t, i) = PartType(t, i)
    BY <1>1, SamePartTypes
  <2>4. Write2(t, v) = WriteNested(t, w)
    BY <1>1, <2>2 DEF Write2, WriteOver
  <2>5. Put2(t, v) = PutItems(t, [i \in 1 .. n |-> Put1(PartType(t, i), x[i])])
    BY <2>2, <2>3 DEF Put2, PutOver
  <2> HIDE DEF x, n
  <2>6. \A i \in 1 .. n : /\ Write1(PartType(t, i), x[i]) \in Buffer
                         /\ Len(Write1(PartType(t, i), x[i])) >= 1
                         /\ Put1(PartType(t, i), x[i])
                              = Write1(PartType(t, i), x[i])
    BY <2>1, <2>2, Level1Written
  <2>7. [i \in 1 .. n |-> Put1(PartType(t, i), x[i])] = w
    BY <2>6
  <2>8. w \in [1 .. n -> Buffer] /\ \A i \in 1 .. n : Len(w[i]) >= 1
    BY <2>6
  <2> HIDE DEF w
  <2>9. /\ WriteNested(t, w) \in Buffer /\ Len(WriteNested(t, w)) >= 1
        /\ PutItems(t, w) = WriteNested(t, w)
    BY <1>1, <2>1, <2>8, NestedWritten DEF x, n
  <2> QED BY <2>4, <2>5, <2>7, <2>9
<1>2. CASE ~Nests(t)
  <2>1. ScalarValue(t, v)
    BY <1>2 DEF Typed2, TypedOver
  <2>2. ~Composite(t)
    BY <1>2, SameNesting
  <2>3. Write2(t, v) = WriteScalar(t, v)
    BY <1>2 DEF Write2, WriteOver
  <2>4. Put2(t, v) = PutScalar(t, v)
    BY <2>2 DEF Put2, PutOver
  <2> QED BY <2>1, <2>3, <2>4, ScalarWritten
<1> QED BY <1>1, <1>2

\* Where its bytes stand, both sides read it.
LEMMA Level2Crosses ==
  ASSUME NEW t, NEW v, Typed2(t, v), NEW b \in Buffer, NEW p \in Nat, p >= 1
  PROVE  /\ CppReads(Read2(t, b, p), b, p, Write2(t, v), v)
         /\ Received2(t, v) => DartReads(Get2(t, b, p - 1), b, p, Write2(t, v), v)
<1>1. CASE Nests(t)
  <2> DEFINE x == Parts(t, v)
             n == Len(x)
             w == [i \in 1 .. n |-> Write1(PartType(t, i), x[i])]
             r == [i \in Nat |-> [q \in Nat |-> Read1(PartType(t, i), b, q)]]
             g == [i \in Nat |-> [q \in Nat |-> Get1(PartType(t, i), b, q)]]
  <2>1. Shaped(t, v) /\ \A i \in DOMAIN x : Typed1(PartType(t, i), x[i])
    BY <1>1 DEF Typed2, TypedOver
  <2>2. DOMAIN x = 1 .. n /\ n \in Nat
    BY <1>1, <2>1, PartsOf DEF IsList
  <2>3. Composite(t) /\ \A i : ItemType(t, i) = PartType(t, i)
    BY <1>1, SamePartTypes
  <2>4. Write2(t, v) = WriteNested(t, w)
    BY <1>1, <2>2 DEF Write2, WriteOver
  <2>5. Read2(t, b, p) = ReadNested(t, r, b, p)
    BY <1>1 DEF Read2, ReadOver
  <2>6. Get2(t, b, p - 1) = GetComposite(t, g, b, p - 1)
    BY <2>3 DEF Get2, GetOver
  <2>7. Received2(t, v) => t.kind \notin SentKinds /\ \A i \in DOMAIN x : Received1(PartType(t, i), x[i])
    BY <1>1 DEF Received2, ReceivedOver, NotSent
  <2> HIDE DEF x, n
  <2>8. w \in [1 .. n -> Buffer] /\ \A i \in 1 .. n : Len(w[i]) >= 1
    BY <2>1, <2>2, Level1Written
  <2>9. \A i \in 1 .. n, q \in Nat : q >= 1 => CppReads(r[i][q], b, q, w[i], x[i])
    <3> SUFFICES ASSUME NEW i \in 1 .. n, NEW q \in Nat, q >= 1
                 PROVE  CppReads(r[i][q], b, q, w[i], x[i])
      OBVIOUS
    <3>1. i \in Nat /\ Typed1(PartType(t, i), x[i])
      BY <2>1, <2>2
    <3>2. r[i][q] = Read1(PartType(t, i), b, q)
      BY <3>1
    <3>3. w[i] = Write1(PartType(t, i), x[i])
      OBVIOUS
    <3> HIDE DEF r, w
    <3> QED BY <3>1, <3>2, <3>3, Level1Crosses
  <2>10. ASSUME Received2(t, v)
         PROVE  \A i \in 1 .. n, q \in Nat : q >= 1 => DartReads(g[i][q - 1], b, q, w[i], x[i])
    <3> SUFFICES ASSUME NEW i \in 1 .. n, NEW q \in Nat, q >= 1
                 PROVE  DartReads(g[i][q - 1], b, q, w[i], x[i])
      OBVIOUS
    <3>1. i \in Nat /\ q - 1 \in Nat /\ Typed1(PartType(t, i), x[i])
      BY <2>1, <2>2
    <3>2. g[i][q - 1] = Get1(PartType(t, i), b, q - 1)
      BY <3>1
    <3>3. w[i] = Write1(PartType(t, i), x[i])
      OBVIOUS
    <3>4. Received1(PartType(t, i), x[i])
      BY <2>2, <2>7, <2>10
    <3> HIDE DEF g, w
    <3> QED BY <3>1, <3>2, <3>3, <3>4, Level1Crosses
  <2> HIDE DEF w, r, g
  <2>11. CppReads(ReadNested(t, r, b, p), b, p, WriteNested(t, w), v)
    BY <1>1, <2>1, <2>8, <2>9, CppNestedCrosses DEF x, n
  <2>12. Received2(t, v) =>
           DartReads(GetComposite(t, g, b, p - 1), b, p, WriteNested(t, w), v)
    BY <1>1, <2>1, <2>7, <2>8, <2>10, DartNestedCrosses DEF x, n
  <2> QED BY <2>4, <2>5, <2>6, <2>11, <2>12
<1>2. CASE ~Nests(t)
  <2>1. ScalarValue(t, v)
    BY <1>2 DEF Typed2, TypedOver
  <2>2. ~Composite(t)
    BY <1>2, SameNesting
  <2>3. Write2(t, v) = WriteScalar(t, v)
    BY <1>2 DEF Write2, WriteOver
  <2>4. Read2(t, b, p) = ReadScalar(t, b, p)
    BY <1>2 DEF Read2, ReadOver
  <2>5. Get2(t, b, p - 1) = GetScalar(t, b, p - 1)
    BY <2>2 DEF Get2, GetOver
  <2>6. Received2(t, v) => NotSent(t, v)
    BY DEF Received2, ReceivedOver, NotSent
  <2> QED BY <2>1, <2>3, <2>4, <2>5, <2>6, ScalarCrosses DEF NotSent
<1> QED BY <1>1, <1>2

\* A value with three levels of parts is written by both sides alike.
LEMMA Level3Written ==
  ASSUME NEW t, NEW v, Typed(t, v)
  PROVE  /\ Write(t, v) \in Buffer /\ Len(Write(t, v)) >= 1
         /\ Put(t, v) = Write(t, v)
<1>1. CASE Nests(t)
  <2> DEFINE x == Parts(t, v)
             n == Len(x)
             w == [i \in 1 .. n |-> Write2(PartType(t, i), x[i])]
  <2>1. Shaped(t, v) /\ \A i \in DOMAIN x : Typed2(PartType(t, i), x[i])
    BY <1>1 DEF Typed, TypedOver
  <2>2. DOMAIN x = 1 .. n /\ n \in Nat /\ Items(t, v) = x
    BY <1>1, <2>1, PartsOf DEF IsList
  <2>3. Composite(t) /\ \A i : ItemType(t, i) = PartType(t, i)
    BY <1>1, SamePartTypes
  <2>4. Write(t, v) = WriteNested(t, w)
    BY <1>1, <2>2 DEF Write, WriteOver
  <2>5. Put(t, v) = PutItems(t, [i \in 1 .. n |-> Put2(PartType(t, i), x[i])])
    BY <2>2, <2>3 DEF Put, PutOver
  <2> HIDE DEF x, n
  <2>6. \A i \in 1 .. n : /\ Write2(PartType(t, i), x[i]) \in Buffer
                         /\ Len(Write2(PartType(t, i), x[i])) >= 1
                         /\ Put2(PartType(t, i), x[i])
                              = Write2(PartType(t, i), x[i])
    BY <2>1, <2>2, Level2Written
  <2>7. [i \in 1 .. n |-> Put2(PartType(t, i), x[i])] = w
    BY <2>6
  <2>8. w \in [1 .. n -> Buffer] /\ \A i \in 1 .. n : Len(w[i]) >= 1
    BY <2>6
  <2> HIDE DEF w
  <2>9. /\ WriteNested(t, w) \in Buffer /\ Len(WriteNested(t, w)) >= 1
        /\ PutItems(t, w) = WriteNested(t, w)
    BY <1>1, <2>1, <2>8, NestedWritten DEF x, n
  <2> QED BY <2>4, <2>5, <2>7, <2>9
<1>2. CASE ~Nests(t)
  <2>1. ScalarValue(t, v)
    BY <1>2 DEF Typed, TypedOver
  <2>2. ~Composite(t)
    BY <1>2, SameNesting
  <2>3. Write(t, v) = WriteScalar(t, v)
    BY <1>2 DEF Write, WriteOver
  <2>4. Put(t, v) = PutScalar(t, v)
    BY <2>2 DEF Put, PutOver
  <2> QED BY <2>1, <2>3, <2>4, ScalarWritten
<1> QED BY <1>1, <1>2

\* Where its bytes stand, both sides read it.
LEMMA Level3Crosses ==
  ASSUME NEW t, NEW v, Typed(t, v), NEW b \in Buffer, NEW p \in Nat, p >= 1
  PROVE  /\ CppReads(ReadOne(t, b, p), b, p, Write(t, v), v)
         /\ Received(t, v) => DartReads(Get(t, b, p - 1), b, p, Write(t, v), v)
<1>1. CASE Nests(t)
  <2> DEFINE x == Parts(t, v)
             n == Len(x)
             w == [i \in 1 .. n |-> Write2(PartType(t, i), x[i])]
             r == [i \in Nat |-> [q \in Nat |-> Read2(PartType(t, i), b, q)]]
             g == [i \in Nat |-> [q \in Nat |-> Get2(PartType(t, i), b, q)]]
  <2>1. Shaped(t, v) /\ \A i \in DOMAIN x : Typed2(PartType(t, i), x[i])
    BY <1>1 DEF Typed, TypedOver
  <2>2. DOMAIN x = 1 .. n /\ n \in Nat
    BY <1>1, <2>1, PartsOf DEF IsList
  <2>3. Composite(t) /\ \A i : ItemType(t, i) = PartType(t, i)
    BY <1>1, SamePartTypes
  <2>4. Write(t, v) = WriteNested(t, w)
    BY <1>1, <2>2 DEF Write, WriteOver
  <2>5. ReadOne(t, b, p) = ReadNested(t, r, b, p)
    BY <1>1 DEF ReadOne, ReadOver
  <2>6. Get(t, b, p - 1) = GetComposite(t, g, b, p - 1)
    BY <2>3 DEF Get, GetOver
  <2>7. Received(t, v) => t.kind \notin SentKinds /\ \A i \in DOMAIN x : Received2(PartType(t, i), x[i])
    BY <1>1 DEF Received, ReceivedOver, NotSent
  <2> HIDE DEF x, n
  <2>8. w \in [1 .. n -> Buffer] /\ \A i \in 1 .. n : Len(w[i]) >= 1
    BY <2>1, <2>2, Level2Written
  <2>9. \A i \in 1 .. n, q \in Nat : q >= 1 => CppReads(r[i][q], b, q, w[i], x[i])
    <3> SUFFICES ASSUME NEW i \in 1 .. n, NEW q \in Nat, q >= 1
                 PROVE  CppReads(r[i][q], b, q, w[i], x[i])
      OBVIOUS
    <3>1. i \in Nat /\ Typed2(PartType(t, i), x[i])
      BY <2>1, <2>2
    <3>2. r[i][q] = Read2(PartType(t, i), b, q)
      BY <3>1
    <3>3. w[i] = Write2(PartType(t, i), x[i])
      OBVIOUS
    <3> HIDE DEF r, w
    <3> QED BY <3>1, <3>2, <3>3, Level2Crosses
  <2>10. ASSUME Received(t, v)
         PROVE  \A i \in 1 .. n, q \in Nat : q >= 1 => DartReads(g[i][q - 1], b, q, w[i], x[i])
    <3> SUFFICES ASSUME NEW i \in 1 .. n, NEW q \in Nat, q >= 1
                 PROVE  DartReads(g[i][q - 1], b, q, w[i], x[i])
      OBVIOUS
    <3>1. i \in Nat /\ q - 1 \in Nat /\ Typed2(PartType(t, i), x[i])
      BY <2>1, <2>2
    <3>2. g[i][q - 1] = Get2(PartType(t, i), b, q - 1)
      BY <3>1
    <3>3. w[i] = Write2(PartType(t, i), x[i])
      OBVIOUS
    <3>4. Received2(PartType(t, i), x[i])
      BY <2>2, <2>7, <2>10
    <3> HIDE DEF g, w
    <3> QED BY <3>1, <3>2, <3>3, <3>4, Level2Crosses
  <2> HIDE DEF w, r, g
  <2>11. CppReads(ReadNested(t, r, b, p), b, p, WriteNested(t, w), v)
    BY <1>1, <2>1, <2>8, <2>9, CppNestedCrosses DEF x, n
  <2>12. Received(t, v) =>
           DartReads(GetComposite(t, g, b, p - 1), b, p, WriteNested(t, w), v)
    BY <1>1, <2>1, <2>7, <2>8, <2>10, DartNestedCrosses DEF x, n
  <2> QED BY <2>4, <2>5, <2>6, <2>11, <2>12
<1>2. CASE ~Nests(t)
  <2>1. ScalarValue(t, v)
    BY <1>2 DEF Typed, TypedOver
  <2>2. ~Composite(t)
    BY <1>2, SameNesting
  <2>3. Write(t, v) = WriteScalar(t, v)
    BY <1>2 DEF Write, WriteOver
  <2>4. ReadOne(t, b, p) = ReadScalar(t, b, p)
    BY <1>2 DEF ReadOne, ReadOver
  <2>5. Get(t, b, p - 1) = GetScalar(t, b, p - 1)
    BY <2>2 DEF Get, GetOver
  <2>6. Received(t, v) => NotSent(t, v)
    BY DEF Received, ReceivedOver, NotSent
  <2> QED BY <2>1, <2>3, <2>4, <2>5, <2>6, ScalarCrosses DEF NotSent
<1> QED BY <1>1, <1>2

\* The values vs are arguments of the types ts, or fields of an error.
TypedAll(ts, vs) ==
  /\ IsList(vs) /\ Len(vs) = Len(ts)
  /\ \A i \in DOMAIN vs : Typed(ts[i], vs[i])
ReceivedAll(ts, vs) == \A i \in DOMAIN vs : Received(ts[i], vs[i])

\* Arguments are written one after the other, by both sides alike.
LEMMA ArgumentsWritten ==
  ASSUME NEW ts, NEW vs, TypedAll(ts, vs)
  PROVE  /\ WriteAll(ts, vs) \in Buffer
         /\ PutAll(ts, vs) = WriteAll(ts, vs)
<1> DEFINE t == Tuple(ts)
           n == Len(vs)
           w == [i \in 1 .. n |-> Write(ts[i], vs[i])]
<1>1. n \in Nat /\ DOMAIN vs = 1 .. n /\ \A i \in 1 .. n : Typed(ts[i], vs[i])
  BY DEF TypedAll, IsList
<1>2. t.kind = "tuple" /\ t.fields = ts
  BY DEF Tuple
<1>3. Tuple(ts) = t
  OBVIOUS
<1>4. \A i \in 1 .. n : /\ Write(ts[i], vs[i]) \in Buffer
                        /\ Put(ts[i], vs[i]) = Write(ts[i], vs[i])
  BY <1>1, Level3Written
<1> HIDE DEF t, n
<1>5. w \in [1 .. n -> Buffer] /\ [i \in 1 .. n |-> Put(ts[i], vs[i])] = w
  BY <1>4
<1>6. WriteAll(ts, vs) = FlattenSeq(w)
  <2>1. Nests(t) /\ Parts(t, vs) = vs
        /\ \A i : PartType(t, i) = ts[i]
    BY <1>2 DEF Nests, Listed, Records, Parts, PartType,
                Fields
  <2>2. WriteAll(ts, vs) = WriteNested(t, w)
    BY <1>1, <2>1 DEF WriteAll, WriteOver, t
  <2> QED BY <1>2, <2>2 DEF WriteNested, Records
<1>7. PutAll(ts, vs) = FlattenSeq(w)
  <2>1. Composite(t) /\ Items(t, vs) = vs
        /\ \A i : ItemType(t, i) = ts[i]
    BY <1>2 DEF Composite, Classes, Items, ItemType,
                DataClass
  <2>2. PutAll(ts, vs) = PutItems(t, [i \in 1 .. n |-> Put(ts[i], vs[i])])
    BY <1>1, <1>3, <2>1 DEF PutAll, PutOver
  <2> QED BY <1>2, <1>5, <2>2 DEF PutItems, Classes
<1> HIDE DEF w
<1>8. FlattenSeq(w) \in Buffer
  BY <1>1, <1>5, FlattenLong
<1> QED BY <1>6, <1>7, <1>8

\* Arguments are read one after the other where their bytes stand.
LEMMA ArgumentsRead ==
  ASSUME NEW ts, NEW vs, TypedAll(ts, vs), NEW b \in Buffer, NEW p \in Nat, p >= 1
  PROVE  /\ CppReads(ReadAll(ts, b, p), b, p, WriteAll(ts, vs), vs)
         /\ ReceivedAll(ts, vs) =>
              DartReads(GetAll(ts, b, p - 1), b, p, WriteAll(ts, vs), vs)
<1> DEFINE t == Tuple(ts)
           n == Len(vs)
           w == [i \in 1 .. n |-> Write(ts[i], vs[i])]
           r == [i \in Nat |-> [q \in Nat |-> ReadOne(ts[i], b, q)]]
           g == [i \in Nat |-> [q \in Nat |-> Get(ts[i], b, q)]]
<1>1. /\ n \in Nat /\ DOMAIN vs = 1 .. n /\ Len(ts) = n /\ \A i \in 1 .. n : Typed(ts[i], vs[i])
      /\ vs = [i \in 1 .. n |-> vs[i]]
  BY DEF TypedAll, IsList
<1>2. t.kind = "tuple" /\ t.fields = ts /\ Tuple(ts) = t
  BY DEF Tuple
<1> HIDE DEF t, n
<1>3. w \in [1 .. n -> Buffer]
  BY <1>1, Level3Written
<1>4. /\ Nests(t) /\ Parts(t, vs) = vs /\ \A i : PartType(t, i) = ts[i]
      /\ Fields(t) = ts
  BY <1>2 DEF Nests, Listed, Records, Parts, PartType,
              Fields
<1>5. WriteAll(ts, vs) = FlattenSeq(w)
  <2>1. WriteAll(ts, vs) = WriteNested(t, w)
    BY <1>1, <1>4 DEF WriteAll, WriteOver, t
  <2> QED BY <1>2, <2>1 DEF WriteNested, Records
<1>6. ReadAll(ts, b, p) = ReadParts(r, n, p)
  <2>1. ReadAll(ts, b, p) = ReadNested(t, r, b, p)
    BY <1>4 DEF ReadAll, ReadOver, t
  <2> QED BY <1>1, <1>2, <1>4, <2>1 DEF ReadNested, Records
<1>7. GetAll(ts, b, p - 1) = GetItems(g, n, p - 1)
  <2>1. Composite(t) /\ DataClass(t) = ts /\ \A i : ItemType(t, i) = ts[i]
    BY <1>2 DEF Composite, Classes, ItemType, DataClass
  <2>2. GetAll(ts, b, p - 1) = GetComposite(t, g, b, p - 1)
    BY <1>2, <2>1 DEF GetAll, GetOver
  <2> QED BY <1>1, <1>2, <2>1, <2>2 DEF GetComposite, Classes
<1>8. \A i \in 1 .. n, q \in Nat : q >= 1 => CppReads(r[i][q], b, q, w[i], vs[i])
  <2> SUFFICES ASSUME NEW i \in 1 .. n, NEW q \in Nat, q >= 1
               PROVE  CppReads(r[i][q], b, q, w[i], vs[i])
    OBVIOUS
  <2>1. i \in Nat
    BY <1>1
  <2>2. r[i][q] = ReadOne(ts[i], b, q) /\ w[i] = Write(ts[i], vs[i])
    BY <2>1
  <2> HIDE DEF r, w
  <2> QED BY <1>1, <2>2, Level3Crosses
<1>9. ASSUME ReceivedAll(ts, vs)
      PROVE  \A i \in 1 .. n, q \in Nat : q >= 1 => DartReads(g[i][q - 1], b, q, w[i], vs[i])
  <2> SUFFICES ASSUME NEW i \in 1 .. n, NEW q \in Nat, q >= 1
               PROVE  DartReads(g[i][q - 1], b, q, w[i], vs[i])
    OBVIOUS
  <2>1. i \in Nat /\ q - 1 \in Nat /\ Received(ts[i], vs[i])
    BY <1>1, <1>9 DEF ReceivedAll
  <2>2. g[i][q - 1] = Get(ts[i], b, q - 1) /\ w[i] = Write(ts[i], vs[i])
    BY <2>1
  <2> HIDE DEF g, w
  <2> QED BY <1>1, <2>1, <2>2, Level3Crosses
<1> HIDE DEF w, r, g
<1>10. CppReads(ReadParts(r, n, p), b, p, FlattenSeq(w), vs)
  <2>1. CppReads(ReadParts(r, n, p), b, p, FlattenSeq(w), [i \in 1 .. n |-> vs[i]])
    <3>1. n \in Nat
      BY <1>1
    <3> QED BY <1>3, <1>8, <3>1, CppWalkCrosses
  <2> QED BY <1>1, <2>1
<1>11. ReceivedAll(ts, vs) => DartReads(GetItems(g, n, p - 1), b, p, FlattenSeq(w), vs)
  <2> SUFFICES ASSUME ReceivedAll(ts, vs)
               PROVE  DartReads(GetItems(g, n, p - 1), b, p, FlattenSeq(w), vs)
    OBVIOUS
  <2>1. DartReads(GetItems(g, n, p - 1), b, p, FlattenSeq(w), [i \in 1 .. n |-> vs[i]])
    <3>1. n \in Nat
      BY <1>1
    <3>2. \A i \in 1 .. n, q \in Nat : q >= 1 => DartReads(g[i][q - 1], b, q, w[i], vs[i])
      BY <1>9
    <3> QED BY <1>3, <3>1, <3>2, DartWalkCrosses
  <2> QED BY <1>1, <2>1
<1> QED BY <1>5, <1>6, <1>7, <1>10, <1>11

\* What was put into a buffer stands there, and a buffer cut inside it ends there.
LEMMA PutAndCut ==
  ASSUME NEW before \in Buffer, NEW w \in Buffer, NEW after \in Buffer
  PROVE  /\ before \o w \o after \in Buffer
         /\ Stands(before \o w \o after, Len(before) + 1, w)
         /\ \A n \in Len(before) .. Len(before \o w) - 1 :
              /\ SubSeq(before \o w, 1, n) \in Buffer
              /\ Ends(SubSeq(before \o w, 1, n), Len(before) + 1, w)
<1> DEFINE p == Len(before)
           u == before \o w
<1>1. p \in Nat /\ Len(w) \in Nat
  BY DEF Buffer
<1>2. u \in Buffer /\ Len(u) = p + Len(w) /\ Stands(u, p + 1, w)
  BY StandsConcat
<1>3. u \o after \in Buffer /\ Stands(u \o after, p + 1, w)
  BY PieceStands
<1> HIDE DEF p, u
<1> DEFINE q == p + 1
<1>4. q - 1 = p /\ q \in Nat
  BY <1>1
<1>5. Stands(u, q, w)
  BY <1>2
<1> HIDE DEF q
<1>6. ASSUME NEW n \in p .. Len(u) - 1
      PROVE  SubSeq(u, 1, n) \in Buffer /\ Ends(SubSeq(u, 1, n), q, w)
  <2> DEFINE c == SubSeq(u, 1, n)
  <2>1. n \in 0 .. Len(u) /\ n \in Nat /\ p <= n /\ n < p + Len(w)
    BY <1>1, <1>2
  <2>2. c \in Buffer /\ Len(c) = n
    BY <1>2, <2>1, StandsCut
  <2>3. \A i \in 1 .. n : c[i] = u[i]
    BY <1>2, <2>1 DEF Buffer
  <2> HIDE DEF c
  <2>4. \A i \in 1 .. Len(w) : p + i <= n => c[p + i] = w[i]
    <3> TAKE i \in 1 .. Len(w)
    <3>1. u[p + i] = w[i]
      BY <1>4, <1>5 DEF Stands
    <3>2. p + i <= n => p + i \in 1 .. n
      BY <1>1, <2>1
    <3> QED BY <2>3, <3>1, <3>2
  <2>5. Ends(c, q, w)
    BY <1>4, <2>1, <2>2, <2>4 DEF Ends
  <2> QED BY <2>2, <2>5 DEF c
<1> QED BY <1>3, <1>6 DEF p, q, u

\* A value of any type, nested three levels deep, put anywhere into a buffer by one
\* side is the value the other side reads there, and the reader goes on right after
\* it: numbers, text, optionals, lists, arrays, sets, maps, records and enumerators.
THEOREM ValuesCross ==
  ASSUME NEW t, NEW v, Typed(t, v), NEW before \in Buffer, NEW after \in Buffer
  PROVE  LET p == Len(before)
             n == Len(before) + Len(Write(t, v))
             fromDart == before \o Put(t, v) \o after
             fromCpp  == before \o Write(t, v) \o after
         IN  /\ ReadOne(t, fromDart, p + 1) = Read(v, n + 1)
             /\ Received(t, v) => Get(t, fromCpp, p) = Got(v, n)
<1> DEFINE p == Len(before)
           w == Write(t, v)
           b == before \o w \o after
<1>1. p \in Nat /\ p + 1 >= 1 /\ p + 1 \in Nat /\ p + 1 - 1 = p
  BY DEF Buffer
<1>2. w \in Buffer /\ Put(t, v) = w
  BY Level3Written
<1>3. b \in Buffer /\ Stands(b, p + 1, w) /\ Len(w) \in Nat
  BY <1>2, PutAndCut DEF Buffer
<1> HIDE DEF p, b
<1>4. /\ CppReads(ReadOne(t, b, p + 1), b, p + 1, w, v)
      /\ Received(t, v) => DartReads(Get(t, b, p), b, p + 1, w, v)
  <2>1. /\ CppReads(ReadOne(t, b, p + 1), b, p + 1, w, v)
        /\ Received(t, v) => DartReads(Get(t, b, p + 1 - 1), b, p + 1, w, v)
    BY <1>1, <1>3, Level3Crosses
  <2> QED BY <1>1, <2>1
<1> HIDE DEF w
<1>5. /\ ReadOne(t, b, p + 1) = Read(v, p + 1 + Len(w))
      /\ Received(t, v) => Get(t, b, p) = Got(v, p + Len(w))
  BY <1>1, <1>3, <1>4 DEF CppReads, DartReads
<1>6. p + 1 + Len(w) = p + Len(w) + 1
  BY <1>1, <1>3
<1> QED BY <1>2, <1>5, <1>6 DEF p, b, w

\* A buffer that ends inside the bytes of a value, wherever it was cut, holds no
\* value for either reader: none of them makes one up or reads past the end.
THEOREM CutValuesAreRefused ==
  ASSUME NEW t, NEW v, Typed(t, v), NEW before \in Buffer,
         NEW n \in Len(before) .. Len(before \o Write(t, v)) - 1
  PROVE  LET p == Len(before)
             b == SubSeq(before \o Write(t, v), 1, n)
         IN  /\ ~ReadOne(t, b, p + 1).ok
             /\ Received(t, v) => ~Get(t, b, p).ok
<1> DEFINE p == Len(before)
           w == Write(t, v)
           b == SubSeq(before \o w, 1, n)
<1>1. p \in Nat /\ p + 1 >= 1 /\ p + 1 \in Nat
  BY DEF Buffer
<1>2. w \in Buffer
  BY Level3Written
<1>3. b \in Buffer /\ Ends(b, p + 1, w)
  <2>1. <<>> \in Buffer
    BY DEF Buffer
  <2> QED BY <1>2, <2>1, PutAndCut
<1> HIDE DEF p, b
<1>4. /\ CppReads(ReadOne(t, b, p + 1), b, p + 1, w, v)
      /\ Received(t, v) => DartReads(Get(t, b, p + 1 - 1), b, p + 1, w, v)
  BY <1>1, <1>3, Level3Crosses
<1>5. p + 1 - 1 = p
  BY <1>1
<1> HIDE DEF w
<1>6. ~ReadOne(t, b, p + 1).ok
  BY <1>3, <1>4 DEF CppReads
<1>7. Received(t, v) => ~Get(t, b, p).ok
  BY <1>3, <1>4, <1>5 DEF DartReads
<1> QED BY <1>6, <1>7 DEF p, b, w

\* The arguments of a call, of a callback or the fields of an error are read in the
\* order in which they were written, each with its own type, and are refused all
\* together when the buffer ends inside one of them.
THEOREM ArgumentsCross ==
  ASSUME NEW ts, NEW vs, TypedAll(ts, vs), NEW before \in Buffer, NEW after \in Buffer
  PROVE  LET p == Len(before)
             w == WriteAll(ts, vs)
             b == before \o w \o after
         IN  /\ PutAll(ts, vs) = w
             /\ ReadAll(ts, b, p + 1) = Read(vs, p + 1 + Len(w))
             /\ ReceivedAll(ts, vs) => GetAll(ts, b, p) = Got(vs, p + Len(w))
             /\ \A n \in p .. Len(before \o w) - 1 :
                  /\ ~ReadAll(ts, SubSeq(before \o w, 1, n), p + 1).ok
                  /\ ReceivedAll(ts, vs) => ~GetAll(ts, SubSeq(before \o w, 1, n), p).ok
<1> DEFINE p == Len(before)
           w == WriteAll(ts, vs)
           b == before \o w \o after
<1>1. p \in Nat /\ p + 1 >= 1 /\ p + 1 \in Nat /\ p + 1 - 1 = p
  BY DEF Buffer
<1>2. w \in Buffer /\ PutAll(ts, vs) = w
  BY ArgumentsWritten
<1>3. b \in Buffer /\ Stands(b, p + 1, w)
  BY <1>2, PutAndCut
<1>4. \A n \in p .. Len(before \o w) - 1 :
        SubSeq(before \o w, 1, n) \in Buffer /\ Ends(SubSeq(before \o w, 1, n), p + 1, w)
  BY <1>2, PutAndCut
<1> HIDE DEF p, b
<1>5. ASSUME NEW a \in Buffer
      PROVE  /\ CppReads(ReadAll(ts, a, p + 1), a, p + 1, w, vs)
             /\ ReceivedAll(ts, vs) => DartReads(GetAll(ts, a, p), a, p + 1, w, vs)
  <2>1. /\ CppReads(ReadAll(ts, a, p + 1), a, p + 1, w, vs)
        /\ ReceivedAll(ts, vs) => DartReads(GetAll(ts, a, p + 1 - 1), a, p + 1, w, vs)
    BY <1>1, ArgumentsRead
  <2> QED BY <1>1, <2>1
<1> HIDE DEF w
<1>6. /\ ReadAll(ts, b, p + 1) = Read(vs, p + 1 + Len(w))
      /\ ReceivedAll(ts, vs) => GetAll(ts, b, p) = Got(vs, p + Len(w))
  BY <1>1, <1>3, <1>5 DEF CppReads, DartReads
<1>7. ASSUME NEW n \in p .. Len(before \o w) - 1
      PROVE  /\ ~ReadAll(ts, SubSeq(before \o w, 1, n), p + 1).ok
             /\ ReceivedAll(ts, vs) => ~GetAll(ts, SubSeq(before \o w, 1, n), p).ok
  <2> DEFINE a == SubSeq(before \o w, 1, n)
  <2>1. a \in Buffer /\ Ends(a, p + 1, w)
    BY <1>4
  <2> HIDE DEF a
  <2>2. ~ReadAll(ts, a, p + 1).ok /\ (ReceivedAll(ts, vs) => ~GetAll(ts, a, p).ok)
    BY <1>5, <2>1 DEF CppReads, DartReads
  <2> QED BY <2>2 DEF a
<1> QED BY <1>2, <1>6, <1>7 DEF p, b, w

-----------------------------------------------------------------------------
(* The tables of the four libraries *)

\* A row is known by its id.  What a closure, a synchronous method and any method
\* take, and what one answers; the lemmas below show that the tables hold no other.
Id(r) == r.id
FnTypes == {StringFn, DartFn(<<Str, Str>>, Str)}
SyncTypes == {Counter, I32, Ptr, Str, Time, Progress(I32)}
ArgTypes == SyncTypes \cup FnTypes \cup
  {U32, I64, F64, Bool, Blob, U128, I128, OrderStatus, StatusCode, Point, Person,
   Opt(I32), Opt(Str), Opt(OrderStatus), Vec(I32), Vec(Bool), Vec(Counter), Vec(Point),
   Vec(Person), Arr(4, I32), SetOf(I32), Map(Str, I32),
   Tuple(<<I32, Str>>), Tuple(<<I32, Str, Bool>>)}
AnswerTypes ==
  {I32, U32, I64, F64, Bool, Str, Blob, U128, I128, Time, Ptr, Counter, OrderStatus,
   StatusCode, Point, Rect, Opt(I32), Opt(Str), Opt(OrderStatus), Vec(I32), Vec(Bool),
   Vec(Vec(Vec(I32))), Tuple(<<I32, Str>>), Tuple(<<I32, Str, Bool>>), Tuple(<<Str, Str>>)}

\* Row r of a dispatcher has the id n and proxy p calls it so: the same arguments, the
\* same result unless the proxy ignores it, and a stream for a stream.  A synchronous
\* method takes a closure only to keep it (register_dart_fn).
Runs(r, n) == Id(r) = n /\ r.res \in AnswerTypes \cup {Void}
Fits(p, r, n) ==
  /\ Runs(r, n) /\ Id(p) = n /\ n \in Int /\ 0 <= n /\ n < Unknown
  /\ p.args \in Seq(ArgTypes) /\ Len(p.args) <= 3
  /\ r.args = p.args /\ p.res \in {Void, r.res}
  /\ r.run = "stream" <=> p.run = "open_stream"
  /\ p.run = "open_stream" => p.res = r.res /\ p.res \in AnswerTypes
FitsAsync(p, r, n) == Fits(p, r, n) /\ p.run # "sync"
FitsSync(p, r, n) == Fits(p, r, n) /\ p.run = "sync" /\ (n = 1702006080 \/ p.args \in Seq(SyncTypes))

\* The types that a table names are those that the other side, and the calls, name.
LEMMA CodegenCppTypes ==
  /\ CodegenCpp!I32 = I32 /\ CodegenCpp!U32 = U32 /\ CodegenCpp!I64 = I64 /\
     CodegenCpp!F64 = F64 /\ CodegenCpp!Bool = Bool /\ CodegenCpp!Str = Str /\
     CodegenCpp!U128 = U128 /\ CodegenCpp!I128 = I128 /\ CodegenCpp!Time = Time /\
     CodegenCpp!Ptr = Ptr /\ CodegenCpp!Void = Void /\ CodegenCpp!OrderStatus = OrderStatus
     /\ CodegenCpp!Point = Point /\ CodegenCpp!Rect = Rect /\ CodegenCpp!Counter = Counter
  /\ \A t : CodegenCpp!Opt(t) = Opt(t) /\ CodegenCpp!Vec(t) = Vec(t) /\
            CodegenCpp!SetOf(t) = SetOf(t) /\ CodegenCpp!Tuple(t) = Tuple(t) /\
            CodegenCpp!Progress(t) = Progress(t)
  /\ \A k, t : CodegenCpp!Arr(k, t) = Arr(k, t) /\ CodegenCpp!Map(k, t) = Map(k, t) /\
               CodegenCpp!DartFn(k, t) = DartFn(k, t)
  BY DEF
    CodegenCpp!I32, CodegenCpp!U32, CodegenCpp!I64, CodegenCpp!F64, CodegenCpp!Bool,
    CodegenCpp!Str, CodegenCpp!U128, CodegenCpp!I128, CodegenCpp!Time, CodegenCpp!Ptr,
    CodegenCpp!Void, CodegenCpp!OrderStatus, CodegenCpp!Point, CodegenCpp!Rect,
    CodegenCpp!Counter, CodegenCpp!Opt, CodegenCpp!Vec, CodegenCpp!SetOf, CodegenCpp!Arr,
    CodegenCpp!Map, CodegenCpp!Tuple, CodegenCpp!DartFn, CodegenCpp!Progress,
    CodegenCpp!Plain, I32, U32, I64, F64, Bool, Str, U128, I128, Time, Ptr, Void,
    OrderStatus, Point, Rect, Counter, Opt, Vec, SetOf, Arr, Map, Tuple, DartFn, Progress,
    Plain

\* The same for the proxies of codegen_demo,
LEMMA CodegenDartTypes ==
  /\ CodegenDart!I32 = I32 /\ CodegenDart!U32 = U32 /\ CodegenDart!I64 = I64 /\
     CodegenDart!F64 = F64 /\ CodegenDart!Bool = Bool /\ CodegenDart!Str = Str /\
     CodegenDart!U128 = U128 /\ CodegenDart!I128 = I128 /\ CodegenDart!Time = Time /\
     CodegenDart!Ptr = Ptr /\ CodegenDart!Void = Void /\
     CodegenDart!OrderStatus = OrderStatus /\ CodegenDart!Point = Point /\
     CodegenDart!Rect = Rect /\ CodegenDart!Counter = Counter
  /\ \A t : CodegenDart!Opt(t) = Opt(t) /\ CodegenDart!Vec(t) = Vec(t) /\
            CodegenDart!SetOf(t) = SetOf(t) /\ CodegenDart!Tuple(t) = Tuple(t) /\
            CodegenDart!Progress(t) = Progress(t)
  /\ \A k, t : CodegenDart!Arr(k, t) = Arr(k, t) /\ CodegenDart!Map(k, t) = Map(k, t) /\
               CodegenDart!DartFn(k, t) = DartFn(k, t)
  BY DEF
    CodegenDart!I32, CodegenDart!U32, CodegenDart!I64, CodegenDart!F64, CodegenDart!Bool,
    CodegenDart!Str, CodegenDart!U128, CodegenDart!I128, CodegenDart!Time,
    CodegenDart!Ptr, CodegenDart!Void, CodegenDart!OrderStatus, CodegenDart!Point,
    CodegenDart!Rect, CodegenDart!Counter, CodegenDart!Opt, CodegenDart!Vec,
    CodegenDart!SetOf, CodegenDart!Arr, CodegenDart!Map, CodegenDart!Tuple,
    CodegenDart!DartFn, CodegenDart!Progress, CodegenDart!Plain, I32, U32, I64, F64, Bool,
    Str, U128, I128, Time, Ptr, Void, OrderStatus, Point, Rect, Counter, Opt, Vec, SetOf,
    Arr, Map, Tuple, DartFn, Progress, Plain

\* the dispatcher of foreign_runtime_demo,
LEMMA ForeignCppTypes ==
  /\ ForeignCpp!I32 = I32 /\ ForeignCpp!Str = Str
  /\ \A k, t : ForeignCpp!DartFn(k, t) = DartFn(k, t)
  BY DEF
    ForeignCpp!I32, ForeignCpp!Str, ForeignCpp!DartFn, ForeignCpp!Plain, I32, Str, DartFn,
    Plain

\* its proxies,
LEMMA ForeignDartTypes ==
  /\ ForeignDart!I32 = I32 /\ ForeignDart!Str = Str
  /\ \A k, t : ForeignDart!DartFn(k, t) = DartFn(k, t)
  BY DEF
    ForeignDart!I32, ForeignDart!Str, ForeignDart!DartFn, ForeignDart!Plain, I32, Str,
    DartFn, Plain

\* the dispatcher of multi_runtime_demo,
LEMMA MultiCppTypes ==
  /\ MultiCpp!I32 = I32 /\ MultiCpp!Str = Str
  /\ \A t : MultiCpp!Tuple(t) = Tuple(t)
  /\ \A k, t : MultiCpp!DartFn(k, t) = DartFn(k, t)
  BY DEF
    MultiCpp!I32, MultiCpp!Str, MultiCpp!Tuple, MultiCpp!DartFn, MultiCpp!Plain, I32, Str,
    Tuple, DartFn, Plain

\* its proxies,
LEMMA MultiDartTypes ==
  /\ MultiDart!I32 = I32 /\ MultiDart!Str = Str
  /\ \A t : MultiDart!Tuple(t) = Tuple(t)
  /\ \A k, t : MultiDart!DartFn(k, t) = DartFn(k, t)
  BY DEF
    MultiDart!I32, MultiDart!Str, MultiDart!Tuple, MultiDart!DartFn, MultiDart!Plain, I32,
    Str, Tuple, DartFn, Plain

\* the dispatcher of base_demo,
LEMMA BaseCppTypes ==
  /\ BaseCpp!I32 = I32 /\ BaseCpp!U64 = U64 /\ BaseCpp!Bool = Bool /\ BaseCpp!Str = Str /\
     BaseCpp!Blob = Blob /\ BaseCpp!I128 = I128 /\ BaseCpp!Void = Void /\
     BaseCpp!StatusCode = StatusCode /\ BaseCpp!Person = Person /\ BaseCpp!Counter = Counter
  /\ \A t : BaseCpp!Opt(t) = Opt(t) /\ BaseCpp!Vec(t) = Vec(t) /\
            BaseCpp!SetOf(t) = SetOf(t) /\ BaseCpp!Tuple(t) = Tuple(t)
  /\ \A k, t : BaseCpp!Arr(k, t) = Arr(k, t) /\ BaseCpp!Map(k, t) = Map(k, t) /\
               BaseCpp!DartFn(k, t) = DartFn(k, t)
  BY DEF
    BaseCpp!I32, BaseCpp!U64, BaseCpp!Bool, BaseCpp!Str, BaseCpp!Blob, BaseCpp!I128,
    BaseCpp!Void, BaseCpp!StatusCode, BaseCpp!Person, BaseCpp!Counter, BaseCpp!Opt,
    BaseCpp!Vec, BaseCpp!SetOf, BaseCpp!Arr, BaseCpp!Map, BaseCpp!Tuple, BaseCpp!DartFn,
    BaseCpp!Plain, I32, U64, Bool, Str, Blob, I128, Void, StatusCode, Person, Counter,
    Opt, Vec, SetOf, Arr, Map, Tuple, DartFn, Plain

\* and its proxies.
LEMMA BaseDartTypes ==
  /\ BaseDart!I32 = I32 /\ BaseDart!Bool = Bool /\ BaseDart!Str = Str /\
     BaseDart!Blob = Blob /\ BaseDart!I128 = I128 /\ BaseDart!Void = Void /\
     BaseDart!StatusCode = StatusCode /\ BaseDart!Person = Person /\
     BaseDart!Counter = Counter
  /\ \A t : BaseDart!Opt(t) = Opt(t) /\ BaseDart!Vec(t) = Vec(t) /\
            BaseDart!SetOf(t) = SetOf(t) /\ BaseDart!Tuple(t) = Tuple(t)
  /\ \A k, t : BaseDart!Arr(k, t) = Arr(k, t) /\ BaseDart!Map(k, t) = Map(k, t) /\
               BaseDart!DartFn(k, t) = DartFn(k, t)
  BY DEF
    BaseDart!I32, BaseDart!Bool, BaseDart!Str, BaseDart!Blob, BaseDart!I128,
    BaseDart!Void, BaseDart!StatusCode, BaseDart!Person, BaseDart!Counter, BaseDart!Opt,
    BaseDart!Vec, BaseDart!SetOf, BaseDart!Arr, BaseDart!Map, BaseDart!Tuple,
    BaseDart!DartFn, BaseDart!Plain, I32, Bool, Str, Blob, I128, Void, StatusCode, Person,
    Counter, Opt, Vec, SetOf, Arr, Map, Tuple, DartFn, Plain

\* Every row of codegen_demo with the proxy that calls it, by their common id
\* (dcb_generated.dart and wire_dispatch.cpp).  A method that both tables serve
\* stands twice, once with each of its rows.
LEMMA CodegenRows ==
  /\ FitsAsync(CodegenDart!sumSetOrdered, CodegenCpp!sum_set_ordered, 10142861)
  /\ FitsSync(CodegenDart!cloneWithOffset, CodegenCpp!cloneWithOffset, 36494560)
  /\ FitsAsync(CodegenDart!callDartFromWorkerA, CodegenCpp!call_dart_from_worker_a, 36798377)
  /\ FitsAsync(CodegenDart!collectAllDemo, CodegenCpp!collect_all_demo, 38208963)
  /\ FitsAsync(CodegenDart!sumScores, CodegenCpp!sum_scores, 66895156)
  /\ FitsAsync(CodegenDart!distance, CodegenCpp!distance, 75330037)
  /\ FitsAsync(CodegenDart!failNormal, CodegenCpp!fail_normal, 81397966)
  /\ FitsSync(CodegenDart!syncDownloadWithProgress, CodegenCpp!sync_download_with_progress, 88691087)
  /\ FitsAsync(CodegenDart!pairEcho, CodegenCpp!pair_echo, 237527086)
  /\ FitsAsync(CodegenDart!tupleEcho, CodegenCpp!tuple_echo, 243144110)
  /\ FitsAsync(CodegenDart!testForeignSleep, CodegenCpp!test_foreign_sleep, 286391769)
  /\ FitsAsync(CodegenDart!fanOut, CodegenCpp!fan_out, 332105081)
  /\ FitsAsync(CodegenDart!stopWorkers, CodegenCpp!stop_workers, 350574845)
  /\ FitsAsync(CodegenDart!callDartFromUv, CodegenCpp!call_dart_from_uv, 400156061)
  /\ FitsAsync(CodegenDart!stopUvWorker, CodegenCpp!stop_uv_worker, 408668229)
  /\ FitsAsync(CodegenDart!failAsync, CodegenCpp!fail_async, 414051157)
  /\ FitsAsync(CodegenDart!failStream, CodegenCpp!fail_stream, 444673125)
  /\ FitsAsync(CodegenDart!downloadWithProgress, CodegenCpp!download_with_progress, 463555789)
  /\ FitsAsync(CodegenDart!startUvWorker, CodegenCpp!start_uv_worker, 482550500)
  /\ FitsAsync(CodegenDart!maybeDouble, CodegenCpp!maybe_double, 489154044)
  /\ FitsAsync(CodegenDart!add, CodegenCpp!add, 513277594)
  /\ FitsSync(CodegenDart!bridgeVersion, CodegenCpp!bridge_version, 513280939)
  /\ FitsAsync(CodegenDart!sumArray, CodegenCpp!sum_array, 516316109)
  /\ FitsAsync(CodegenDart!testCbridgeInvoke, CodegenCpp!test_cbridge_invoke, 541474998)
  /\ FitsAsync(CodegenDart!testCbridgeAsync, CodegenCpp!test_cbridge_async, 577957429)
  /\ FitsAsync(CodegenDart!invokeRegistered, CodegenCpp!invoke_registered, 594957055)
  /\ FitsAsync(CodegenDart!sumScoresOrdered, CodegenCpp!sum_scores_ordered, 601014207)
  /\ FitsAsync(CodegenDart!echoBoolList, CodegenCpp!echo_bool_list, 608718626)
  /\ FitsAsync(CodegenDart!pingWorker, CodegenCpp!ping_worker, 686903527)
  /\ FitsAsync(CodegenDart!collectAnyCancelDemo, CodegenCpp!collect_any_cancel_demo, 727741271)
  /\ FitsAsync(CodegenDart!testForeignSleepLong, CodegenCpp!test_foreign_sleep_long, 738309320)
  /\ FitsSync(CodegenDart!cancelTask, CodegenCpp!cancel_task, 741187792)
  /\ FitsAsync(CodegenDart!pipeline, CodegenCpp!pipeline, 764074457)
  /\ FitsAsync(CodegenDart!incrementI64, CodegenCpp!increment_i64, 826193512)
  /\ FitsAsync(CodegenDart!testChannelServiceConcurrent, CodegenCpp!test_channel_service_concurrent, 859567955)
  /\ FitsAsync(CodegenDart!echoTime, CodegenCpp!echo_time, 861874896)
  /\ FitsAsync(CodegenDart!collectAllParaDemo, CodegenCpp!collect_all_para_demo, 888212641)
  /\ FitsAsync(CodegenDart!startWorkers, CodegenCpp!start_workers, 909664976)
  /\ FitsAsync(CodegenDart!cancellableTask, CodegenCpp!cancellable_task, 917187185)
  /\ FitsAsync(CodegenDart!optionalStatus, CodegenCpp!optional_status, 923880942)
  /\ FitsAsync(CodegenDart!echoList, CodegenCpp!echo_list, 923919167)
  /\ FitsAsync(CodegenDart!collectAllErrorDemo, CodegenCpp!collect_all_error_demo, 984657024)
  /\ FitsAsync(CodegenDart!invokeRegisteredAsync, CodegenCpp!invoke_registered_async, 999429777)
  /\ FitsAsync(CodegenDart!concatDartFn, CodegenCpp!concat_dart_fn, 1056101777)
  /\ FitsAsync(CodegenDart!testCbridgeInvokePureC, CodegenCpp!test_cbridge_invoke_pure_c, 1082486080)
  /\ FitsAsync(CodegenDart!scale, CodegenCpp!scale, 1132741135)
  /\ FitsAsync(CodegenDart!asyncEchoBytes, CodegenCpp!async_echo_bytes, 1143946787)
  /\ FitsAsync(CodegenDart!negateBool, CodegenCpp!negate_bool, 1187695424)
  /\ FitsSync(CodegenDart!failSync, CodegenCpp!fail_sync, 1225502033)
  /\ FitsSync(CodegenDart!isTaskRunning, CodegenCpp!is_task_running, 1229894954)
  /\ FitsAsync(CodegenDart!makeCounter, CodegenCpp!makeCounter, 1270341715)
  /\ FitsSync(CodegenDart!echoBytes, CodegenCpp!echo_bytes, 1287481420)
  /\ FitsAsync(CodegenDart!testCbridgeAsyncFail, CodegenCpp!test_cbridge_async_fail, 1312284767)
  /\ FitsAsync(CodegenDart!sleepGreeting, CodegenCpp!sleep_greeting, 1347623235)
  /\ FitsAsync(CodegenDart!echoU128, CodegenCpp!echo_u128, 1349826830)
  /\ FitsSync(CodegenDart!echoTimeSync, CodegenCpp!echo_time_sync, 1426479656)
  /\ FitsAsync(CodegenDart!callDartFromWorkerB, CodegenCpp!call_dart_from_worker_b, 1439916846)
  /\ FitsAsync(CodegenDart!uvCompute, CodegenCpp!uv_compute, 1444503764)
  /\ FitsAsync(CodegenDart!workerStream, CodegenCpp!worker_stream, 1504378116)
  /\ FitsAsync(CodegenDart!failNonStd, CodegenCpp!fail_non_std, 1517851511)
  /\ FitsAsync(CodegenDart!addCounters, CodegenCpp!addCounters, 1533879238)
  /\ FitsAsync(CodegenDart!incrementU32, CodegenCpp!increment_u32, 1597460230)
  /\ FitsAsync(CodegenDart!testForeignSleepCancel, CodegenCpp!test_foreign_sleep_cancel, 1614762534)
  /\ FitsAsync(CodegenDart!collectAllCancelDemo, CodegenCpp!collect_all_cancel_demo, 1616407596)
  /\ FitsAsync(CodegenDart!tickStream, CodegenCpp!tick_stream, 1673543649)
  /\ FitsAsync(CodegenDart!uvIntervalDemo, CodegenCpp!uv_interval_demo, 1695622618)
  /\ FitsSync(CodegenDart!registerDartFn, CodegenCpp!register_dart_fn, 1702006080)
  /\ FitsAsync(CodegenDart!collectAnyDemo, CodegenCpp!collect_any_demo, 1731712822)
  /\ FitsAsync(CodegenDart!askUv, CodegenCpp!ask_uv, 1739046069)
  /\ FitsAsync(CodegenDart!greetDartFn, CodegenCpp!greet_dart_fn, 1789823149)
  /\ FitsSync(CodegenDart!nestedCube, CodegenCpp!nested_cube, 1812101563)
  /\ FitsAsync(CodegenDart!sumSet, CodegenCpp!sum_set, 1869545367)
  /\ FitsAsync(CodegenDart!processMessage, CodegenCpp!process_message, 1886753811)
  /\ FitsAsync(CodegenDart!testCbridgeAsyncCancel, CodegenCpp!test_cbridge_async_cancel, 1895746721)
  /\ FitsAsync(CodegenDart!boundingBox, CodegenCpp!bounding_box, 1914574156)
  /\ FitsAsync(CodegenDart!testCbridgePureCCancel, CodegenCpp!test_cbridge_pure_c_cancel, 1924401821)
  /\ FitsAsync(CodegenDart!uvStream, CodegenCpp!uv_stream, 1946724813)
  /\ FitsAsync(CodegenDart!testChannelService, CodegenCpp!test_channel_service, 2018661287)
  /\ FitsAsync(CodegenDart!syncDartFnBlockingUs, CodegenCpp!sync_dart_fn_blocking_us, 2026522337)
  /\ FitsAsync(CodegenDart!echoI128, CodegenCpp!echo_i128, 2053397325)
  /\ FitsAsync(CodegenDart!optionalString, CodegenCpp!optional_string, 2057196713)
  /\ FitsAsync(CodegenDart!nextStatus, CodegenCpp!next_status, 2129366549)
  /\ FitsSync(CodegenDart!counterNewWithInitialValue, CodegenCpp!Counter_new, 546811180)
  /\ FitsSync(CodegenDart!counterNew, CodegenCpp!Counter_make, 1174608690)
  /\ FitsAsync(CodegenDart!counterValue, CodegenCpp!Counter_value, 1819503097)
  /\ FitsSync(CodegenDart!counterValueSync, CodegenCpp!Counter_valueSync, 190346512)
  /\ FitsSync(CodegenDart!counterToString, CodegenCpp!Counter_toString, 1826397364)
  /\ FitsAsync(CodegenDart!counterIncrement, CodegenCpp!Counter_increment, 1534254823)
  /\ FitsAsync(CodegenDart!counterSleepAndGet, CodegenCpp!Counter_sleepAndGet, 809700219)
  /\ FitsAsync(CodegenDart!counterAddList, CodegenCpp!Counter_addList, 1623490793)
  /\ FitsAsync(CodegenDart!counterSetValue, CodegenCpp!Counter_setValue, 1197060560)
  /\ FitsAsync(CodegenDart!counterDuplicate, CodegenCpp!Counter_duplicate, 1724183534)
  /\ FitsAsync(CodegenDart!counterAddTo, CodegenCpp!Counter_addTo, 479175197)
  /\ FitsSync(CodegenDart!counterSum, CodegenCpp!Counter_sum, 1521970656)
  /\ FitsAsync(CodegenDart!counterGreetDartFn, CodegenCpp!Counter_greetDartFn, 1190014947)
  /\ FitsAsync(CodegenDart!counterTickStream, CodegenCpp!Counter_tickStream, 550621099)
  /\ FitsSync(CodegenDart!counterAliveCount, CodegenCpp!Counter_aliveCount, 1338263248)
  /\ FitsSync(CodegenDart!cloneWithOffset, CodegenCpp!sync_cloneWithOffset, 36494560)
  /\ FitsSync(CodegenDart!syncDownloadWithProgress, CodegenCpp!sync_sync_download_with_progress, 88691087)
  /\ FitsSync(CodegenDart!bridgeVersion, CodegenCpp!sync_bridge_version, 513280939)
  /\ FitsSync(CodegenDart!cancelTask, CodegenCpp!sync_cancel_task, 741187792)
  /\ FitsSync(CodegenDart!failSync, CodegenCpp!sync_fail_sync, 1225502033)
  /\ FitsSync(CodegenDart!isTaskRunning, CodegenCpp!sync_is_task_running, 1229894954)
  /\ FitsSync(CodegenDart!echoBytes, CodegenCpp!sync_echo_bytes, 1287481420)
  /\ FitsSync(CodegenDart!echoTimeSync, CodegenCpp!sync_echo_time_sync, 1426479656)
  /\ FitsSync(CodegenDart!registerDartFn, CodegenCpp!sync_register_dart_fn, 1702006080)
  /\ FitsSync(CodegenDart!nestedCube, CodegenCpp!sync_nested_cube, 1812101563)
  /\ FitsSync(CodegenDart!counterNewWithInitialValue, CodegenCpp!sync_Counter_new, 546811180)
  /\ FitsSync(CodegenDart!counterNew, CodegenCpp!sync_Counter_make, 1174608690)
  /\ FitsSync(CodegenDart!counterValueSync, CodegenCpp!sync_Counter_valueSync, 190346512)
  /\ FitsSync(CodegenDart!counterToString, CodegenCpp!sync_Counter_toString, 1826397364)
  /\ FitsSync(CodegenDart!counterSum, CodegenCpp!sync_Counter_sum, 1521970656)
  /\ FitsSync(CodegenDart!counterAliveCount, CodegenCpp!sync_Counter_aliveCount, 1338263248)
<1>1. /\ FitsAsync(CodegenDart!sumSetOrdered, CodegenCpp!sum_set_ordered, 10142861)
      /\ FitsSync(CodegenDart!cloneWithOffset, CodegenCpp!cloneWithOffset, 36494560)
      /\ FitsAsync(CodegenDart!callDartFromWorkerA, CodegenCpp!call_dart_from_worker_a, 36798377)
      /\ FitsAsync(CodegenDart!collectAllDemo, CodegenCpp!collect_all_demo, 38208963)
      /\ FitsAsync(CodegenDart!sumScores, CodegenCpp!sum_scores, 66895156)
      /\ FitsAsync(CodegenDart!distance, CodegenCpp!distance, 75330037)
      /\ FitsAsync(CodegenDart!failNormal, CodegenCpp!fail_normal, 81397966)
      /\ FitsSync(CodegenDart!syncDownloadWithProgress, CodegenCpp!sync_download_with_progress, 88691087)
      /\ FitsAsync(CodegenDart!pairEcho, CodegenCpp!pair_echo, 237527086)
      /\ FitsAsync(CodegenDart!tupleEcho, CodegenCpp!tuple_echo, 243144110)
      /\ FitsAsync(CodegenDart!testForeignSleep, CodegenCpp!test_foreign_sleep, 286391769)
      /\ FitsAsync(CodegenDart!fanOut, CodegenCpp!fan_out, 332105081)
  BY CodegenCppTypes, CodegenDartTypes, SMTT(60) DEF Id, Runs, Fits, FitsAsync, FitsSync, Unknown,
    StringFn, FnTypes, SyncTypes, ArgTypes, AnswerTypes,
    CodegenDart!sumSetOrdered, CodegenCpp!sum_set_ordered, CodegenDart!cloneWithOffset,
    CodegenCpp!cloneWithOffset, CodegenDart!callDartFromWorkerA,
    CodegenCpp!call_dart_from_worker_a, CodegenDart!collectAllDemo,
    CodegenCpp!collect_all_demo, CodegenDart!sumScores, CodegenCpp!sum_scores,
    CodegenDart!distance, CodegenCpp!distance, CodegenDart!failNormal,
    CodegenCpp!fail_normal, CodegenDart!syncDownloadWithProgress,
    CodegenCpp!sync_download_with_progress, CodegenDart!pairEcho, CodegenCpp!pair_echo,
    CodegenDart!tupleEcho, CodegenCpp!tuple_echo, CodegenDart!testForeignSleep,
    CodegenCpp!test_foreign_sleep, CodegenDart!fanOut, CodegenCpp!fan_out,
    CodegenCpp!Task, CodegenCpp!Pool, CodegenCpp!Inline, CodegenCpp!Stream,
    CodegenCpp!Row, CodegenDart!Async, CodegenDart!Sync, CodegenDart!OpenStream,
    CodegenDart!Row
<1>2. /\ FitsAsync(CodegenDart!stopWorkers, CodegenCpp!stop_workers, 350574845)
      /\ FitsAsync(CodegenDart!callDartFromUv, CodegenCpp!call_dart_from_uv, 400156061)
      /\ FitsAsync(CodegenDart!stopUvWorker, CodegenCpp!stop_uv_worker, 408668229)
      /\ FitsAsync(CodegenDart!failAsync, CodegenCpp!fail_async, 414051157)
      /\ FitsAsync(CodegenDart!failStream, CodegenCpp!fail_stream, 444673125)
      /\ FitsAsync(CodegenDart!downloadWithProgress, CodegenCpp!download_with_progress, 463555789)
      /\ FitsAsync(CodegenDart!startUvWorker, CodegenCpp!start_uv_worker, 482550500)
      /\ FitsAsync(CodegenDart!maybeDouble, CodegenCpp!maybe_double, 489154044)
      /\ FitsAsync(CodegenDart!add, CodegenCpp!add, 513277594)
      /\ FitsSync(CodegenDart!bridgeVersion, CodegenCpp!bridge_version, 513280939)
      /\ FitsAsync(CodegenDart!sumArray, CodegenCpp!sum_array, 516316109)
      /\ FitsAsync(CodegenDart!testCbridgeInvoke, CodegenCpp!test_cbridge_invoke, 541474998)
  BY CodegenCppTypes, CodegenDartTypes, SMTT(60) DEF Id, Runs, Fits, FitsAsync, FitsSync, Unknown,
    StringFn, FnTypes, SyncTypes, ArgTypes, AnswerTypes,
    CodegenDart!stopWorkers, CodegenCpp!stop_workers, CodegenDart!callDartFromUv,
    CodegenCpp!call_dart_from_uv, CodegenDart!stopUvWorker, CodegenCpp!stop_uv_worker,
    CodegenDart!failAsync, CodegenCpp!fail_async, CodegenDart!failStream,
    CodegenCpp!fail_stream, CodegenDart!downloadWithProgress,
    CodegenCpp!download_with_progress, CodegenDart!startUvWorker,
    CodegenCpp!start_uv_worker, CodegenDart!maybeDouble, CodegenCpp!maybe_double,
    CodegenDart!add, CodegenCpp!add, CodegenDart!bridgeVersion, CodegenCpp!bridge_version,
    CodegenDart!sumArray, CodegenCpp!sum_array, CodegenDart!testCbridgeInvoke,
    CodegenCpp!test_cbridge_invoke, CodegenCpp!Task, CodegenCpp!Pool, CodegenCpp!Inline,
    CodegenCpp!Stream, CodegenCpp!Row, CodegenDart!Async, CodegenDart!Sync,
    CodegenDart!OpenStream, CodegenDart!Row
<1>3. /\ FitsAsync(CodegenDart!testCbridgeAsync, CodegenCpp!test_cbridge_async, 577957429)
      /\ FitsAsync(CodegenDart!invokeRegistered, CodegenCpp!invoke_registered, 594957055)
      /\ FitsAsync(CodegenDart!sumScoresOrdered, CodegenCpp!sum_scores_ordered, 601014207)
      /\ FitsAsync(CodegenDart!echoBoolList, CodegenCpp!echo_bool_list, 608718626)
      /\ FitsAsync(CodegenDart!pingWorker, CodegenCpp!ping_worker, 686903527)
      /\ FitsAsync(CodegenDart!collectAnyCancelDemo, CodegenCpp!collect_any_cancel_demo, 727741271)
      /\ FitsAsync(CodegenDart!testForeignSleepLong, CodegenCpp!test_foreign_sleep_long, 738309320)
      /\ FitsSync(CodegenDart!cancelTask, CodegenCpp!cancel_task, 741187792)
      /\ FitsAsync(CodegenDart!pipeline, CodegenCpp!pipeline, 764074457)
      /\ FitsAsync(CodegenDart!incrementI64, CodegenCpp!increment_i64, 826193512)
      /\ FitsAsync(CodegenDart!testChannelServiceConcurrent, CodegenCpp!test_channel_service_concurrent, 859567955)
      /\ FitsAsync(CodegenDart!echoTime, CodegenCpp!echo_time, 861874896)
  BY CodegenCppTypes, CodegenDartTypes, SMTT(60) DEF Id, Runs, Fits, FitsAsync, FitsSync, Unknown,
    StringFn, FnTypes, SyncTypes, ArgTypes, AnswerTypes,
    CodegenDart!testCbridgeAsync, CodegenCpp!test_cbridge_async,
    CodegenDart!invokeRegistered, CodegenCpp!invoke_registered,
    CodegenDart!sumScoresOrdered, CodegenCpp!sum_scores_ordered, CodegenDart!echoBoolList,
    CodegenCpp!echo_bool_list, CodegenDart!pingWorker, CodegenCpp!ping_worker,
    CodegenDart!collectAnyCancelDemo, CodegenCpp!collect_any_cancel_demo,
    CodegenDart!testForeignSleepLong, CodegenCpp!test_foreign_sleep_long,
    CodegenDart!cancelTask, CodegenCpp!cancel_task, CodegenDart!pipeline,
    CodegenCpp!pipeline, CodegenDart!incrementI64, CodegenCpp!increment_i64,
    CodegenDart!testChannelServiceConcurrent, CodegenCpp!test_channel_service_concurrent,
    CodegenDart!echoTime, CodegenCpp!echo_time, CodegenCpp!Task, CodegenCpp!Pool,
    CodegenCpp!Inline, CodegenCpp!Stream, CodegenCpp!Row, CodegenDart!Async,
    CodegenDart!Sync, CodegenDart!OpenStream, CodegenDart!Row
<1>4. /\ FitsAsync(CodegenDart!collectAllParaDemo, CodegenCpp!collect_all_para_demo, 888212641)
      /\ FitsAsync(CodegenDart!startWorkers, CodegenCpp!start_workers, 909664976)
      /\ FitsAsync(CodegenDart!cancellableTask, CodegenCpp!cancellable_task, 917187185)
      /\ FitsAsync(CodegenDart!optionalStatus, CodegenCpp!optional_status, 923880942)
      /\ FitsAsync(CodegenDart!echoList, CodegenCpp!echo_list, 923919167)
      /\ FitsAsync(CodegenDart!collectAllErrorDemo, CodegenCpp!collect_all_error_demo, 984657024)
      /\ FitsAsync(CodegenDart!invokeRegisteredAsync, CodegenCpp!invoke_registered_async, 999429777)
      /\ FitsAsync(CodegenDart!concatDartFn, CodegenCpp!concat_dart_fn, 1056101777)
      /\ FitsAsync(CodegenDart!testCbridgeInvokePureC, CodegenCpp!test_cbridge_invoke_pure_c, 1082486080)
      /\ FitsAsync(CodegenDart!scale, CodegenCpp!scale, 1132741135)
      /\ FitsAsync(CodegenDart!asyncEchoBytes, CodegenCpp!async_echo_bytes, 1143946787)
      /\ FitsAsync(CodegenDart!negateBool, CodegenCpp!negate_bool, 1187695424)
  BY CodegenCppTypes, CodegenDartTypes, SMTT(60) DEF Id, Runs, Fits, FitsAsync, FitsSync, Unknown,
    StringFn, FnTypes, SyncTypes, ArgTypes, AnswerTypes,
    CodegenDart!collectAllParaDemo, CodegenCpp!collect_all_para_demo,
    CodegenDart!startWorkers, CodegenCpp!start_workers, CodegenDart!cancellableTask,
    CodegenCpp!cancellable_task, CodegenDart!optionalStatus, CodegenCpp!optional_status,
    CodegenDart!echoList, CodegenCpp!echo_list, CodegenDart!collectAllErrorDemo,
    CodegenCpp!collect_all_error_demo, CodegenDart!invokeRegisteredAsync,
    CodegenCpp!invoke_registered_async, CodegenDart!concatDartFn,
    CodegenCpp!concat_dart_fn, CodegenDart!testCbridgeInvokePureC,
    CodegenCpp!test_cbridge_invoke_pure_c, CodegenDart!scale, CodegenCpp!scale,
    CodegenDart!asyncEchoBytes, CodegenCpp!async_echo_bytes, CodegenDart!negateBool,
    CodegenCpp!negate_bool, CodegenCpp!Task, CodegenCpp!Pool, CodegenCpp!Inline,
    CodegenCpp!Stream, CodegenCpp!Row, CodegenDart!Async, CodegenDart!Sync,
    CodegenDart!OpenStream, CodegenDart!Row
<1>5. /\ FitsSync(CodegenDart!failSync, CodegenCpp!fail_sync, 1225502033)
      /\ FitsSync(CodegenDart!isTaskRunning, CodegenCpp!is_task_running, 1229894954)
      /\ FitsAsync(CodegenDart!makeCounter, CodegenCpp!makeCounter, 1270341715)
      /\ FitsSync(CodegenDart!echoBytes, CodegenCpp!echo_bytes, 1287481420)
      /\ FitsAsync(CodegenDart!testCbridgeAsyncFail, CodegenCpp!test_cbridge_async_fail, 1312284767)
      /\ FitsAsync(CodegenDart!sleepGreeting, CodegenCpp!sleep_greeting, 1347623235)
      /\ FitsAsync(CodegenDart!echoU128, CodegenCpp!echo_u128, 1349826830)
      /\ FitsSync(CodegenDart!echoTimeSync, CodegenCpp!echo_time_sync, 1426479656)
      /\ FitsAsync(CodegenDart!callDartFromWorkerB, CodegenCpp!call_dart_from_worker_b, 1439916846)
      /\ FitsAsync(CodegenDart!uvCompute, CodegenCpp!uv_compute, 1444503764)
      /\ FitsAsync(CodegenDart!workerStream, CodegenCpp!worker_stream, 1504378116)
      /\ FitsAsync(CodegenDart!failNonStd, CodegenCpp!fail_non_std, 1517851511)
  BY CodegenCppTypes, CodegenDartTypes, SMTT(60) DEF Id, Runs, Fits, FitsAsync, FitsSync, Unknown,
    StringFn, FnTypes, SyncTypes, ArgTypes, AnswerTypes,
    CodegenDart!failSync, CodegenCpp!fail_sync, CodegenDart!isTaskRunning,
    CodegenCpp!is_task_running, CodegenDart!makeCounter, CodegenCpp!makeCounter,
    CodegenDart!echoBytes, CodegenCpp!echo_bytes, CodegenDart!testCbridgeAsyncFail,
    CodegenCpp!test_cbridge_async_fail, CodegenDart!sleepGreeting,
    CodegenCpp!sleep_greeting, CodegenDart!echoU128, CodegenCpp!echo_u128,
    CodegenDart!echoTimeSync, CodegenCpp!echo_time_sync, CodegenDart!callDartFromWorkerB,
    CodegenCpp!call_dart_from_worker_b, CodegenDart!uvCompute, CodegenCpp!uv_compute,
    CodegenDart!workerStream, CodegenCpp!worker_stream, CodegenDart!failNonStd,
    CodegenCpp!fail_non_std, CodegenCpp!Task, CodegenCpp!Pool, CodegenCpp!Inline,
    CodegenCpp!Stream, CodegenCpp!Row, CodegenDart!Async, CodegenDart!Sync,
    CodegenDart!OpenStream, CodegenDart!Row
<1>6. /\ FitsAsync(CodegenDart!addCounters, CodegenCpp!addCounters, 1533879238)
      /\ FitsAsync(CodegenDart!incrementU32, CodegenCpp!increment_u32, 1597460230)
      /\ FitsAsync(CodegenDart!testForeignSleepCancel, CodegenCpp!test_foreign_sleep_cancel, 1614762534)
      /\ FitsAsync(CodegenDart!collectAllCancelDemo, CodegenCpp!collect_all_cancel_demo, 1616407596)
      /\ FitsAsync(CodegenDart!tickStream, CodegenCpp!tick_stream, 1673543649)
      /\ FitsAsync(CodegenDart!uvIntervalDemo, CodegenCpp!uv_interval_demo, 1695622618)
      /\ FitsSync(CodegenDart!registerDartFn, CodegenCpp!register_dart_fn, 1702006080)
      /\ FitsAsync(CodegenDart!collectAnyDemo, CodegenCpp!collect_any_demo, 1731712822)
      /\ FitsAsync(CodegenDart!askUv, CodegenCpp!ask_uv, 1739046069)
      /\ FitsAsync(CodegenDart!greetDartFn, CodegenCpp!greet_dart_fn, 1789823149)
      /\ FitsSync(CodegenDart!nestedCube, CodegenCpp!nested_cube, 1812101563)
      /\ FitsAsync(CodegenDart!sumSet, CodegenCpp!sum_set, 1869545367)
  BY CodegenCppTypes, CodegenDartTypes, SMTT(60) DEF Id, Runs, Fits, FitsAsync, FitsSync, Unknown,
    StringFn, FnTypes, SyncTypes, ArgTypes, AnswerTypes,
    CodegenDart!addCounters, CodegenCpp!addCounters, CodegenDart!incrementU32,
    CodegenCpp!increment_u32, CodegenDart!testForeignSleepCancel,
    CodegenCpp!test_foreign_sleep_cancel, CodegenDart!collectAllCancelDemo,
    CodegenCpp!collect_all_cancel_demo, CodegenDart!tickStream, CodegenCpp!tick_stream,
    CodegenDart!uvIntervalDemo, CodegenCpp!uv_interval_demo, CodegenDart!registerDartFn,
    CodegenCpp!register_dart_fn, CodegenDart!collectAnyDemo, CodegenCpp!collect_any_demo,
    CodegenDart!askUv, CodegenCpp!ask_uv, CodegenDart!greetDartFn,
    CodegenCpp!greet_dart_fn, CodegenDart!nestedCube, CodegenCpp!nested_cube,
    CodegenDart!sumSet, CodegenCpp!sum_set, CodegenCpp!Task, CodegenCpp!Pool,
    CodegenCpp!Inline, CodegenCpp!Stream, CodegenCpp!Row, CodegenDart!Async,
    CodegenDart!Sync, CodegenDart!OpenStream, CodegenDart!Row
<1>7. /\ FitsAsync(CodegenDart!processMessage, CodegenCpp!process_message, 1886753811)
      /\ FitsAsync(CodegenDart!testCbridgeAsyncCancel, CodegenCpp!test_cbridge_async_cancel, 1895746721)
      /\ FitsAsync(CodegenDart!boundingBox, CodegenCpp!bounding_box, 1914574156)
      /\ FitsAsync(CodegenDart!testCbridgePureCCancel, CodegenCpp!test_cbridge_pure_c_cancel, 1924401821)
      /\ FitsAsync(CodegenDart!uvStream, CodegenCpp!uv_stream, 1946724813)
      /\ FitsAsync(CodegenDart!testChannelService, CodegenCpp!test_channel_service, 2018661287)
      /\ FitsAsync(CodegenDart!syncDartFnBlockingUs, CodegenCpp!sync_dart_fn_blocking_us, 2026522337)
      /\ FitsAsync(CodegenDart!echoI128, CodegenCpp!echo_i128, 2053397325)
      /\ FitsAsync(CodegenDart!optionalString, CodegenCpp!optional_string, 2057196713)
      /\ FitsAsync(CodegenDart!nextStatus, CodegenCpp!next_status, 2129366549)
      /\ FitsSync(CodegenDart!counterNewWithInitialValue, CodegenCpp!Counter_new, 546811180)
      /\ FitsSync(CodegenDart!counterNew, CodegenCpp!Counter_make, 1174608690)
  BY CodegenCppTypes, CodegenDartTypes, SMTT(60) DEF Id, Runs, Fits, FitsAsync, FitsSync, Unknown,
    StringFn, FnTypes, SyncTypes, ArgTypes, AnswerTypes,
    CodegenDart!processMessage, CodegenCpp!process_message,
    CodegenDart!testCbridgeAsyncCancel, CodegenCpp!test_cbridge_async_cancel,
    CodegenDart!boundingBox, CodegenCpp!bounding_box, CodegenDart!testCbridgePureCCancel,
    CodegenCpp!test_cbridge_pure_c_cancel, CodegenDart!uvStream, CodegenCpp!uv_stream,
    CodegenDart!testChannelService, CodegenCpp!test_channel_service,
    CodegenDart!syncDartFnBlockingUs, CodegenCpp!sync_dart_fn_blocking_us,
    CodegenDart!echoI128, CodegenCpp!echo_i128, CodegenDart!optionalString,
    CodegenCpp!optional_string, CodegenDart!nextStatus, CodegenCpp!next_status,
    CodegenDart!counterNewWithInitialValue, CodegenCpp!Counter_new,
    CodegenDart!counterNew, CodegenCpp!Counter_make, CodegenCpp!Task, CodegenCpp!Pool,
    CodegenCpp!Inline, CodegenCpp!Stream, CodegenCpp!Row, CodegenDart!Async,
    CodegenDart!Sync, CodegenDart!OpenStream, CodegenDart!Row
<1>8. /\ FitsAsync(CodegenDart!counterValue, CodegenCpp!Counter_value, 1819503097)
      /\ FitsSync(CodegenDart!counterValueSync, CodegenCpp!Counter_valueSync, 190346512)
      /\ FitsSync(CodegenDart!counterToString, CodegenCpp!Counter_toString, 1826397364)
      /\ FitsAsync(CodegenDart!counterIncrement, CodegenCpp!Counter_increment, 1534254823)
      /\ FitsAsync(CodegenDart!counterSleepAndGet, CodegenCpp!Counter_sleepAndGet, 809700219)
      /\ FitsAsync(CodegenDart!counterAddList, CodegenCpp!Counter_addList, 1623490793)
      /\ FitsAsync(CodegenDart!counterSetValue, CodegenCpp!Counter_setValue, 1197060560)
      /\ FitsAsync(CodegenDart!counterDuplicate, CodegenCpp!Counter_duplicate, 1724183534)
      /\ FitsAsync(CodegenDart!counterAddTo, CodegenCpp!Counter_addTo, 479175197)
      /\ FitsSync(CodegenDart!counterSum, CodegenCpp!Counter_sum, 1521970656)
      /\ FitsAsync(CodegenDart!counterGreetDartFn, CodegenCpp!Counter_greetDartFn, 1190014947)
      /\ FitsAsync(CodegenDart!counterTickStream, CodegenCpp!Counter_tickStream, 550621099)
  BY CodegenCppTypes, CodegenDartTypes, SMTT(60) DEF Id, Runs, Fits, FitsAsync, FitsSync, Unknown,
    StringFn, FnTypes, SyncTypes, ArgTypes, AnswerTypes,
    CodegenDart!counterValue, CodegenCpp!Counter_value, CodegenDart!counterValueSync,
    CodegenCpp!Counter_valueSync, CodegenDart!counterToString,
    CodegenCpp!Counter_toString, CodegenDart!counterIncrement,
    CodegenCpp!Counter_increment, CodegenDart!counterSleepAndGet,
    CodegenCpp!Counter_sleepAndGet, CodegenDart!counterAddList,
    CodegenCpp!Counter_addList, CodegenDart!counterSetValue, CodegenCpp!Counter_setValue,
    CodegenDart!counterDuplicate, CodegenCpp!Counter_duplicate, CodegenDart!counterAddTo,
    CodegenCpp!Counter_addTo, CodegenDart!counterSum, CodegenCpp!Counter_sum,
    CodegenDart!counterGreetDartFn, CodegenCpp!Counter_greetDartFn,
    CodegenDart!counterTickStream, CodegenCpp!Counter_tickStream, CodegenCpp!Task,
    CodegenCpp!Pool, CodegenCpp!Inline, CodegenCpp!Stream, CodegenCpp!Row,
    CodegenDart!Async, CodegenDart!Sync, CodegenDart!OpenStream, CodegenDart!Row
<1>9. /\ FitsSync(CodegenDart!counterAliveCount, CodegenCpp!Counter_aliveCount, 1338263248)
      /\ FitsSync(CodegenDart!cloneWithOffset, CodegenCpp!sync_cloneWithOffset, 36494560)
      /\ FitsSync(CodegenDart!syncDownloadWithProgress, CodegenCpp!sync_sync_download_with_progress, 88691087)
      /\ FitsSync(CodegenDart!bridgeVersion, CodegenCpp!sync_bridge_version, 513280939)
      /\ FitsSync(CodegenDart!cancelTask, CodegenCpp!sync_cancel_task, 741187792)
      /\ FitsSync(CodegenDart!failSync, CodegenCpp!sync_fail_sync, 1225502033)
      /\ FitsSync(CodegenDart!isTaskRunning, CodegenCpp!sync_is_task_running, 1229894954)
      /\ FitsSync(CodegenDart!echoBytes, CodegenCpp!sync_echo_bytes, 1287481420)
      /\ FitsSync(CodegenDart!echoTimeSync, CodegenCpp!sync_echo_time_sync, 1426479656)
      /\ FitsSync(CodegenDart!registerDartFn, CodegenCpp!sync_register_dart_fn, 1702006080)
      /\ FitsSync(CodegenDart!nestedCube, CodegenCpp!sync_nested_cube, 1812101563)
      /\ FitsSync(CodegenDart!counterNewWithInitialValue, CodegenCpp!sync_Counter_new, 546811180)
  BY CodegenCppTypes, CodegenDartTypes, SMTT(60) DEF Id, Runs, Fits, FitsAsync, FitsSync, Unknown,
    StringFn, FnTypes, SyncTypes, ArgTypes, AnswerTypes,
    CodegenDart!counterAliveCount, CodegenCpp!Counter_aliveCount,
    CodegenDart!cloneWithOffset, CodegenCpp!sync_cloneWithOffset,
    CodegenDart!syncDownloadWithProgress, CodegenCpp!sync_sync_download_with_progress,
    CodegenDart!bridgeVersion, CodegenCpp!sync_bridge_version, CodegenDart!cancelTask,
    CodegenCpp!sync_cancel_task, CodegenDart!failSync, CodegenCpp!sync_fail_sync,
    CodegenDart!isTaskRunning, CodegenCpp!sync_is_task_running, CodegenDart!echoBytes,
    CodegenCpp!sync_echo_bytes, CodegenDart!echoTimeSync, CodegenCpp!sync_echo_time_sync,
    CodegenDart!registerDartFn, CodegenCpp!sync_register_dart_fn, CodegenDart!nestedCube,
    CodegenCpp!sync_nested_cube, CodegenDart!counterNewWithInitialValue,
    CodegenCpp!sync_Counter_new, CodegenCpp!Task, CodegenCpp!Pool, CodegenCpp!Inline,
    CodegenCpp!Stream, CodegenCpp!Row, CodegenDart!Async, CodegenDart!Sync,
    CodegenDart!OpenStream, CodegenDart!Row
<1>10. /\ FitsSync(CodegenDart!counterNew, CodegenCpp!sync_Counter_make, 1174608690)
      /\ FitsSync(CodegenDart!counterValueSync, CodegenCpp!sync_Counter_valueSync, 190346512)
      /\ FitsSync(CodegenDart!counterToString, CodegenCpp!sync_Counter_toString, 1826397364)
      /\ FitsSync(CodegenDart!counterSum, CodegenCpp!sync_Counter_sum, 1521970656)
      /\ FitsSync(CodegenDart!counterAliveCount, CodegenCpp!sync_Counter_aliveCount, 1338263248)
  BY CodegenCppTypes, CodegenDartTypes, SMTT(60) DEF Id, Runs, Fits, FitsAsync, FitsSync, Unknown,
    StringFn, FnTypes, SyncTypes, ArgTypes, AnswerTypes,
    CodegenDart!counterNew, CodegenCpp!sync_Counter_make, CodegenDart!counterValueSync,
    CodegenCpp!sync_Counter_valueSync, CodegenDart!counterToString,
    CodegenCpp!sync_Counter_toString, CodegenDart!counterSum, CodegenCpp!sync_Counter_sum,
    CodegenDart!counterAliveCount, CodegenCpp!sync_Counter_aliveCount, CodegenCpp!Task,
    CodegenCpp!Pool, CodegenCpp!Inline, CodegenCpp!Stream, CodegenCpp!Row,
    CodegenDart!Async, CodegenDart!Sync, CodegenDart!OpenStream, CodegenDart!Row
<1> QED BY <1>1, <1>2, <1>3, <1>4, <1>5, <1>6, <1>7, <1>8, <1>9, <1>10

\* Every row of foreign_runtime_demo with the proxy that calls it.
LEMMA ForeignRows ==
  /\ FitsAsync(ForeignDart!startUvWorker, ForeignCpp!start_uv_worker, 18716410)
  /\ FitsAsync(ForeignDart!callDartFromUv, ForeignCpp!call_dart_from_uv, 201331851)
  /\ FitsAsync(ForeignDart!testCbridgeInvoke, ForeignCpp!test_cbridge_invoke, 300843582)
  /\ FitsAsync(ForeignDart!uvCompute, ForeignCpp!uv_compute, 460040803)
  /\ FitsAsync(ForeignDart!testChannelServiceConcurrent, ForeignCpp!test_channel_service_concurrent, 595582421)
  /\ FitsAsync(ForeignDart!uvStream, ForeignCpp!uv_stream, 828415216)
  /\ FitsAsync(ForeignDart!testCbridgeAsyncFail, ForeignCpp!test_cbridge_async_fail, 1096234678)
  /\ FitsAsync(ForeignDart!testChannelService, ForeignCpp!test_channel_service, 1620642776)
  /\ FitsAsync(ForeignDart!testCbridgeAsync, ForeignCpp!test_cbridge_async, 1657238865)
  /\ FitsAsync(ForeignDart!askUv, ForeignCpp!ask_uv, 2040169010)
  /\ FitsAsync(ForeignDart!stopUvWorker, ForeignCpp!stop_uv_worker, 2048427889)
  /\ FitsAsync(ForeignDart!testCbridgeAsyncCancel, ForeignCpp!test_cbridge_async_cancel, 2117983701)
<1>1. /\ FitsAsync(ForeignDart!startUvWorker, ForeignCpp!start_uv_worker, 18716410)
      /\ FitsAsync(ForeignDart!callDartFromUv, ForeignCpp!call_dart_from_uv, 201331851)
      /\ FitsAsync(ForeignDart!testCbridgeInvoke, ForeignCpp!test_cbridge_invoke, 300843582)
      /\ FitsAsync(ForeignDart!uvCompute, ForeignCpp!uv_compute, 460040803)
      /\ FitsAsync(ForeignDart!testChannelServiceConcurrent, ForeignCpp!test_channel_service_concurrent, 595582421)
      /\ FitsAsync(ForeignDart!uvStream, ForeignCpp!uv_stream, 828415216)
      /\ FitsAsync(ForeignDart!testCbridgeAsyncFail, ForeignCpp!test_cbridge_async_fail, 1096234678)
      /\ FitsAsync(ForeignDart!testChannelService, ForeignCpp!test_channel_service, 1620642776)
      /\ FitsAsync(ForeignDart!testCbridgeAsync, ForeignCpp!test_cbridge_async, 1657238865)
      /\ FitsAsync(ForeignDart!askUv, ForeignCpp!ask_uv, 2040169010)
      /\ FitsAsync(ForeignDart!stopUvWorker, ForeignCpp!stop_uv_worker, 2048427889)
      /\ FitsAsync(ForeignDart!testCbridgeAsyncCancel, ForeignCpp!test_cbridge_async_cancel, 2117983701)
  BY ForeignCppTypes, ForeignDartTypes, SMTT(60) DEF Id, Runs, Fits, FitsAsync, FitsSync, Unknown,
    StringFn, FnTypes, SyncTypes, ArgTypes, AnswerTypes,
    ForeignDart!startUvWorker, ForeignCpp!start_uv_worker, ForeignDart!callDartFromUv,
    ForeignCpp!call_dart_from_uv, ForeignDart!testCbridgeInvoke,
    ForeignCpp!test_cbridge_invoke, ForeignDart!uvCompute, ForeignCpp!uv_compute,
    ForeignDart!testChannelServiceConcurrent, ForeignCpp!test_channel_service_concurrent,
    ForeignDart!uvStream, ForeignCpp!uv_stream, ForeignDart!testCbridgeAsyncFail,
    ForeignCpp!test_cbridge_async_fail, ForeignDart!testChannelService,
    ForeignCpp!test_channel_service, ForeignDart!testCbridgeAsync,
    ForeignCpp!test_cbridge_async, ForeignDart!askUv, ForeignCpp!ask_uv,
    ForeignDart!stopUvWorker, ForeignCpp!stop_uv_worker,
    ForeignDart!testCbridgeAsyncCancel, ForeignCpp!test_cbridge_async_cancel,
    ForeignCpp!Task, ForeignCpp!Stream, ForeignCpp!Row, ForeignDart!Async,
    ForeignDart!OpenStream, ForeignDart!Row
<1> QED BY <1>1

\* Every row of multi_runtime_demo with the proxy that calls it.
LEMMA MultiRows ==
  /\ FitsAsync(MultiDart!callDartFromWorkerA, MultiCpp!call_dart_from_worker_a, 38396996)
  /\ FitsAsync(MultiDart!stopWorkers, MultiCpp!stop_workers, 489867174)
  /\ FitsAsync(MultiDart!callDartFromWorkerB, MultiCpp!call_dart_from_worker_b, 568428227)
  /\ FitsAsync(MultiDart!startWorkers, MultiCpp!start_workers, 802585972)
  /\ FitsAsync(MultiDart!pingWorker, MultiCpp!ping_worker, 812353966)
  /\ FitsAsync(MultiDart!processMessage, MultiCpp!process_message, 1706202089)
  /\ FitsAsync(MultiDart!pipeline, MultiCpp!pipeline, 1761426519)
  /\ FitsAsync(MultiDart!fanOut, MultiCpp!fan_out, 2046595992)
  /\ FitsAsync(MultiDart!workerStream, MultiCpp!worker_stream, 2109241176)
<1>1. /\ FitsAsync(MultiDart!callDartFromWorkerA, MultiCpp!call_dart_from_worker_a, 38396996)
      /\ FitsAsync(MultiDart!stopWorkers, MultiCpp!stop_workers, 489867174)
      /\ FitsAsync(MultiDart!callDartFromWorkerB, MultiCpp!call_dart_from_worker_b, 568428227)
      /\ FitsAsync(MultiDart!startWorkers, MultiCpp!start_workers, 802585972)
      /\ FitsAsync(MultiDart!pingWorker, MultiCpp!ping_worker, 812353966)
      /\ FitsAsync(MultiDart!processMessage, MultiCpp!process_message, 1706202089)
      /\ FitsAsync(MultiDart!pipeline, MultiCpp!pipeline, 1761426519)
      /\ FitsAsync(MultiDart!fanOut, MultiCpp!fan_out, 2046595992)
      /\ FitsAsync(MultiDart!workerStream, MultiCpp!worker_stream, 2109241176)
  BY MultiCppTypes, MultiDartTypes, SMTT(60) DEF Id, Runs, Fits, FitsAsync, FitsSync, Unknown,
    StringFn, FnTypes, SyncTypes, ArgTypes, AnswerTypes,
    MultiDart!callDartFromWorkerA, MultiCpp!call_dart_from_worker_a,
    MultiDart!stopWorkers, MultiCpp!stop_workers, MultiDart!callDartFromWorkerB,
    MultiCpp!call_dart_from_worker_b, MultiDart!startWorkers, MultiCpp!start_workers,
    MultiDart!pingWorker, MultiCpp!ping_worker, MultiDart!processMessage,
    MultiCpp!process_message, MultiDart!pipeline, MultiCpp!pipeline, MultiDart!fanOut,
    MultiCpp!fan_out, MultiDart!workerStream, MultiCpp!worker_stream, MultiCpp!Task,
    MultiCpp!Stream, MultiCpp!Row, MultiDart!Async, MultiDart!OpenStream, MultiDart!Row
<1> QED BY <1>1

\* Every row of base_demo with the proxy that calls it (demo_bridge.dart, demo_api.cpp);
\* kCounterDrop is called by none of them.
LEMMA BaseRows ==
  /\ FitsSync(BaseDart!bridgeVersion, BaseCpp!kBridgeVersion, 1)
  /\ FitsAsync(BaseDart!add, BaseCpp!kAdd, 2)
  /\ FitsAsync(BaseDart!sleepTest, BaseCpp!kSleepTest, 3)
  /\ FitsAsync(BaseDart!ticks, BaseCpp!kTicks, 4)
  /\ FitsAsync(BaseDart!echo, BaseCpp!kEcho, 5)
  /\ FitsAsync(BaseDart!maybeDouble, BaseCpp!kMaybeDouble, 10)
  /\ FitsAsync(BaseDart!sumList, BaseCpp!kSumVec, 11)
  /\ FitsAsync(BaseDart!reverseBytes, BaseCpp!kReverseBytes, 12)
  /\ FitsAsync(BaseDart!nextStatus, BaseCpp!kNextStatus, 13)
  /\ FitsAsync(BaseDart!sumFixedFour, BaseCpp!kSumFixedFour, 14)
  /\ FitsAsync(BaseDart!greet, BaseCpp!kGreet, 15)
  /\ FitsAsync(BaseDart!scoreTotal, BaseCpp!kScoreTotal, 16)
  /\ FitsAsync(BaseDart!setSum, BaseCpp!kSetSum, 17)
  /\ FitsAsync(BaseDart!pairEcho, BaseCpp!kPairEcho, 34)
  /\ FitsAsync(BaseDart!tupleEcho, BaseCpp!kTupleEcho, 35)
  /\ FitsAsync(BaseDart!echoI128, BaseCpp!kNextI128, 18)
  /\ FitsAsync(BaseDart!totalAges, BaseCpp!kTotalAges, 19)
  /\ FitsAsync(BaseDart!createCounter, BaseCpp!kCounterCreate, 20)
  /\ FitsAsync(BaseDart!increment, BaseCpp!kCounterIncrement, 21)
  /\ FitsAsync(BaseDart!value, BaseCpp!kCounterGetValue, 22)
  /\ Runs(BaseCpp!kCounterDrop, 23)
  /\ FitsAsync(BaseDart!callCallback, BaseCpp!kCounterCallDartFn, 26)
  /\ FitsAsync(BaseDart!sleepAndGet, BaseCpp!kCounterSleepAndGet, 27)
  /\ FitsAsync(BaseDart!incrementStream, BaseCpp!kCounterIncrementStream, 28)
  /\ FitsAsync(BaseDart!createCounterDefault, BaseCpp!kCounterCreateDefault, 29)
  /\ FitsAsync(BaseDart!createCounterZero, BaseCpp!kCounterZero, 30)
  /\ FitsAsync(BaseDart!addList, BaseCpp!kCounterAddList, 31)
  /\ FitsAsync(BaseDart!setValue, BaseCpp!kCounterSetValue, 32)
  /\ FitsAsync(BaseDart!duplicate, BaseCpp!kCounterDuplicate, 33)
  /\ FitsAsync(BaseDart!counterAddValues, BaseCpp!kCounterAddValues, 36)
  /\ FitsAsync(BaseDart!counterTransferValue, BaseCpp!kCounterTransferValue, 37)
  /\ FitsAsync(BaseDart!counterSumHandles, BaseCpp!kCounterSumHandles, 38)
  /\ FitsAsync(BaseDart!counterCloneFrom, BaseCpp!kCounterCloneFrom, 39)
  /\ FitsAsync(BaseDart!counterConsumeAndNew, BaseCpp!kCounterConsumeAndNew, 40)
  /\ FitsAsync(BaseDart!failAsync, BaseCpp!kFailAsync, 6)
  /\ FitsAsync(BaseDart!failStream, BaseCpp!kFailStream, 7)
  /\ FitsAsync(BaseDart!callDartHello, BaseCpp!kCallDartHello, 8)
  /\ FitsAsync(BaseDart!callDartHelloSync, BaseCpp!kCallDartHelloSync, 9)
  /\ FitsSync(BaseDart!bridgeVersion, BaseCpp!sync_kBridgeVersion, 1)
  /\ FitsSync(BaseDart!valueSync, BaseCpp!sync_kCounterValueSync, 24)
  /\ FitsSync(BaseDart!sum, BaseCpp!sync_kCounterStaticSum, 25)
<1>1. /\ FitsSync(BaseDart!bridgeVersion, BaseCpp!kBridgeVersion, 1)
      /\ FitsAsync(BaseDart!add, BaseCpp!kAdd, 2)
      /\ FitsAsync(BaseDart!sleepTest, BaseCpp!kSleepTest, 3)
      /\ FitsAsync(BaseDart!ticks, BaseCpp!kTicks, 4)
      /\ FitsAsync(BaseDart!echo, BaseCpp!kEcho, 5)
      /\ FitsAsync(BaseDart!maybeDouble, BaseCpp!kMaybeDouble, 10)
      /\ FitsAsync(BaseDart!sumList, BaseCpp!kSumVec, 11)
      /\ FitsAsync(BaseDart!reverseBytes, BaseCpp!kReverseBytes, 12)
      /\ FitsAsync(BaseDart!nextStatus, BaseCpp!kNextStatus, 13)
      /\ FitsAsync(BaseDart!sumFixedFour, BaseCpp!kSumFixedFour, 14)
      /\ FitsAsync(BaseDart!greet, BaseCpp!kGreet, 15)
      /\ FitsAsync(BaseDart!scoreTotal, BaseCpp!kScoreTotal, 16)
  BY BaseCppTypes, BaseDartTypes, SMTT(60) DEF Id, Runs, Fits, FitsAsync, FitsSync, Unknown,
    StringFn, FnTypes, SyncTypes, ArgTypes, AnswerTypes,
    BaseDart!bridgeVersion, BaseCpp!kBridgeVersion, BaseDart!add, BaseCpp!kAdd,
    BaseDart!sleepTest, BaseCpp!kSleepTest, BaseDart!ticks, BaseCpp!kTicks, BaseDart!echo,
    BaseCpp!kEcho, BaseDart!maybeDouble, BaseCpp!kMaybeDouble, BaseDart!sumList,
    BaseCpp!kSumVec, BaseDart!reverseBytes, BaseCpp!kReverseBytes, BaseDart!nextStatus,
    BaseCpp!kNextStatus, BaseDart!sumFixedFour, BaseCpp!kSumFixedFour, BaseDart!greet,
    BaseCpp!kGreet, BaseDart!scoreTotal, BaseCpp!kScoreTotal, BaseCpp!Task, BaseCpp!Pool,
    BaseCpp!Inline, BaseCpp!Stream, BaseCpp!Row, BaseDart!Async, BaseDart!Sync,
    BaseDart!OpenStream, BaseDart!Row
<1>2. /\ FitsAsync(BaseDart!setSum, BaseCpp!kSetSum, 17)
      /\ FitsAsync(BaseDart!pairEcho, BaseCpp!kPairEcho, 34)
      /\ FitsAsync(BaseDart!tupleEcho, BaseCpp!kTupleEcho, 35)
      /\ FitsAsync(BaseDart!echoI128, BaseCpp!kNextI128, 18)
      /\ FitsAsync(BaseDart!totalAges, BaseCpp!kTotalAges, 19)
      /\ FitsAsync(BaseDart!createCounter, BaseCpp!kCounterCreate, 20)
      /\ FitsAsync(BaseDart!increment, BaseCpp!kCounterIncrement, 21)
      /\ FitsAsync(BaseDart!value, BaseCpp!kCounterGetValue, 22)
      /\ Runs(BaseCpp!kCounterDrop, 23)
      /\ FitsAsync(BaseDart!callCallback, BaseCpp!kCounterCallDartFn, 26)
      /\ FitsAsync(BaseDart!sleepAndGet, BaseCpp!kCounterSleepAndGet, 27)
      /\ FitsAsync(BaseDart!incrementStream, BaseCpp!kCounterIncrementStream, 28)
  BY BaseCppTypes, BaseDartTypes, SMTT(60) DEF Id, Runs, Fits, FitsAsync, FitsSync, Unknown,
    StringFn, FnTypes, SyncTypes, ArgTypes, AnswerTypes,
    BaseDart!setSum, BaseCpp!kSetSum, BaseDart!pairEcho, BaseCpp!kPairEcho,
    BaseDart!tupleEcho, BaseCpp!kTupleEcho, BaseDart!echoI128, BaseCpp!kNextI128,
    BaseDart!totalAges, BaseCpp!kTotalAges, BaseDart!createCounter,
    BaseCpp!kCounterCreate, BaseDart!increment, BaseCpp!kCounterIncrement, BaseDart!value,
    BaseCpp!kCounterGetValue, BaseCpp!kCounterDrop, BaseDart!callCallback,
    BaseCpp!kCounterCallDartFn, BaseDart!sleepAndGet, BaseCpp!kCounterSleepAndGet,
    BaseDart!incrementStream, BaseCpp!kCounterIncrementStream, BaseCpp!Task, BaseCpp!Pool,
    BaseCpp!Inline, BaseCpp!Stream, BaseCpp!Row, BaseDart!Async, BaseDart!Sync,
    BaseDart!OpenStream, BaseDart!Row
<1>3. /\ FitsAsync(BaseDart!createCounterDefault, BaseCpp!kCounterCreateDefault, 29)
      /\ FitsAsync(BaseDart!createCounterZero, BaseCpp!kCounterZero, 30)
      /\ FitsAsync(BaseDart!addList, BaseCpp!kCounterAddList, 31)
      /\ FitsAsync(BaseDart!setValue, BaseCpp!kCounterSetValue, 32)
      /\ FitsAsync(BaseDart!duplicate, BaseCpp!kCounterDuplicate, 33)
      /\ FitsAsync(BaseDart!counterAddValues, BaseCpp!kCounterAddValues, 36)
      /\ FitsAsync(BaseDart!counterTransferValue, BaseCpp!kCounterTransferValue, 37)
      /\ FitsAsync(BaseDart!counterSumHandles, BaseCpp!kCounterSumHandles, 38)
      /\ FitsAsync(BaseDart!counterCloneFrom, BaseCpp!kCounterCloneFrom, 39)
      /\ FitsAsync(BaseDart!counterConsumeAndNew, BaseCpp!kCounterConsumeAndNew, 40)
      /\ FitsAsync(BaseDart!failAsync, BaseCpp!kFailAsync, 6)
      /\ FitsAsync(BaseDart!failStream, BaseCpp!kFailStream, 7)
  BY BaseCppTypes, BaseDartTypes, SMTT(60) DEF Id, Runs, Fits, FitsAsync, FitsSync, Unknown,
    StringFn, FnTypes, SyncTypes, ArgTypes, AnswerTypes,
    BaseDart!createCounterDefault, BaseCpp!kCounterCreateDefault,
    BaseDart!createCounterZero, BaseCpp!kCounterZero, BaseDart!addList,
    BaseCpp!kCounterAddList, BaseDart!setValue, BaseCpp!kCounterSetValue,
    BaseDart!duplicate, BaseCpp!kCounterDuplicate, BaseDart!counterAddValues,
    BaseCpp!kCounterAddValues, BaseDart!counterTransferValue,
    BaseCpp!kCounterTransferValue, BaseDart!counterSumHandles, BaseCpp!kCounterSumHandles,
    BaseDart!counterCloneFrom, BaseCpp!kCounterCloneFrom, BaseDart!counterConsumeAndNew,
    BaseCpp!kCounterConsumeAndNew, BaseDart!failAsync, BaseCpp!kFailAsync,
    BaseDart!failStream, BaseCpp!kFailStream, BaseCpp!Task, BaseCpp!Pool, BaseCpp!Inline,
    BaseCpp!Stream, BaseCpp!Row, BaseDart!Async, BaseDart!Sync, BaseDart!OpenStream,
    BaseDart!Row
<1>4. /\ FitsAsync(BaseDart!callDartHello, BaseCpp!kCallDartHello, 8)
      /\ FitsAsync(BaseDart!callDartHelloSync, BaseCpp!kCallDartHelloSync, 9)
      /\ FitsSync(BaseDart!bridgeVersion, BaseCpp!sync_kBridgeVersion, 1)
      /\ FitsSync(BaseDart!valueSync, BaseCpp!sync_kCounterValueSync, 24)
      /\ FitsSync(BaseDart!sum, BaseCpp!sync_kCounterStaticSum, 25)
  BY BaseCppTypes, BaseDartTypes, SMTT(60) DEF Id, Runs, Fits, FitsAsync, FitsSync, Unknown,
    StringFn, FnTypes, SyncTypes, ArgTypes, AnswerTypes,
    BaseDart!callDartHello, BaseCpp!kCallDartHello, BaseDart!callDartHelloSync,
    BaseCpp!kCallDartHelloSync, BaseDart!bridgeVersion, BaseCpp!sync_kBridgeVersion,
    BaseDart!valueSync, BaseCpp!sync_kCounterValueSync, BaseDart!sum,
    BaseCpp!sync_kCounterStaticSum, BaseCpp!Task, BaseCpp!Pool, BaseCpp!Inline,
    BaseCpp!Stream, BaseCpp!Row, BaseDart!Async, BaseDart!Sync, BaseDart!OpenStream,
    BaseDart!Row
<1> QED BY <1>1, <1>2, <1>3, <1>4

\* A row that proxy p calls, through one entry or the other.
Serves(p, r) == FitsAsync(p, r, Id(p)) \/ FitsSync(p, r, Id(p))
\* What fits under an id has that id.
LEMMA FitsIds ==
  /\ \A r, n : Runs(r, n) => Id(r) = n
  /\ \A p, r, n : FitsAsync(p, r, n) => Id(p) = n /\ Id(r) = n
  /\ \A p, r, n : FitsSync(p, r, n) => Id(p) = n /\ Id(r) = n
  BY DEF Runs, Fits, FitsAsync, FitsSync

\* A proxy of codegen_demo finds a row of its id, and every row of its id fits.
LEMMA CodegenTables ==
  ASSUME NEW p \in CodegenDart!Proxies
  PROVE  /\ \A r \in CodegenCpp!Requests : Id(r) = Id(p) => Serves(p, r)
         /\ \A r \in CodegenCpp!SyncRequests : Id(r) = Id(p) => FitsSync(p, r, Id(p))
         /\ \/ \E r \in CodegenCpp!Requests : FitsAsync(p, r, Id(p))
            \/ \E r \in CodegenCpp!SyncRequests : FitsSync(p, r, Id(p))
<1>1. \A r \in CodegenCpp!Requests : Id(r) = Id(p) => Serves(p, r)
  BY CodegenRows, FitsIds, SMTT(60) DEF Serves, CodegenDart!Proxies, CodegenCpp!Requests
<1>2. \A r \in CodegenCpp!SyncRequests : Id(r) = Id(p) => FitsSync(p, r, Id(p))
  BY CodegenRows, FitsIds, SMTT(60) DEF CodegenDart!Proxies, CodegenCpp!SyncRequests
<1>3. \/ \E r \in CodegenCpp!Requests : FitsAsync(p, r, Id(p))
      \/ \E r \in CodegenCpp!SyncRequests : FitsSync(p, r, Id(p))
  BY CodegenRows, FitsIds, SMTT(60) DEF CodegenDart!Proxies, CodegenCpp!Requests, CodegenCpp!SyncRequests
<1> QED BY <1>1, <1>2, <1>3

\* So does one of foreign_runtime_demo,
LEMMA ForeignTables ==
  ASSUME NEW p \in ForeignDart!Proxies
  PROVE  /\ \A r \in ForeignCpp!Requests : Id(r) = Id(p) => Serves(p, r)
         /\ \A r \in ForeignCpp!SyncRequests : Id(r) = Id(p) => FitsSync(p, r, Id(p))
         /\ \/ \E r \in ForeignCpp!Requests : FitsAsync(p, r, Id(p))
            \/ \E r \in ForeignCpp!SyncRequests : FitsSync(p, r, Id(p))
<1>1. \A r \in ForeignCpp!Requests : Id(r) = Id(p) => Serves(p, r)
  BY ForeignRows, FitsIds, SMTT(60) DEF Serves, ForeignDart!Proxies, ForeignCpp!Requests
<1>2. \A r \in ForeignCpp!SyncRequests : Id(r) = Id(p) => FitsSync(p, r, Id(p))
  BY ForeignRows, FitsIds, SMTT(60) DEF ForeignDart!Proxies, ForeignCpp!SyncRequests
<1>3. \/ \E r \in ForeignCpp!Requests : FitsAsync(p, r, Id(p))
      \/ \E r \in ForeignCpp!SyncRequests : FitsSync(p, r, Id(p))
  BY ForeignRows, FitsIds, SMTT(60) DEF ForeignDart!Proxies, ForeignCpp!Requests, ForeignCpp!SyncRequests
<1> QED BY <1>1, <1>2, <1>3

\* one of multi_runtime_demo,
LEMMA MultiTables ==
  ASSUME NEW p \in MultiDart!Proxies
  PROVE  /\ \A r \in MultiCpp!Requests : Id(r) = Id(p) => Serves(p, r)
         /\ \A r \in MultiCpp!SyncRequests : Id(r) = Id(p) => FitsSync(p, r, Id(p))
         /\ \/ \E r \in MultiCpp!Requests : FitsAsync(p, r, Id(p))
            \/ \E r \in MultiCpp!SyncRequests : FitsSync(p, r, Id(p))
<1>1. \A r \in MultiCpp!Requests : Id(r) = Id(p) => Serves(p, r)
  BY MultiRows, FitsIds, SMTT(60) DEF Serves, MultiDart!Proxies, MultiCpp!Requests
<1>2. \A r \in MultiCpp!SyncRequests : Id(r) = Id(p) => FitsSync(p, r, Id(p))
  BY MultiRows, FitsIds, SMTT(60) DEF MultiDart!Proxies, MultiCpp!SyncRequests
<1>3. \/ \E r \in MultiCpp!Requests : FitsAsync(p, r, Id(p))
      \/ \E r \in MultiCpp!SyncRequests : FitsSync(p, r, Id(p))
  BY MultiRows, FitsIds, SMTT(60) DEF MultiDart!Proxies, MultiCpp!Requests, MultiCpp!SyncRequests
<1> QED BY <1>1, <1>2, <1>3

\* and one of base_demo.
LEMMA BaseTables ==
  ASSUME NEW p \in BaseDart!Proxies
  PROVE  /\ \A r \in BaseCpp!Requests : Id(r) = Id(p) => Serves(p, r)
         /\ \A r \in BaseCpp!SyncRequests : Id(r) = Id(p) => FitsSync(p, r, Id(p))
         /\ \/ \E r \in BaseCpp!Requests : FitsAsync(p, r, Id(p))
            \/ \E r \in BaseCpp!SyncRequests : FitsSync(p, r, Id(p))
<1>1. \A r \in BaseCpp!Requests : Id(r) = Id(p) => Serves(p, r)
  BY BaseRows, FitsIds, SMTT(60) DEF Serves, BaseDart!Proxies, BaseCpp!Requests
<1>2. \A r \in BaseCpp!SyncRequests : Id(r) = Id(p) => FitsSync(p, r, Id(p))
  BY BaseRows, FitsIds, SMTT(60) DEF BaseDart!Proxies, BaseCpp!SyncRequests
<1>3. \/ \E r \in BaseCpp!Requests : FitsAsync(p, r, Id(p))
      \/ \E r \in BaseCpp!SyncRequests : FitsSync(p, r, Id(p))
  BY BaseRows, FitsIds, SMTT(60) DEF BaseDart!Proxies, BaseCpp!Requests, BaseCpp!SyncRequests
<1> QED BY <1>1, <1>2, <1>3

\* The methods that keep, call or encode for a closure in a way of their own are told
\* apart by their ids: register_dart_fn, invoke_registered(_async), and the two
\* test_cbridge_invoke of codegen_demo;
LEMMA CodegenSpecial ==
  ASSUME NEW p \in CodegenDart!Proxies
  PROVE  /\ Id(p) = 1702006080 <=> p = CodegenDart!registerDartFn
         /\ Id(p) = 1702006080 => p.args = <<StringFn>>
         /\ Id(p) \in {594957055, 999429777} => p.args = <<Str>>
         /\ Id(p) \in {541474998, 1082486080} => p.args = <<StringFn, Str>>
         /\ Id(p) # 300843582
         /\ \A r \in CodegenCpp!Requests : Id(r) = 1702006080 => r = CodegenCpp!register_dart_fn
         /\ \A r \in CodegenCpp!SyncRequests : Id(r) = 1702006080 => r = CodegenCpp!sync_register_dart_fn
         /\ \A r \in CodegenCpp!SyncRequests : Id(r) \notin {594957055, 999429777}
<1>1. /\ Id(p) = 1702006080 <=> p = CodegenDart!registerDartFn
      /\ Id(p) \in {594957055, 999429777} =>
           p \in {CodegenDart!invokeRegistered, CodegenDart!invokeRegisteredAsync}
      /\ Id(p) \in {541474998, 1082486080} =>
           p \in {CodegenDart!testCbridgeInvoke, CodegenDart!testCbridgeInvokePureC}
      /\ Id(p) # 300843582
  BY CodegenRows, FitsIds, SMTT(60) DEF CodegenDart!Proxies
<1>2. /\ CodegenDart!registerDartFn.args = <<StringFn>>
      /\ CodegenDart!invokeRegistered.args = <<Str>>
      /\ CodegenDart!invokeRegisteredAsync.args = <<Str>>
      /\ CodegenDart!testCbridgeInvoke.args = <<StringFn, Str>>
      /\ CodegenDart!testCbridgeInvokePureC.args = <<StringFn, Str>>
  BY CodegenDartTypes DEF CodegenDart!registerDartFn, CodegenDart!invokeRegistered,
    CodegenDart!invokeRegisteredAsync, CodegenDart!testCbridgeInvoke,
    CodegenDart!testCbridgeInvokePureC, CodegenDart!Sync, CodegenDart!Async, CodegenDart!Row,
    StringFn
<1>3. \A r \in CodegenCpp!Requests : Id(r) = 1702006080 => r = CodegenCpp!register_dart_fn
  BY CodegenRows, FitsIds, SMTT(60) DEF CodegenCpp!Requests
<1>4. /\ \A r \in CodegenCpp!SyncRequests : Id(r) = 1702006080 => r = CodegenCpp!sync_register_dart_fn
      /\ \A r \in CodegenCpp!SyncRequests : Id(r) \notin {594957055, 999429777}
  BY CodegenRows, FitsIds, SMTT(60) DEF CodegenCpp!SyncRequests
<1> QED BY <1>1, <1>2, <1>3, <1>4

\* foreign_runtime_demo has a test_cbridge_invoke only,
LEMMA ForeignSpecial ==
  ASSUME NEW p \in ForeignDart!Proxies
  PROVE  /\ Id(p) \notin {1702006080, 594957055, 999429777, 541474998, 1082486080}
         /\ Id(p) = 300843582 => p.args = <<StringFn, Str>>
<1>1. /\ Id(p) \notin {1702006080, 594957055, 999429777, 541474998, 1082486080}
      /\ Id(p) = 300843582 => p = ForeignDart!testCbridgeInvoke
  BY ForeignRows, FitsIds, SMTT(60) DEF ForeignDart!Proxies
<1>2. ForeignDart!testCbridgeInvoke.args = <<StringFn, Str>>
  BY ForeignDartTypes DEF ForeignDart!testCbridgeInvoke, ForeignDart!Async, ForeignDart!Row, StringFn
<1> QED BY <1>1, <1>2

\* multi_runtime_demo none of them,
LEMMA MultiSpecial ==
  ASSUME NEW p \in MultiDart!Proxies
  PROVE  Id(p) \notin {1702006080, 594957055, 999429777, 541474998, 1082486080, 300843582}
  BY MultiRows, FitsIds, SMTT(60) DEF MultiDart!Proxies

\* nor has base_demo.
LEMMA BaseSpecial ==
  ASSUME NEW p \in BaseDart!Proxies
  PROVE  Id(p) \notin {1702006080, 594957055, 999429777, 541474998, 1082486080, 300843582}
  BY BaseRows, FitsIds, SMTT(60) DEF BaseDart!Proxies

\* These ids are theirs alone.
LEMMA SpecialIds ==
  /\ \A r \in Registering : Id(r) = 1702006080
  /\ \A r \in Invoking : Id(r) \in {594957055, 999429777}
  /\ \A r \in WritingInC : Id(r) \in {541474998, 1082486080, 300843582}
<1>1. /\ Id(CodegenCpp!register_dart_fn) = 1702006080
      /\ Id(CodegenCpp!sync_register_dart_fn) = 1702006080
      /\ Id(CodegenCpp!invoke_registered) = 594957055
      /\ Id(CodegenCpp!invoke_registered_async) = 999429777
      /\ Id(CodegenCpp!test_cbridge_invoke) = 541474998
      /\ Id(CodegenCpp!test_cbridge_invoke_pure_c) = 1082486080
      /\ Id(ForeignCpp!test_cbridge_invoke) = 300843582
  BY CodegenRows, ForeignRows, FitsIds
<1> QED BY <1>1 DEF Registering, Invoking, WritingInC, ReadingInC

\* The table that an entry looks the method up in.
Table(lib, entry) == IF entry = "sync" THEN SyncRequests(lib) ELSE Requests(lib)

\* What a proxy and a row of its id have to do with each other, in any library.
LEMMA Tables ==
  ASSUME NEW lib \in Names, NEW p \in Proxies(lib)
  PROVE  /\ \A r \in Requests(lib) : r.id = p.id => Serves(p, r)
         /\ \A r \in SyncRequests(lib) : r.id = p.id => FitsSync(p, r, p.id)
         /\ \/ \E r \in Requests(lib) : FitsAsync(p, r, p.id)
            \/ \E r \in SyncRequests(lib) : FitsSync(p, r, p.id)
<1>1. CASE lib = "codegen"
  BY <1>1, CodegenTables DEF Id, Proxies, Requests, SyncRequests
<1>2. CASE lib = "foreign"
  BY <1>2, ForeignTables DEF Id, Proxies, Requests, SyncRequests
<1>3. CASE lib = "multi"
  BY <1>3, MultiTables DEF Id, Proxies, Requests, SyncRequests
<1>4. CASE lib = "base"
  BY <1>4, BaseTables DEF Id, Proxies, Requests, SyncRequests
<1> QED BY <1>1, <1>2, <1>3, <1>4 DEF Names

\* What a proxy sends and reads, and that the table it calls has its id.
LEMMA ProxyRow ==
  ASSUME NEW lib \in Names, NEW p \in Proxies(lib)
  PROVE  /\ p.args \in Seq(ArgTypes) /\ Len(p.args) <= 3
         /\ p.id \in Int /\ 0 <= p.id /\ p.id < Unknown
         /\ p.res \in AnswerTypes \cup {Void}
         /\ p.run = "open_stream" => p.res \in AnswerTypes
         /\ p.run = "sync" => \E r \in SyncRequests(lib) : r.id = p.id
         /\ p.run # "sync" => \E r \in Requests(lib) : r.id = p.id
<1>1. PICK r : \/ r \in Requests(lib) /\ FitsAsync(p, r, p.id)
               \/ r \in SyncRequests(lib) /\ FitsSync(p, r, p.id)
  BY Tables
<1>2. Fits(p, r, p.id)
  BY <1>1 DEF FitsAsync, FitsSync
<1>3. \/ r \in Requests(lib) /\ r.id = p.id /\ p.run # "sync"
      \/ r \in SyncRequests(lib) /\ r.id = p.id /\ p.run = "sync"
  BY <1>1 DEF FitsAsync, FitsSync, Fits, Runs, Id
<1> QED BY <1>2, <1>3 DEF Fits, Runs

\* What the row of a proxy's id reads and sends is what the proxy sends and reads.
LEMMA RowServes ==
  ASSUME NEW lib \in Names, NEW p \in Proxies(lib),
         NEW r \in Requests(lib) \cup SyncRequests(lib), r.id = p.id
  PROVE  /\ r.args = p.args /\ p.res \in {Void, r.res}
         /\ r.res \in AnswerTypes \cup {Void}
         /\ r.run = "stream" <=> p.run = "open_stream"
         /\ p.run = "open_stream" => p.res = r.res
         /\ r \in Registering <=> p \in KeepsFn(lib)
         /\ r \in Registering => p.args = <<StringFn>>
         /\ r \in Invoking => p.args = <<Str>>
         /\ r \in WritingInC => p.args = <<StringFn, Str>>
<1>1. Fits(p, r, p.id) /\ Id(r) = Id(p)
  BY Tables DEF Serves, FitsAsync, FitsSync, Id
<1>2. /\ r.args = p.args /\ p.res \in {Void, r.res}
      /\ r.res \in AnswerTypes \cup {Void}
      /\ r.run = "stream" <=> p.run = "open_stream"
      /\ p.run = "open_stream" => p.res = r.res
  BY <1>1 DEF Fits, Runs
<1>3. /\ r \in Registering <=> p \in KeepsFn(lib)
      /\ r \in Registering => p.args = <<StringFn>>
      /\ r \in Invoking => p.args = <<Str>>
      /\ r \in WritingInC => p.args = <<StringFn, Str>>
  <2>1. CASE lib = "codegen"
    <3>1. p \in CodegenDart!Proxies /\ r \in CodegenCpp!Requests \cup CodegenCpp!SyncRequests
      BY <2>1 DEF Proxies, Requests, SyncRequests
    <3>2. KeepsFn(lib) = {CodegenDart!registerDartFn}
      BY <2>1 DEF KeepsFn, CodegenDart!Keeps
    <3> QED BY <1>1, <3>1, <3>2, CodegenSpecial, SpecialIds DEF Registering
  <2>2. CASE lib # "codegen"
    <3>1. KeepsFn(lib) = {}
      BY <2>2 DEF KeepsFn
    <3>2. /\ Id(p) \notin {1702006080, 594957055, 999429777, 541474998, 1082486080}
          /\ Id(p) = 300843582 => p.args = <<StringFn, Str>>
      BY <2>2, ForeignSpecial, MultiSpecial, BaseSpecial DEF Proxies, Names
    <3> QED BY <1>1, <3>1, <3>2, SpecialIds
  <2> QED BY <2>1, <2>2
<1> QED BY <1>2, <1>3

\* A row of the table of synchronous methods is one a proxy calls so, and it uses no
\* closure but to keep it.
LEMMA SyncRow ==
  ASSUME NEW lib \in Names, NEW p \in Proxies(lib), NEW r \in SyncRequests(lib), r.id = p.id
  PROVE  /\ p.run = "sync" /\ r.run # "stream" /\ r \notin Invoking
         /\ r \in Registering \/ p.args \in Seq(SyncTypes)
<1>1. FitsSync(p, r, p.id) /\ Id(r) = Id(p)
  BY Tables DEF FitsSync, Fits, Runs, Id
<1>2. p.run = "sync" /\ r.run # "stream" /\ (Id(p) = 1702006080 \/ p.args \in Seq(SyncTypes))
  BY <1>1 DEF FitsSync, Fits, Runs, Id
<1>3. r \notin Invoking /\ (Id(p) = 1702006080 => r \in Registering)
  <2>1. CASE lib = "codegen"
    <3>1. p \in CodegenDart!Proxies /\ r \in CodegenCpp!SyncRequests
      BY <2>1 DEF Proxies, SyncRequests
    <3> QED BY <1>1, <3>1, CodegenSpecial, SpecialIds DEF Registering
  <2>2. CASE lib # "codegen"
    <3>2. Id(p) \notin {1702006080, 594957055, 999429777}
      BY <2>2, ForeignSpecial, MultiSpecial, BaseSpecial DEF Proxies, Names
    <3> QED BY <1>1, <3>2, SpecialIds
  <2> QED BY <2>1, <2>2
<1> QED BY <1>2, <1>3

-----------------------------------------------------------------------------
\* No type without a value is sent, and what a row may ask for a callback is one of
\* two kinds of closure.
LEMMA ArgKinds ==
  \A t \in ArgTypes : /\ t.kind # "void"
                      /\ t.kind = "fn" => t \in FnTypes
                      /\ t.kind = "progress" => t = Progress(I32)
                      /\ t \in SyncTypes => t.kind # "fn"
  BY DEF ArgTypes, SyncTypes, FnTypes, StringFn, DartFn, Progress, Opt, Vec, Arr, SetOf, Map, Tuple,
     Plain, I32, U32, I64, F64, Bool, Str, Blob, U128, I128, Time, Ptr, Counter, OrderStatus,
     StatusCode, Point, Person

\* A closure takes one or two strings and gives one.
LEMMA FnParts ==
  \A t \in FnTypes : /\ t.kind = "fn" /\ t.args \in {<<Str>>, <<Str, Str>>} /\ t.ret = Str
  BY DEF FnTypes, StringFn, DartFn

\* The types whose values Dart decodes, with those of their parts.
ReadTypes == AnswerTypes \cup {Vec(Vec(I32))}

\* None of them is only sent.
LEMMA ReadKinds ==
  \A t \in ReadTypes : t.kind \notin SentKinds /\ t.kind # "void"
  BY DEF ReadTypes, AnswerTypes, SentKinds, Opt, Vec, Tuple, Plain, I32, U32, I64, F64, Bool, Str,
     Blob, U128, I128, Time, Ptr, Counter, OrderStatus, StatusCode, Point, Rect

\* The parts of what Dart decodes are of such types again,
LEMMA ReadPartTypes ==
  ASSUME NEW t \in ReadTypes, Nests(t), NEW i,
         t.kind \in Records => i \in 1 .. Len(Fields(t))
  PROVE  PartType(t, i) \in ReadTypes
<1>1. CASE t.kind \in Records
  <2>1. t \in {Point, Rect, Tuple(<<I32, Str>>), Tuple(<<I32, Str, Bool>>), Tuple(<<Str, Str>>)}
    BY <1>1 DEF ReadTypes, AnswerTypes, Records, Opt, Vec, Tuple, Plain, I32, U32, I64, F64,
       Bool, Str, Blob, U128, I128, Time, Ptr, Counter, OrderStatus, StatusCode, Point, Rect
  <2>2. Fields(t) \in {<<F64, F64, Opt(Str)>>, <<Point, Point>>, <<I32, Str>>, <<I32, Str, Bool>>, <<Str, Str>>}
    BY <2>1 DEF Fields, PointFields, RectFields, Tuple, Point, Rect, Plain,
       F64, Opt, Str
  <2>3. {F64, Opt(Str), Point, I32, Str, Bool} \subseteq ReadTypes
    BY DEF ReadTypes, AnswerTypes
  <2>4. PartType(t, i) = Fields(t)[i]
    BY <1>1 DEF PartType
  <2> QED BY <1>1, <2>2, <2>3, <2>4
<1>2. CASE t.kind \notin Records
  <2>1. t \in {Opt(I32), Opt(Str), Opt(OrderStatus), Vec(I32), Vec(Bool), Vec(Vec(I32)), Vec(Vec(Vec(I32)))}
    BY <1>2 DEF ReadTypes, AnswerTypes, Nests, Listed, Records, Tuple, Plain, I32, U32, I64, F64,
       Bool, Str, Blob, U128, I128, Time, Ptr, Counter, OrderStatus, StatusCode, Point, Rect
  <2>2. t.of \in {I32, Str, OrderStatus, Bool, Vec(I32), Vec(Vec(I32))} /\ t.kind # "map"
    BY <2>1 DEF Opt, Vec
  <2>3. {I32, Str, OrderStatus, Bool, Vec(I32), Vec(Vec(I32))} \subseteq ReadTypes
    BY DEF ReadTypes, AnswerTypes
  <2>4. PartType(t, i) = t.of
    BY <1>2, <2>2 DEF PartType
  <2> QED BY <2>2, <2>3, <2>4
<1> QED BY <1>1, <1>2

\* Dart can decode every value of these types.
LEMMA PartsReceived ==
  ASSUME NEW t \in ReadTypes, NEW v, Nests(t), Shaped(t, v)
  PROVE  \A i \in DOMAIN Parts(t, v) : PartType(t, i) \in ReadTypes
<1> SUFFICES ASSUME NEW i \in DOMAIN Parts(t, v)
             PROVE  PartType(t, i) \in ReadTypes
  OBVIOUS
<1>1. t.kind \in Records => i \in 1 .. Len(Fields(t))
  BY PartsOf DEF IsList
<1> QED BY <1>1, ReadPartTypes

\* so Dart decodes every value of these types, to the last level.
LEMMA ReadTypesReceived ==
  ASSUME NEW t \in ReadTypes, NEW v, Typed(t, v)
  PROVE  Received(t, v)
<1>1. ASSUME NEW u \in ReadTypes, NEW x PROVE NotSent(u, x)
  BY ReadKinds DEF NotSent
<1>2. ASSUME NEW u \in ReadTypes, NEW x, Typed1(u, x) PROVE Received1(u, x)
  <2>1. Nests(u) => Shaped(u, x)
    BY <1>2 DEF Typed1, TypedOver
  <2> QED BY <1>1, <2>1, PartsReceived DEF Received1, ReceivedOver
<1>3. ASSUME NEW u \in ReadTypes, NEW x, Typed2(u, x) PROVE Received2(u, x)
  <2>1. Nests(u) => Shaped(u, x) /\ \A i \in DOMAIN Parts(u, x) : Typed1(PartType(u, i), Parts(u, x)[i])
    BY <1>3 DEF Typed2, TypedOver
  <2> QED BY <1>1, <1>2, <2>1, PartsReceived DEF Received2, ReceivedOver
<1>4. Nests(t) => Shaped(t, v) /\ \A i \in DOMAIN Parts(t, v) : Typed2(PartType(t, i), Parts(t, v)[i])
  BY DEF Typed, TypedOver
<1> QED BY <1>1, <1>3, <1>4, PartsReceived DEF Received, ReceivedOver

-----------------------------------------------------------------------------
\* What stands at the start of itself, and a buffer cut short ends inside itself.
LEMMA StandsWhole ==
  ASSUME NEW w \in Buffer
  PROVE  /\ Stands(w, 1, w)
         /\ \A n \in 0 .. Len(w) - 1 : /\ SubSeq(w, 1, n) \in Buffer /\ Len(SubSeq(w, 1, n)) = n
                                       /\ Ends(SubSeq(w, 1, n), 1, w)
<1>1. Stands(w, 1, w)
  BY DEF Stands, Buffer
<1>2. ASSUME NEW n \in 0 .. Len(w) - 1
      PROVE  /\ SubSeq(w, 1, n) \in Buffer /\ Len(SubSeq(w, 1, n)) = n
             /\ Ends(SubSeq(w, 1, n), 1, w)
  <2>1. n \in 0 .. Len(w) /\ Len(w) \in Nat
    BY DEF Buffer
  <2>2. SubSeq(w, 1, n) \in Buffer /\ Len(SubSeq(w, 1, n)) = n
    BY <2>1, StandsCut
  <2>3. \A i \in 1 .. n : SubSeq(w, 1, n)[i] = w[i]
    BY <2>1 DEF Buffer
  <2> QED BY <2>1, <2>2, <2>3 DEF Ends
<1> QED BY <1>1, <1>2

\* Three values and a little more fit in a payload.
LEMMA MaxFits ==
  /\ MaxBytes \in Nat
  /\ \A n \in Nat : n <= 3 * MaxBytes + 100 => n \in Count
  BY Ranges, SMT DEF MaxBytes

\* A few values together.
LEMMA Sums ==
  \A a, b : /\ a \in Nat /\ b \in Nat /\ b <= MaxBytes /\ a <= MaxBytes => a + b <= 2 * MaxBytes
            /\ a \in Nat /\ b \in Nat /\ b <= MaxBytes /\ a <= 2 * MaxBytes => a + b <= 3 * MaxBytes
  BY SMT DEF MaxBytes

\* A value that crosses and fits in a message with others.
Fine(t, v) == Typed(t, v) /\ Len(Write(t, v)) <= MaxBytes

\* A decoder has read v.
Reads(r, v) == r.ok /\ r.v = v

\* The bytes of one value are the same on both sides, and read back.
LEMMA FineCrosses ==
  ASSUME NEW t, NEW v, Fine(t, v)
  PROVE  /\ Write(t, v) \in Buffer /\ Len(Write(t, v)) \in Count
         /\ Put(t, v) = Write(t, v)
         /\ Reads(ReadOne(t, Write(t, v), 1), v)
         /\ t \in ReadTypes => Reads(Get(t, Write(t, v), 0), v)
<1> DEFINE w == Write(t, v)
           p == 1
<1>1. Typed(t, v) /\ Len(w) <= MaxBytes
  BY DEF Fine
<1>2. w \in Buffer /\ Put(t, v) = w
  BY <1>1, Level3Written
<1> HIDE DEF w
<1>3. Len(w) \in Count
  <2>1. Len(w) \in Nat
    BY <1>2 DEF Buffer
  <2> QED BY <1>1, <2>1, MaxFits
<1>4. Stands(w, p, w) /\ p \in Nat /\ p >= 1 /\ p - 1 = 0
  BY <1>2, StandsWhole
<1> HIDE DEF p
<1>5. CppReads(ReadOne(t, w, p), w, p, w, v)
  BY <1>1, <1>2, <1>4, Level3Crosses DEF w
<1>6. Received(t, v) => DartReads(Get(t, w, p - 1), w, p, w, v)
  BY <1>1, <1>2, <1>4, Level3Crosses DEF w
<1>7. Reads(ReadOne(t, w, p), v)
  BY <1>4, <1>5 DEF CppReads, Read, Reads
<1>8. Received(t, v) => Reads(Get(t, w, p - 1), v)
  BY <1>4, <1>6 DEF DartReads, Got, Reads
<1> QED BY <1>1, <1>2, <1>3, <1>4, <1>7, <1>8, ReadTypesReceived DEF w, p

\* Nothing is written for no result, and reading it reads nothing.
LEMMA NoResult ==
  /\ Write(Void, <<>>) = <<>>
  /\ \A payload : Reads(Get(Void, payload, 0), <<>>)
<1>1. ~Nests(Void) /\ ~Composite(Void) /\ Void.kind = "void"
  BY DEF Void, Plain, Nests, Listed, Records, Composite, Classes
<1>2. Write(Void, <<>>) = WriteScalar(Void, <<>>)
  BY <1>1 DEF Write, Write2, Write1, WriteOver
<1>3. WriteScalar(Void, <<>>) = <<>>
  BY <1>1 DEF WriteScalar
<1>4. ASSUME NEW payload PROVE Get(Void, payload, 0) = Got(<<>>, 0)
  <2>1. Get(Void, payload, 0) = GetScalar(Void, payload, 0)
    BY <1>1 DEF Get, Get2, Get1, GetOver
  <2> QED BY <1>1, <2>1 DEF GetScalar
<1> QED BY <1>2, <1>3, <1>4 DEF Reads, Got

-----------------------------------------------------------------------------
\* The values of a list of arguments, each of which fits in a message with others.
FineAll(ts, vs) ==
  /\ IsList(vs) /\ Len(vs) = Len(ts) /\ Len(vs) <= 3
  /\ \A i \in DOMAIN vs : Fine(ts[i], vs[i])

\* A few arguments fit in a payload.
LEMMA ArgumentsFit ==
  ASSUME NEW ts, NEW vs, FineAll(ts, vs)
  PROVE  WriteAll(ts, vs) \in Buffer /\ Len(WriteAll(ts, vs)) \in Nat /\ Len(WriteAll(ts, vs)) <= 3 * MaxBytes
<1> DEFINE t == Tuple(ts)
           n == Len(vs)
           w == [i \in 1 .. n |-> Write(ts[i], vs[i])]
<1>1. /\ n \in 0 .. 3 /\ DOMAIN vs = 1 .. n
      /\ \A i \in 1 .. n : Typed(ts[i], vs[i]) /\ Len(Write(ts[i], vs[i])) <= MaxBytes
  BY DEF FineAll, IsList, Fine
<1>2. t.kind = "tuple" /\ t.fields = ts
  BY DEF Tuple
<1>3. \A i \in 1 .. n : Write(ts[i], vs[i]) \in Buffer
  BY <1>1, Level3Written
<1> HIDE DEF t, n
<1>4. w \in [1 .. n -> Buffer] /\ \A i \in 1 .. n : Len(w[i]) <= MaxBytes
  BY <1>1, <1>3
<1>5. WriteAll(ts, vs) = FlattenSeq(w)
  <2>1. Nests(t) /\ Parts(t, vs) = vs
        /\ \A i : PartType(t, i) = ts[i]
    BY <1>2 DEF Nests, Listed, Records, Parts, PartType,
                Fields
  <2>2. WriteAll(ts, vs) = WriteNested(t, w)
    BY <1>1, <2>1 DEF WriteAll, WriteOver, t
  <2> QED BY <1>2, <2>2 DEF WriteNested, Records
<1> HIDE DEF w
<1>6. PICK f : /\ f[0] = <<>>
               /\ \A i \in 0 .. n : f[i] \in Buffer
               /\ \A i \in 1 .. n : f[i] = f[i - 1] \o w[i] /\ Len(f[i]) = Len(f[i - 1]) + Len(w[i])
               /\ FlattenSeq(w) = f[n]
  <2>1. n \in Nat
    BY <1>1
  <2> QED BY <1>4, <2>1, FlattenSteps
<1>7. \A i \in 0 .. n : Len(f[i]) \in Nat
  BY <1>6 DEF Buffer
<1>8. \A i \in 1 .. n : Len(w[i]) \in Nat
  BY <1>4 DEF Buffer
<1>9. Len(f[n]) <= 3 * MaxBytes
  <2>0. Len(f[0]) = 0
    BY <1>6
  <2>1. n >= 1 => Len(f[1]) <= MaxBytes
    <3> DEFINE i == 1
    <3>1. n >= 1 => i \in 1 .. n /\ i - 1 = 0
      BY <1>1
    <3> HIDE DEF i
    <3>2. n >= 1 => Len(f[i]) <= MaxBytes
      BY <2>0, <3>1, <1>4, <1>6, <1>8
    <3> QED BY <3>2 DEF i
  <2>2. n >= 2 => Len(f[2]) <= 2 * MaxBytes
    <3> DEFINE i == 2
    <3>1. n >= 2 => i \in 1 .. n /\ i - 1 = 1 /\ 1 \in 0 .. n
      BY <1>1
    <3> HIDE DEF i
    <3>2. n >= 2 => /\ Len(f[i]) = Len(f[1]) + Len(w[i]) /\ Len(w[i]) <= MaxBytes
                    /\ Len(w[i]) \in Nat /\ Len(f[1]) \in Nat
      BY <3>1, <1>4, <1>6, <1>7, <1>8
    <3>3. n >= 2 => n >= 1
      BY <1>1
    <3>4. n >= 2 => Len(f[i]) <= 2 * MaxBytes
      BY <2>1, <3>2, <3>3, Sums
    <3> QED BY <3>4 DEF i
  <2>3. n >= 3 => Len(f[3]) <= 3 * MaxBytes
    <3> DEFINE i == 3
    <3>1. n >= 3 => i \in 1 .. n /\ i - 1 = 2 /\ 2 \in 0 .. n
      BY <1>1
    <3> HIDE DEF i
    <3>2. n >= 3 => /\ Len(f[i]) = Len(f[2]) + Len(w[i]) /\ Len(w[i]) <= MaxBytes
                    /\ Len(w[i]) \in Nat /\ Len(f[2]) \in Nat
      BY <3>1, <1>4, <1>6, <1>7, <1>8
    <3>3. n >= 3 => n >= 2
      BY <1>1
    <3>4. n >= 3 => Len(f[i]) <= 3 * MaxBytes
      BY <2>2, <3>2, <3>3, Sums
    <3> QED BY <3>4 DEF i
  <2>4. n = 0 \/ n = 1 \/ n = 2 \/ n = 3
    BY <1>1
  <2> QED BY <2>0, <2>1, <2>2, <2>3, <2>4, <1>7, MaxFits, SMT
<1>10. n \in 0 .. n
  BY <1>1
<1> QED BY <1>5, <1>6, <1>7, <1>9, <1>10, MaxFits

\* The bytes of arguments are the same on both sides, and read back whole; cut short,
\* they are refused.
LEMMA FineArguments ==
  ASSUME NEW ts, NEW vs, FineAll(ts, vs)
  PROVE  LET w == WriteAll(ts, vs)
         IN  /\ w \in Buffer /\ Len(w) \in Count
             /\ PutAll(ts, vs) = w
             /\ ReadAll(ts, w, 1) = Read(vs, 1 + Len(w))
             /\ \A n \in 0 .. Len(w) - 1 : ~ReadAll(ts, SubSeq(w, 1, n), 1).ok
             /\ (\A i \in DOMAIN vs : ts[i] \in ReadTypes) => Reads(GetAll(ts, w, 0), vs)
<1> DEFINE w == WriteAll(ts, vs)
           p == 1
<1>1. TypedAll(ts, vs) /\ \A i \in DOMAIN vs : Typed(ts[i], vs[i])
  BY DEF FineAll, TypedAll, Fine
<1>2. w \in Buffer /\ PutAll(ts, vs) = w
  BY <1>1, ArgumentsWritten
<1>3. Len(w) \in Nat /\ Len(w) <= 3 * MaxBytes
  BY ArgumentsFit
<1> HIDE DEF w
<1>4. Len(w) \in Count
  BY <1>3, MaxFits
<1>5. Stands(w, p, w) /\ p \in Nat /\ p >= 1 /\ p - 1 = 0
  BY <1>2, StandsWhole
<1> HIDE DEF p
<1>6. CppReads(ReadAll(ts, w, p), w, p, w, vs)
  BY <1>1, <1>2, <1>5, ArgumentsRead DEF w
<1>7. ReadAll(ts, w, p) = Read(vs, p + Len(w))
  BY <1>5, <1>6 DEF CppReads
<1>8. ASSUME NEW n \in 0 .. Len(w) - 1 PROVE ~ReadAll(ts, SubSeq(w, 1, n), p).ok
  <2> DEFINE b == SubSeq(w, 1, n)
  <2>1. b \in Buffer /\ Ends(b, p, w)
    BY <1>2, StandsWhole DEF p
  <2> HIDE DEF b
  <2>2. CppReads(ReadAll(ts, b, p), b, p, w, vs)
    BY <1>1, <1>5, <2>1, ArgumentsRead DEF w
  <2> QED BY <2>1, <2>2 DEF CppReads, b
<1>9. ASSUME \A i \in DOMAIN vs : ts[i] \in ReadTypes
      PROVE  Reads(GetAll(ts, w, p - 1), vs)
  <2>1. ReceivedAll(ts, vs)
    BY <1>1, <1>9, ReadTypesReceived DEF ReceivedAll
  <2>2. DartReads(GetAll(ts, w, p - 1), w, p, w, vs)
    BY <1>1, <1>2, <1>5, <2>1, ArgumentsRead DEF w
  <2> QED BY <1>5, <2>2 DEF DartReads, Got, Reads
<1> QED BY <1>2, <1>4, <1>5, <1>7, <1>8, <1>9 DEF w, p

-----------------------------------------------------------------------------
\* What a frame says to the side that parses it.
Said(type, req, method, payload) ==
  [ok |-> TRUE, type |-> type, req |-> req, method |-> method, payload |-> payload]

\* A frame with nothing after it says what its maker meant.
LEMMA FrameSays ==
  ASSUME NEW type \in 1 .. 7, NEW req \in Count, NEW method \in Count,
         NEW payload \in Buffer, Len(payload) \in Count
  PROVE  /\ parse_frame(makeFrame(type, req, method, payload)) = Said(type, req, method, payload)
         /\ parseFrame(make_frame(type, req, method, payload)) = Said(type, req, method, payload)
         /\ Len(makeFrame(type, req, method, payload)) = 24 + Len(payload)
         /\ \A n \in 0 .. 23 + Len(payload) :
              ~parse_frame(SubSeq(makeFrame(type, req, method, payload), 1, n)).ok
<1> DEFINE f == make_frame(type, req, method, payload)
<1>1. type \in Octet /\ type \in MsgTypes
  BY DEF Octet, MsgTypes
<1>2. /\ makeFrame(type, req, method, payload) = f
      /\ f \in Buffer /\ Len(f) = 24 + Len(payload)
      /\ FrameStands(f, type, req, method, payload)
  BY <1>1, FrameLaid
<1>3. \A n \in 0 .. 23 + Len(payload) :
        ~parse_frame(SubSeq(makeFrame(type, req, method, payload), 1, n)).ok
  BY <1>1, CutFramesAreRefused
<1> HIDE DEF f
<1>4. parse_frame(f) = Said(type, req, method, payload)
      /\ parseFrame(f) = Said(type, req, method, payload)
  BY <1>1, <1>2, WholeFrameRead DEF Said
<1> QED BY <1>2, <1>3, <1>4 DEF f

\* The texts of the errors a dispatcher or a method answers with.
Texts == {BadFrame, NoMethod, Short, NoObject, Thrown}

\* Dart reads the text of an error.
ErrorRead(payload, text) ==
  LET r == GetAll(<<I32, Str>>, payload, 0) IN r.ok /\ r.v[2] = text

\* An error is read as it was written.
LEMMA ErrorsCross ==
  ASSUME NEW text \in Texts
  PROVE  /\ ErrPayload(text) \in Buffer /\ Len(ErrPayload(text)) \in Count
         /\ ErrorRead(ErrPayload(text), text)
<1> DEFINE ts == <<I32, Str>>
           vs == <<1, text>>
<1>1. text \in Buffer /\ Len(text) = 1
  <2>1. 1 \in Octet /\ 2 \in Octet /\ 3 \in Octet /\ 4 \in Octet /\ 5 \in Octet
    BY DEF Octet
  <2>2. text = <<1>> \/ text = <<2>> \/ text = <<3>> \/ text = <<4>> \/ text = <<5>>
    BY DEF Texts, BadFrame, NoMethod, Short, NoObject, Thrown
  <2> QED BY <2>1, <2>2, Encodings
<1>2. Fine(I32, 1)
  <2>1. Typed(I32, 1) /\ Write(I32, 1) = LE4(1)
    <3>1. ~Nests(I32) /\ I32.kind = "i32"
      BY DEF I32, Plain, Nests, Listed, Records
    <3>2. 1 \in Integer
      BY Ranges, SMT
    <3>3. Typed(I32, 1)
      BY <3>1, <3>2 DEF Typed, TypedOver, ScalarValue
    <3>4. Write(I32, 1) = WriteScalar(I32, 1)
      BY <3>1 DEF Write, Write2, Write1, WriteOver
    <3>5. WriteScalar(I32, 1) = WriteU32(1)
      BY <3>1 DEF WriteScalar
    <3> QED BY <3>3, <3>4, <3>5, OneWire
  <2>2. Len(LE4(1)) = 4
    BY Encodings
  <2>3. 4 =< MaxBytes
    BY SMT DEF MaxBytes
  <2> QED BY <2>1, <2>2, <2>3, Zenon DEF Fine
<1>3. Fine(Str, text)
  <2>0. Len(text) \in Count
    BY <1>1, Ranges, SMT
  <2>1. Typed(Str, text) /\ Write(Str, text) = LE4(Len(text)) \o text
    <3>1. ~Nests(Str) /\ Str.kind = "str"
      BY DEF Str, Plain, Nests, Listed, Records
    <3>3. Typed(Str, text)
      BY <3>1, <1>1, <2>0 DEF Typed, TypedOver, ScalarValue
    <3>4. Write(Str, text) = WriteScalar(Str, text)
      BY <3>1 DEF Write, Write2, Write1, WriteOver
    <3>5. WriteScalar(Str, text) = WriteStr(text)
      BY <3>1 DEF WriteScalar
    <3> QED BY <3>3, <3>4, <3>5, <1>1, <2>0, TextBytes
  <2>2. Len(LE4(Len(text)) \o text) = 5
    <3>1. Len(LE4(Len(text)) \o text) = 4 + Len(text)
      BY <1>1, <2>0, TextBytes
    <3> QED BY <1>1, <3>1
  <2>3. Len(LE4(Len(text)) \o text) =< MaxBytes
    BY <2>2, SMT DEF MaxBytes
  <2> QED BY <2>1, <2>3, Zenon DEF Fine
<1> HIDE DEF vs
<1>4. FineAll(ts, vs) /\ vs[2] = text
  <2>1. vs = [i \in 1 .. 2 |-> vs[i]] /\ Len(vs) = 2 /\ DOMAIN vs = 1 .. 2 /\ vs[1] = 1 /\ vs[2] = text
    BY DEF vs
  <2>2. ts[1] = I32 /\ ts[2] = Str /\ Len(ts) = 2
    OBVIOUS
  <2>3. \A i \in 1 .. 2 : Fine(ts[i], vs[i])
    BY <1>2, <1>3, <2>1, <2>2
  <2> QED BY <2>1, <2>2, <2>3 DEF FineAll, IsList
<1>5. \A i \in DOMAIN vs : ts[i] \in ReadTypes
  <2>1. I32 \in ReadTypes /\ Str \in ReadTypes
    BY DEF ReadTypes, AnswerTypes
  <2> QED BY <2>1 DEF vs
<1>6. ErrPayload(text) = WriteAll(ts, vs)
  BY DEF ErrPayload, vs
<1> HIDE DEF ts
<1>7. /\ WriteAll(ts, vs) \in Buffer /\ Len(WriteAll(ts, vs)) \in Count
      /\ Reads(GetAll(ts, WriteAll(ts, vs), 0), vs)
  BY <1>4, <1>5, FineArguments
<1> QED BY <1>4, <1>6, <1>7 DEF Reads, ErrorRead, ts

-----------------------------------------------------------------------------
\* A C callback is called with the bytes the C++ codec would have written.
LEMMA WrittenInC ==
  ASSUME NEW vs, FineAll(<<Str>>, vs)
  PROVE  dcb_write(Str, vs[1]) = WriteAll(<<Str>>, vs)
<1> DEFINE ts == <<Str>>
           t == Tuple(ts)
           one == 1
           w == [i \in 1 .. one |-> Write(ts[i], vs[i])]
           s == vs[1]
<1>1. ts[1] = Str /\ Len(ts) = 1 /\ one = 1 /\ one \in Nat
  OBVIOUS
<1> HIDE DEF ts
<1>2. DOMAIN vs = 1 .. one /\ Typed(Str, vs[1])
  BY <1>1 DEF FineAll, IsList, Fine, ts
<1>3. ~Nests(Str) /\ Str.kind = "str"
  BY DEF Str, Plain, Nests, Listed, Records
<1>4. s \in Buffer /\ Len(s) \in Count
  BY <1>2, <1>3 DEF Typed, TypedOver, ScalarValue
<1> HIDE DEF s
<1>5. Write(Str, s) = LE4(Len(s)) \o s
  <2>1. Write(Str, s) = WriteScalar(Str, s)
    BY <1>3 DEF Write, Write2, Write1, WriteOver
  <2>2. WriteScalar(Str, s) = WriteStr(s)
    BY <1>3 DEF WriteScalar
  <2> QED BY <1>4, <2>1, <2>2, TextBytes
<1>6. dcb_write(Str, s) = LE4(Len(s)) \o s
  BY <1>3, <1>4, TextBytes DEF dcb_write
<1>7. t.kind = "tuple" /\ t.fields = ts
  BY DEF Tuple
<1> HIDE DEF t, one
<1>8. WriteAll(ts, vs) = FlattenSeq(w)
  <2>1. Nests(t) /\ Parts(t, vs) = vs
        /\ \A i : PartType(t, i) = ts[i]
    BY <1>7 DEF Nests, Listed, Records, Parts, PartType,
                Fields
  <2>2. WriteAll(ts, vs) = WriteNested(t, w)
    BY <1>2, <2>1 DEF WriteAll, WriteOver, t
  <2> QED BY <1>7, <2>2 DEF WriteNested, Records
<1>9. w \in [1 .. one -> Buffer] /\ w[1] = LE4(Len(s)) \o s /\ LE4(Len(s)) \o s \in Buffer
  <2>1. LE4(Len(s)) \o s \in Buffer
    BY <1>4, TextBytes
  <2>2. 1 .. one = {1} /\ 1 \in 1 .. one
    BY <1>1
  <2>3. Write(ts[1], vs[1]) = LE4(Len(s)) \o s
    BY <1>1, <1>5 DEF s
  <2>4. w[1] = Write(ts[1], vs[1])
    BY <2>2
  <2>5. \A i \in 1 .. one : Write(ts[i], vs[i]) \in Buffer
    BY <2>1, <2>2, <2>3
  <2> QED BY <2>1, <2>3, <2>4, <2>5
<1> HIDE DEF w
<1>10. PICK f : /\ f[0] = <<>>
                /\ \A i \in 0 .. one : f[i] \in Buffer
                /\ \A i \in 1 .. one : f[i] = f[i - 1] \o w[i]
                /\ FlattenSeq(w) = f[one]
  BY <1>1, <1>9, FlattenSteps
<1>11. f[one] = <<>> \o w[1] /\ <<>> \o w[1] = w[1]
  <2>1. one \in 1 .. one /\ one - 1 = 0 /\ w[one] = w[1]
    BY <1>1
  <2>2. f[one] = f[0] \o w[1]
    BY <1>10, <2>1
  <2>3. <<>> \o w[1] = w[1]
    BY <1>9 DEF Buffer
  <2> QED BY <1>10, <2>2, <2>3
<1> QED BY <1>6, <1>8, <1>9, <1>10, <1>11 DEF s, ts

\* The id of a closure and its arguments are read as they were written.
LEMMA ClosureCallCrosses ==
  ASSUME NEW id \in Count, NEW ts, NEW vs, FineAll(ts, vs), \A i \in DOMAIN vs : ts[i] \in ReadTypes
  PROVE  LET payload == WriteU64(id) \o WriteAll(ts, vs)
         IN  /\ payload \in Buffer /\ Len(payload) \in Count
             /\ GetU64(payload, 0).v = id
             /\ Reads(GetAll(ts, payload, 8), vs)
<1> DEFINE head == WriteU64(id)
           w == WriteAll(ts, vs)
           payload == head \o w
           p == 9
           q == 1
<1>1. head = LE8(id) /\ head \in Buffer /\ Len(head) = 8
  BY OneWire, Encodings, Numbers
<1>2. w \in Buffer /\ Len(w) \in Nat /\ Len(w) <= 3 * MaxBytes
  BY ArgumentsFit
<1>3. TypedAll(ts, vs) /\ ReceivedAll(ts, vs)
  BY ReadTypesReceived DEF FineAll, TypedAll, Fine, ReceivedAll
<1> HIDE DEF head, w
<1>4. /\ payload \in Buffer /\ Len(payload) = 8 + Len(w) /\ Stands(payload, Len(head) + 1, w)
      /\ Stands(payload, 1, head)
  <2>1. Stands(head, 1, head)
    BY <1>1, StandsWhole
  <2>2. /\ payload \in Buffer /\ Len(payload) = Len(head) + Len(w)
        /\ Stands(payload, Len(head) + 1, w)
        /\ \A x \in Buffer, y \in Nat : y >= 1 /\ Stands(head, y, x) => Stands(payload, y, x)
    BY <1>1, <1>2, StandsConcat
  <2> QED BY <1>1, <2>1, <2>2
<1>5. Len(payload) \in Count
  BY <1>2, <1>4, MaxFits
<1>6. /\ p \in Nat /\ p >= 1 /\ p - 1 = 8 /\ Len(head) + 1 = p
      /\ q \in Nat /\ q >= 1 /\ q - 1 = 0
  BY <1>1
<1> HIDE DEF payload, p
<1>7. GetU64(payload, q - 1) = Got(id, q + 7)
  <2>1. Stands(payload, q, LE8(id))
    BY <1>1, <1>4
  <2> HIDE DEF q
  <2> QED BY <1>4, <1>6, <2>1, FieldRead
<1>8. DartReads(GetAll(ts, payload, p - 1), payload, p, w, vs)
  BY <1>3, <1>4, <1>6, ArgumentsRead DEF w
<1>9. Reads(GetAll(ts, payload, 8), vs)
  BY <1>4, <1>6, <1>8 DEF DartReads, Reads, Got
<1>10. GetU64(payload, 0).v = id
  BY <1>6, <1>7 DEF Got
<1> QED BY <1>4, <1>5, <1>9, <1>10 DEF payload, head, w

\* What a closure gave is read back by the C++ decoder and by the C reader.
LEMMA ReplyCrosses ==
  ASSUME NEW v, Fine(Str, v)
  PROVE  /\ Reads(ReadOne(Str, Put(Str, v), 1), v)
         /\ dcb_read_len_bytes(dcb_reader_init(Put(Str, v))).v = v
<1> DEFINE b == Put(Str, v)
           p == 1
<1>1. Reads(ReadOne(Str, b, 1), v) /\ b = Write(Str, v) /\ b \in Buffer
  BY FineCrosses
<1>2. ~Nests(Str) /\ Str.kind = "str"
  BY DEF Str, Plain, Nests, Listed, Records
<1>3. v \in Buffer /\ Len(v) \in Count
  BY <1>2 DEF Fine, Typed, TypedOver, ScalarValue
<1>4. b = LE4(Len(v)) \o v
  <2>1. Write(Str, v) = WriteScalar(Str, v)
    BY <1>2 DEF Write, Write2, Write1, WriteOver
  <2>2. WriteScalar(Str, v) = WriteStr(v)
    BY <1>2 DEF WriteScalar
  <2> QED BY <1>1, <1>3, <2>1, <2>2, TextBytes
<1> HIDE DEF b
<1>5. p \in Nat /\ p >= 1 /\ p - 1 = 0
  OBVIOUS
<1>6. Stands(b, p, b)
  BY <1>1, StandsWhole
<1>7. Stands(b, p, LE4(Len(v))) /\ Stands(b, p + 4, v)
  <2>1. LE4(Len(v)) \in Buffer /\ Len(LE4(Len(v))) = 4
    BY <1>3, Encodings, Numbers
  <2> DEFINE l == LE4(Len(v))
  <2> HIDE DEF p, l
  <2>2. b = l \o v /\ l \in Buffer /\ Len(l) = 4
    BY <1>4, <2>1 DEF l
  <2>3. Stands(b, p, l \o v)
    BY <1>6, <2>2
  <2>4. Stands(b, p, l) /\ Stands(b, p + Len(l), v)
    BY <1>1, <1>3, <1>5, <2>2, <2>3, StandsSplit
  <2> QED BY <2>2, <2>4 DEF l
<1> HIDE DEF p
<1>8. dcb_read_len_bytes([data |-> b, pos |-> p - 1, error |-> FALSE]).v = v
  <2> DEFINE x == dcb_read_len_bytes([data |-> b, pos |-> p - 1, error |-> FALSE])
             y == [v |-> v, r |-> [data |-> b, pos |-> p + 3 + Len(v), error |-> FALSE]]
  <2>1. x = y
    BY <1>1, <1>3, <1>5, <1>7, ReadText
  <2>2. y.v = v
    OBVIOUS
  <2> HIDE DEF x, y
  <2>3. x.v = v
    BY <2>1, <2>2
  <2> QED BY <2>3 DEF x
<1>9. dcb_reader_init(b) = [data |-> b, pos |-> p - 1, error |-> FALSE]
  BY <1>5 DEF dcb_reader_init
<1> QED BY <1>1, <1>8, <1>9 DEF b

-----------------------------------------------------------------------------
\* The values that stand for choices are values of their types, for the types of the
\* libraries that are called.
LEMMA ValuesKnown ==
  ASSUME NEW lib \in Libraries, NEW row \in Rows(lib), NEW c \in Variants
  PROVE  /\ row.res # Void => Fine(row.res, Value(row.res, c))
         /\ row.res = Void => Value(row.res, c) = <<>>
         /\ \A k \in DOMAIN row.args :
              /\ row.args[k].kind \notin {"fn", "progress", "void"} => Fine(row.args[k], Value(row.args[k], c))
              /\ row.args[k].kind = "progress" /\ row.args[k].of # Void =>
                   Fine(row.args[k].of, Value(row.args[k].of, c))
<1>1. \A t \in AllTypes : IF t = Void THEN Value(t, c) = <<>> ELSE Fine(t, Value(t, c))
  BY ValueAssumption DEF Fine
<1>2. Types(row) \subseteq AllTypes
  BY DEF AllTypes
<1>3. row.res \in AllTypes
  BY <1>2 DEF Types
<1>4. ASSUME NEW k \in DOMAIN row.args
      PROVE  Crossing(row.args[k]) \subseteq AllTypes
  BY <1>2 DEF Types, Elements
<1>5. \A t : t.kind \notin {"fn", "progress"} => Crossing(t) = {t}
  BY DEF Crossing
<1>6. \A t : t.kind = "progress" => Crossing(t) = {t.of}
  BY DEF Crossing
<1>7. Void.kind = "void"
  BY DEF Void, Plain
<1> QED BY <1>1, <1>3, <1>4, <1>5, <1>6, <1>7

\* The texts that closures take and give are values that cross.
LEMMA TextsKnown ==
  ASSUME NEW c \in Variants
  PROVE  Fine(Str, Value(Str, c))
<1>1. Str \in AllTypes /\ Str # Void
  BY DEF AllTypes, Str, Void, Plain
<1> QED BY <1>1, ValueAssumption DEF Fine

\* A closure is passed as its id, a stream beside the result too.
LEMMA IdsFine ==
  ASSUME NEW t, t.kind \in {"fn", "progress"}, NEW n \in 0 .. 9
  PROVE  Fine(t, n)
<1>1. ~Nests(t)
  BY DEF Nests, Listed, Records
<1>2. n \in Count
  BY Ranges, SMT
<1>3. Typed(t, n)
  BY <1>1, <1>2 DEF Typed, TypedOver, ScalarValue
<1>4. Write(t, n) = WriteScalar(t, n)
  BY <1>1 DEF Write, Write2, Write1, WriteOver
<1>5. WriteScalar(t, n) = WriteU64(n)
  BY DEF WriteScalar
<1>6. Len(Write(t, n)) = 8
  BY <1>4, <1>5, OneWire, Encodings
<1> QED BY <1>3, <1>6, SMT DEF Fine, MaxBytes

\* What a proxy passes are values of the types it writes.
LEMMA ArgumentsFine ==
  ASSUME NEW lib \in Libraries, NEW p \in Proxies(lib), NEW choice \in [DOMAIN p.args -> Variants],
         NEW listening \in BOOLEAN, FreshFn \in 1 .. 3
  PROVE  FineAll(p.args, Arguments(p, choice, listening))
<1> DEFINE args == Arguments(p, choice, listening)
<1>1. lib \in Names /\ p \in Rows(lib)
  BY WireAssumption DEF Rows
<1>2. p.args \in Seq(ArgTypes) /\ Len(p.args) <= 3
  BY <1>1, ProxyRow
<1>3. args = [k \in 1 .. Len(p.args) |-> Argument(p.args[k], choice[k], listening)]
      /\ Len(p.args) \in Nat /\ DOMAIN p.args = 1 .. Len(p.args)
  BY <1>2 DEF Arguments
<1> HIDE DEF args
<1>4. DOMAIN args = 1 .. Len(p.args) /\ Len(args) = Len(p.args) /\ IsList(args)
  <2>1. DOMAIN args = 1 .. Len(p.args) /\ args = [k \in 1 .. Len(p.args) |-> args[k]]
    BY <1>3
  <2>2. Len(args) = Len(p.args)
    BY <1>3, <2>1
  <2> QED BY <1>3, <2>1, <2>2 DEF IsList
<1>5. ASSUME NEW k \in 1 .. Len(p.args)
      PROVE  Fine(p.args[k], args[k])
  <2> DEFINE t == p.args[k]
  <2>1. args[k] = Argument(t, choice[k], listening) /\ choice[k] \in Variants /\ t \in ArgTypes
        /\ k \in DOMAIN p.args
    BY <1>2, <1>3
  <2>2. t.kind # "void"
    BY <2>1, ArgKinds
  <2>3. t.kind \notin {"fn", "progress"} => Fine(t, Value(t, choice[k]))
    BY <1>1, <2>1, <2>2, ValuesKnown
  <2> HIDE DEF t
  <2>4. t.kind = "fn" => Argument(t, choice[k], listening) = FreshFn
    BY DEF Argument
  <2>5. t.kind = "progress" => Argument(t, choice[k], listening) \in {0, 7}
    BY DEF Argument, CallId
  <2>6. t.kind \notin {"fn", "progress"} => Argument(t, choice[k], listening) = Value(t, choice[k])
    BY DEF Argument
  <2>7. t.kind = "fn" => Fine(t, FreshFn)
    BY IdsFine
  <2>8. t.kind = "progress" => Fine(t, 0) /\ Fine(t, 7)
    BY IdsFine
  <2> QED BY <2>1, <2>3, <2>4, <2>5, <2>6, <2>7, <2>8 DEF t
<1> QED BY <1>2, <1>4, <1>5 DEF FineAll, args

-----------------------------------------------------------------------------
\* A refusal has one of a few texts.
LEMMA RefusalTexts ==
  ASSUME NEW bytes, NEW table, ~Decode(bytes, table).ok
  PROVE  Decode(bytes, table).text \in Texts
<1> DEFINE f == parse_frame(bytes)
           d == DecodeFrame(f, table)
<1>1. ~d.ok /\ d = Decode(bytes, table)
  BY DEF Decode
<1> HIDE DEF f
<1>2. \A id, text : Refused(id, text).text = text /\ ~Refused(id, text).ok
  BY DEF Refused
<1>3. \A row, args : ~DecodeArgs(f, row, args).ok => DecodeArgs(f, row, args).text \in Texts
  BY <1>2 DEF DecodeArgs, Texts
<1> QED BY <1>1, <1>2, <1>3 DEF DecodeFrame, DecodeRow, Texts

\* The frame of a request.
RequestFrame(id, method, payload) == makeFrame(MsgType.request, id, method, payload)

\* A request of a method the table has is decoded by a row of its id.
LEMMA RequestDecodes ==
  ASSUME NEW id \in {0, CallId}, NEW method \in Count, NEW payload \in Buffer, Len(payload) \in Count,
         NEW table
  PROVE  LET d == Decode(RequestFrame(id, method, payload), table)
             f == Said(MsgType.request, id, method, payload)
         IN  /\ (\A r \in table : r.id # method) => d = Refused(id, NoMethod)
             /\ (\E r \in table : r.id = method) =>
                  \E r \in table : r.id = method /\ d = DecodeRow(f, r)
<1> DEFINE f == Said(MsgType.request, id, method, payload)
           d == Decode(RequestFrame(id, method, payload), table)
<1>1. MsgType.request \in 1 .. 7 /\ id \in Count
  BY Ranges, SMT DEF MsgType, CallId
<1>2. parse_frame(RequestFrame(id, method, payload)) = f
  BY <1>1, FrameSays DEF RequestFrame
<1>3. f.ok = TRUE /\ f.req = id /\ f.method = method
  BY DEF Said
<1> HIDE DEF f
<1>4. d = DecodeFrame(f, table)
  BY <1>2 DEF Decode
<1> HIDE DEF d
<1>5. (\A r \in table : r.id # method) => d = Refused(id, NoMethod)
  BY <1>3, <1>4 DEF DecodeFrame
<1>6. ASSUME \E r \in table : r.id = method
      PROVE  \E r \in table : r.id = method /\ d = DecodeRow(f, r)
  <2> DEFINE r == CHOOSE r \in table : r.id = f.method
  <2>1. r \in table /\ r.id = method
    BY <1>3, <1>6
  <2>2. d = DecodeRow(f, r)
    BY <1>3, <1>4, <1>6 DEF DecodeFrame
  <2> QED BY <2>1, <2>2
<1> QED BY <1>5, <1>6 DEF d, f

\* A frame cut short is refused under id 0.
LEMMA CutFrameDecodes ==
  ASSUME NEW id \in {0, CallId}, NEW method \in Count, NEW payload \in Buffer, Len(payload) \in Count,
         NEW table, NEW n \in Nat, n < Len(RequestFrame(id, method, payload))
  PROVE  Decode(CutTo(n, RequestFrame(id, method, payload)), table) = Refused(0, BadFrame)
<1>1. MsgType.request \in 1 .. 7 /\ id \in Count
  BY Ranges, SMT DEF MsgType, CallId
<1>2. n \in 0 .. 23 + Len(payload)
  <2>1. Len(RequestFrame(id, method, payload)) = 24 + Len(payload)
    BY <1>1, FrameSays DEF RequestFrame
  <2>2. Len(payload) \in Nat
    BY DEF Buffer
  <2> QED BY <2>1, <2>2
<1>3. ~parse_frame(CutTo(n, RequestFrame(id, method, payload))).ok
  BY <1>1, <1>2, FrameSays DEF RequestFrame, CutTo
<1> QED BY <1>3 DEF Decode, DecodeFrame

\* No method has the id nobody has.
LEMMA NobodyHas ==
  ASSUME NEW lib \in Names
  PROVE  /\ \A r \in Requests(lib) : r.id # Unknown
         /\ \A r \in SyncRequests(lib) : r.id # Unknown
<1>1. /\ \A r \in CodegenCpp!Requests : Id(r) # 2147483646
      /\ \A r \in CodegenCpp!SyncRequests : Id(r) # 2147483646
  BY CodegenRows, FitsIds, SMTT(60) DEF CodegenCpp!Requests, CodegenCpp!SyncRequests
<1>2. /\ \A r \in ForeignCpp!Requests : Id(r) # 2147483646
      /\ \A r \in ForeignCpp!SyncRequests : Id(r) # 2147483646
  BY ForeignRows, FitsIds, SMTT(60) DEF ForeignCpp!Requests, ForeignCpp!SyncRequests
<1>3. /\ \A r \in MultiCpp!Requests : Id(r) # 2147483646
      /\ \A r \in MultiCpp!SyncRequests : Id(r) # 2147483646
  BY MultiRows, FitsIds, SMTT(60) DEF MultiCpp!Requests, MultiCpp!SyncRequests
<1>4. /\ \A r \in BaseCpp!Requests : Id(r) # 2147483646
      /\ \A r \in BaseCpp!SyncRequests : Id(r) # 2147483646
  BY BaseRows, FitsIds, SMTT(60) DEF BaseCpp!Requests, BaseCpp!SyncRequests
<1>5. CASE lib = "codegen"
  BY <1>1, <1>5, SMT DEF Requests, SyncRequests, Id, Unknown
<1>6. CASE lib = "foreign"
  BY <1>2, <1>6, SMT DEF Requests, SyncRequests, Id, Unknown
<1>7. CASE lib = "multi"
  BY <1>3, <1>7, SMT DEF Requests, SyncRequests, Id, Unknown
<1>8. CASE lib = "base"
  BY <1>4, <1>8, SMT DEF Requests, SyncRequests, Id, Unknown
<1> QED BY <1>5, <1>6, <1>7, <1>8 DEF Names

\* The ids of methods, and the one nobody has, fit in four bytes.
LEMMA MethodIds ==
  /\ \A lib \in Names : \A p \in Proxies(lib) : p.id \in Count
  /\ Unknown \in Count
<1>1. Unknown \in Count /\ \A n \in Int : 0 <= n /\ n < Unknown => n \in Count
  BY Ranges, SMT DEF Unknown
<1> QED BY <1>1, ProxyRow

\* A call arrives as it was made, unless it names an object that is no more.
LEMMA CallDecodes ==
  ASSUME NEW lib \in Libraries, NEW p \in Proxies(lib), NEW args, FineAll(p.args, args),
         NEW entry \in {"async", "sync"}, \E r \in Table(lib, entry) : r.id = p.id,
         NEW id \in {0, CallId}
  PROVE  LET d == Decode(RequestFrame(id, p.id, PutAll(p.args, args)), Table(lib, entry))
         IN  /\ d.id = id
             /\ IF d.ok THEN /\ d.row \in Table(lib, entry) /\ d.row.id = p.id
                             /\ d.args = args /\ d.unread = 0
                ELSE d.text = NoObject /\ p \notin KeepsFn(lib)
<1> DEFINE payload == PutAll(p.args, args)
           f == Said(MsgType.request, id, p.id, payload)
           d == Decode(RequestFrame(id, p.id, payload), Table(lib, entry))
<1>1. lib \in Names
  BY WireAssumption
<1>2. /\ payload \in Buffer /\ Len(payload) \in Count
      /\ ReadAll(p.args, payload, 1) = Read(args, 1 + Len(payload))
  BY FineArguments
<1> HIDE DEF payload, d
<1>3. PICK r \in Table(lib, entry) : r.id = p.id /\ d = DecodeRow(f, r)
  BY <1>1, <1>2, MethodIds, RequestDecodes DEF d
<1>4. r \in Requests(lib) \cup SyncRequests(lib)
  BY DEF Table
<1>5. r.args = p.args
  BY <1>1, <1>3, <1>4, RowServes
<1>6. f.payload = payload /\ f.req = id
  BY DEF Said
<1> HIDE DEF f
<1> DEFINE a == Read(args, 1 + Len(payload))
           bad == ~(\A k \in DOMAIN a.v : ObjectsIn(r.args[k], a.v[k]) \subseteq LiveObjects)
<1>7. a.ok = TRUE /\ a.v = args /\ a.next = 1 + Len(payload)
  BY DEF Read
<1>8. d = DecodeArgs(f, r, a)
  BY <1>2, <1>3, <1>5, <1>6 DEF DecodeRow
<1> HIDE DEF a
<1>9. CASE bad
  <2>1. d = Refused(id, NoObject)
    BY <1>6, <1>7, <1>8, <1>9 DEF DecodeArgs
  <2>2. d.id = id /\ d.text = NoObject /\ d.ok = FALSE
    BY <2>1 DEF Refused
  <2>3. ASSUME p \in KeepsFn(lib)
        PROVE  FALSE
    <3>1. r \in Registering /\ p.args = <<StringFn>>
      BY <1>1, <1>3, <1>4, <2>3, RowServes
    <3>2. \A v : ObjectsIn(StringFn, v) = {}
      BY DEF ObjectsIn, StringFn, DartFn, Counter, Plain, Vec
    <3>3. DOMAIN args = {1}
      BY <3>1 DEF FineAll, IsList
    <3> QED BY <1>5, <1>7, <1>9, <3>1, <3>2, <3>3
  <2> QED BY <2>2, <2>3 DEF d, payload
<1>10. CASE ~bad
  <2>1. d = [ok |-> TRUE, id |-> f.req, row |-> r, args |-> a.v,
             unread |-> Len(f.payload) + 1 - a.next]
    BY <1>7, <1>8, <1>10 DEF DecodeArgs
  <2>2. d.ok = TRUE /\ d.id = id /\ d.row = r /\ d.args = args
        /\ d.unread = Len(payload) + 1 - (1 + Len(payload))
    BY <1>6, <1>7, <2>1
  <2>3. Len(payload) + 1 - (1 + Len(payload)) = 0
    <3>1. Len(payload) \in Nat
      BY <1>2 DEF Buffer
    <3> QED BY <3>1
  <2> QED BY <1>3, <2>2, <2>3 DEF d, payload
<1> QED BY <1>9, <1>10

\* A call whose arguments are cut short is refused.
LEMMA CutCallDecodes ==
  ASSUME NEW lib \in Libraries, NEW p \in Proxies(lib), NEW args, FineAll(p.args, args),
         NEW entry \in {"async", "sync"}, NEW id \in {0, CallId},
         NEW n \in Nat, n < Len(PutAll(p.args, args))
  PROVE  LET d == Decode(RequestFrame(id, p.id, CutTo(n, PutAll(p.args, args))), Table(lib, entry))
         IN  ~d.ok /\ d.id = id
<1> DEFINE whole == PutAll(p.args, args)
           payload == CutTo(n, whole)
           f == Said(MsgType.request, id, p.id, payload)
           d == Decode(RequestFrame(id, p.id, payload), Table(lib, entry))
<1>1. lib \in Names
  BY WireAssumption
<1>2. whole \in Buffer /\ Len(whole) \in Count /\ whole = WriteAll(p.args, args)
  BY FineArguments
<1>3. Len(whole) \in Nat /\ n \in 0 .. Len(whole) - 1
  BY <1>2 DEF Buffer
<1>4. /\ payload \in Buffer /\ Len(payload) = n
      /\ ~ReadAll(p.args, payload, 1).ok
  <2>1. payload \in Buffer /\ Len(payload) = n
    <3> HIDE DEF whole
    <3> QED BY <1>2, <1>3, StandsWhole DEF CutTo
  <2>2. ~ReadAll(p.args, payload, 1).ok
    BY <1>2, <1>3, FineArguments DEF CutTo
  <2> QED BY <2>1, <2>2
<1>5. Len(payload) \in Count
  BY <1>2, <1>3, <1>4, Ranges
<1>6. \A rid, text : Refused(rid, text).id = rid /\ Refused(rid, text).ok = FALSE
  BY DEF Refused
<1> HIDE DEF payload, d
<1>7. CASE \A r \in Table(lib, entry) : r.id # p.id
  BY <1>1, <1>4, <1>5, <1>6, <1>7, MethodIds, RequestDecodes DEF d, payload
<1>8. CASE \E r \in Table(lib, entry) : r.id = p.id
  <2>1. PICK r \in Table(lib, entry) : r.id = p.id /\ d = DecodeRow(f, r)
    BY <1>1, <1>4, <1>5, <1>8, MethodIds, RequestDecodes DEF d
  <2>2. r \in Requests(lib) \cup SyncRequests(lib)
    BY DEF Table
  <2>3. r.args = p.args
    BY <1>1, <2>1, <2>2, RowServes
  <2>4. f.payload = payload /\ f.req = id
    BY DEF Said
  <2> HIDE DEF f
  <2>5. d = Refused(id, Short)
    BY <1>4, <2>1, <2>3, <2>4 DEF DecodeRow, DecodeArgs
  <2> QED BY <1>6, <2>5 DEF d, payload
<1> QED BY <1>7, <1>8

-----------------------------------------------------------------------------
\* A call is under way for its caller.
Active == dart \notin {"idle", "settled"}

\* Where Dart and the native side can be at once.
PlacesAgree ==
  \/ dart = "idle" /\ cpp.at = "rest"
  \/ dart = "blocked" /\ cpp.at \in {"request", "running"} /\ cpp.entry = "sync"
  \/ dart = "blocked" /\ cpp.at = "returned"
  \/ dart = "waiting" /\ cpp.at \in {"request", "running", "calling", "reply"} /\ cpp.entry = "async"
  \/ dart = "waiting" /\ cpp.at = "rest"
  \/ dart = "closure" /\ cpp.at = "called back" /\ cpp.entry = "async"
  \/ dart = "settled" /\ cpp.at = "rest"

\* Between calls nothing is under way.
IdleInv == dart = "idle" => port = <<>> /\ sink.id = 0 /\ got.of = "nothing"

\* A call is of a proxy; a damaged one never runs.
CallInv ==
  dart # "idle" =>
    /\ call.lib \in Libraries /\ call.row \in Proxies(call.lib) /\ call.damaged \in BOOLEAN
    /\ call.damaged => cpp.at \in {"request", "returned", "rest"} /\ sink.id = 0

\* What an undamaged call waits for.
WaitsInv ==
  Active /\ ~call.damaged =>
    /\ call.row.run = "open_stream" => CallId \in streams /\ dart # "blocked"
    /\ call.row.run # "open_stream" /\ dart # "blocked" => CallId \in pending
    /\ dart = "blocked" => call.row.run = "sync"
    /\ \A k \in Progresses(call.row) :
         call.args[k] = 0 \/ (call.args[k] = CallId /\ CallId \in streams)

\* The closures Dart knows: those of the call, and the one that is kept.  The native
\* side holds the one kept, except while it is told of another.
FnsInv ==
  /\ fns \subseteq 1 .. 3 /\ persistent \in {0} \cup fns
  /\ ~Active => fns \subseteq {persistent}
  /\ \/ registered = persistent
     \/ /\ Active /\ ~call.damaged /\ call.row \in KeepsFn(call.lib)
        /\ cpp.at \in {"request", "running"}
  /\ Active /\ ~call.damaged =>
       \A k \in Fns(call.row) :
         /\ call.args[k] \in fns
         /\ call.args[k] = persistent <=> call.row \in KeepsFn(call.lib)

\* What a request decodes to: the call, or a refusal.
Welcome(d) ==
  /\ d.id \in {0, CallId}
  /\ IF call.damaged
     THEN ~d.ok /\ (cpp.entry = "async" => d.id \in pending)
     ELSE /\ cpp.entry = "async" => d.id = CallId
          /\ IF d.ok THEN /\ d.row \in Table(call.lib, cpp.entry) /\ d.row.id = call.row.id
                          /\ d.args = call.args /\ d.unread = 0
             ELSE d.text = NoObject /\ call.row \notin KeepsFn(call.lib)
\* A request on its way is what its proxy meant, or known to be damaged.
RequestInv ==
  cpp.at = "request" =>
    /\ sink.id = 0 /\ port = <<>>
    /\ Welcome(Decode(buffer.bytes, Table(call.lib, cpp.entry)))

\* A method has been entered and has not ended: it is the one called, with the
\* arguments it was called with.
InMethod == cpp.at \in {"running", "calling", "called back", "reply"}
RunInv ==
  InMethod =>
    /\ cpp.row \in Table(call.lib, cpp.entry) /\ cpp.row.id = call.row.id
    /\ cpp.args = call.args
    /\ cpp.id \in {0, CallId} /\ (cpp.entry = "async" => cpp.id = CallId)
    /\ cpp.at # "running" => FnId # 0

\* Somebody listens to the stream, or a synchronous call has failed.
Listening == CallId \in streams \/ (dart = "settled" /\ call.row.run = "sync" /\ buffer.of = "failure")
\* The sink that business code holds is that of the call.
SinkInv ==
  sink.id # 0 => sink.id = CallId /\ sink.of = SinkType /\ Listening /\
     (call.row.run = "open_stream" \/ Progresses(call.row) # {})

\* Dart reads the result of a call.
ResultReads(payload, meant) == ResultType = Void \/ Reads(Get(ResultType, payload, 0), meant)
\* The outcomes of a call, of which the port holds one, as its last message.
Answers == {"result", "failure", "end"}
\* The frame f of a message m that waits in the port is what its sender meant, and it
\* is for somebody who waits for it.
Sound(m, f) ==
  /\ f.ok
  /\ \/ /\ m.of = "item" /\ f.type = MsgType.streamData
        /\ f.req = CallId /\ Listening
        /\ Reads(Get(SinkType, f.payload, 0), m.meant)
     \/ /\ m.of = "closure" /\ f.type = MsgType.dartFnCall
        /\ cpp.at = "calling" /\ GetU64(f.payload, 0).v = FnId
        /\ Reads(GetAll(FnType.args, f.payload, 8), m.meant)
     \/ /\ m.of = "result" /\ f.type = MsgType.responseOk /\ f.req \in pending
        /\ ResultReads(f.payload, m.meant)
     \/ /\ m.of = "failure" /\ ErrorRead(f.payload, m.meant)
        /\ \/ f.type = MsgType.responseErr /\ f.req \in pending \cup streams
           \/ f.type = MsgType.streamErr /\ f.req \in streams
     \/ m.of = "end" /\ f.type = MsgType.streamEnd /\ f.req \in streams
  /\ call.damaged => m.of = "failure"
\* The messages in the port: each is sound, an answer comes last, when the native side
\* has done, and one closure at most is called at a time.
PortInv ==
  /\ IsList(port)
  /\ \A i \in 1 .. Len(port) :
      /\ Sound(port[i], parseFrame(port[i].bytes))
      /\ port[i].of \in Answers => i = Len(port) /\ dart = "waiting" /\ cpp.at = "rest" /\ sink.id = 0
  /\ \A i, j \in 1 .. Len(port) : port[i].of = "closure" /\ port[j].of = "closure" => i = j

\* The answer of a synchronous call.
ReturnedInv ==
  cpp.at = "returned" =>
    LET f == parseFrame(buffer.bytes) IN
    /\ f.ok
    /\ \/ buffer.of = "result" /\ f.type = MsgType.responseOk /\ ResultReads(f.payload, buffer.meant)
          /\ ~call.damaged
       \/ buffer.of = "failure" /\ f.type = MsgType.responseErr /\ ErrorRead(f.payload, buffer.meant)

\* The reply of a closure is read by both readers of the native side.
ReplyInv ==
  cpp.at = "reply" =>
    \/ buffer.of = "failed"
    \/ /\ Reads(ReadOne(FnType.ret, buffer.bytes, 1), buffer.meant)
       /\ dcb_read_len_bytes(dcb_reader_init(buffer.bytes)).v = buffer.meant

\* The four properties; an item for nobody comes after the caller has its answer.
GotInv ==
  /\ ArgumentsArrive /\ AnswersArrive /\ CallbacksArrive /\ DamageIsAnswered
  /\ got.of = "dropped" => dart = "settled"

\* The inductive invariant.
Inv == /\ PlacesAgree /\ IdleInv /\ CallInv /\ WaitsInv /\ FnsInv /\ RequestInv /\ RunInv
       /\ SinkInv /\ PortInv /\ ReturnedInv /\ ReplyInv /\ GotInv

-----------------------------------------------------------------------------
\* A sequence is a list.
LEMMA ListOf ==
  ASSUME NEW S, NEW x \in Seq(S)
  PROVE  IsList(x)
  BY DEF IsList

\* Lists grow at the end.
LEMMA ListGrows ==
  ASSUME NEW s, IsList(s), NEW e
  PROVE  /\ IsList(Append(s, e)) /\ Len(Append(s, e)) = Len(s) + 1
         /\ \A i \in 1 .. Len(s) : Append(s, e)[i] = s[i]
         /\ Append(s, e)[Len(s) + 1] = e
<1> DEFINE S == {s[i] : i \in 1 .. Len(s)} \cup {e}
<1>1. s \in Seq(S) /\ e \in S
  <2>1. Len(s) \in Nat /\ s = [i \in 1 .. Len(s) |-> s[i]]
    BY DEF IsList
  <2>2. \A i \in 1 .. Len(s) : s[i] \in S
    OBVIOUS
  <2> HIDE DEF S
  <2>3. s \in [1 .. Len(s) -> S]
    BY <2>1, <2>2
  <2>4. e \in S
    BY DEF S
  <2> QED BY <2>1, <2>3, <2>4
<1> HIDE DEF S
<1> DEFINE x == Append(s, e)
<1>2. /\ x \in Seq(S) /\ Len(x) = Len(s) + 1 /\ x[Len(s) + 1] = e
      /\ \A i \in 1 .. Len(s) : x[i] = s[i]
  BY <1>1
<1> HIDE DEF x
<1>3. IsList(x)
  BY <1>2, ListOf
<1> QED BY <1>2, <1>3 DEF x

\* They lose their head.
LEMMA ListShrinks ==
  ASSUME NEW s, IsList(s), s # <<>>
  PROVE  /\ Len(s) \in Nat /\ Len(s) >= 1 /\ Head(s) = s[1]
         /\ IsList(Tail(s)) /\ Len(Tail(s)) = Len(s) - 1
         /\ \A i \in 1 .. Len(s) - 1 : Tail(s)[i] = s[i + 1]
<1> DEFINE S == {s[i] : i \in 1 .. Len(s)}
<1>1. s \in Seq(S)
  <2>1. Len(s) \in Nat /\ s = [i \in 1 .. Len(s) |-> s[i]]
    BY DEF IsList
  <2>2. \A i \in 1 .. Len(s) : s[i] \in S
    OBVIOUS
  <2> HIDE DEF S
  <2>3. s \in [1 .. Len(s) -> S]
    BY <2>1, <2>2
  <2> QED BY <2>1, <2>3
<1> HIDE DEF S
<1> DEFINE x == Tail(s)
<1>2. /\ x \in Seq(S) /\ Len(x) = Len(s) - 1 /\ Len(s) \in Nat /\ Len(s) >= 1 /\ Head(s) = s[1]
      /\ \A i \in 1 .. Len(s) - 1 : x[i] = s[i + 1]
  BY <1>1
<1> HIDE DEF x
<1>3. IsList(x)
  BY <1>2, ListOf
<1> QED BY <1>2, <1>3 DEF x

\* The empty sequence is a list.
LEMMA ListEmpty == IsList(<<>>) /\ Len(<<>>) = 0
  BY DEF IsList

-----------------------------------------------------------------------------
\* The row of a call, whoever may have made it.
LEMMA CallRow ==
  ASSUME CallInv, dart # "idle"
  PROVE  /\ call.lib \in Libraries /\ call.lib \in Names /\ call.row \in Proxies(call.lib)
         /\ call.row \in Rows(call.lib) /\ call.row.id \in Count
         /\ call.row.res \in ReadTypes \cup {Void}
         /\ call.row.run = "open_stream" => call.row.res \in ReadTypes
         /\ \A k \in Progresses(call.row) : call.row.args[k] = Progress(I32)
         /\ \A k \in Fns(call.row) : call.row.args[k] \in FnTypes
<1>1. call.lib \in Libraries /\ call.lib \in Names /\ call.row \in Proxies(call.lib)
  BY WireAssumption DEF CallInv
<1>2. call.row.id \in Count /\ call.row \in Rows(call.lib)
  BY <1>1, MethodIds DEF Rows
<1>3. /\ call.row.res \in ReadTypes \cup {Void}
      /\ call.row.run = "open_stream" => call.row.res \in ReadTypes
  BY <1>1, ProxyRow DEF ReadTypes
<1>4. \A k \in DOMAIN call.row.args : call.row.args[k] \in ArgTypes
  BY <1>1, ProxyRow
<1> QED BY <1>1, <1>2, <1>3, <1>4, ArgKinds DEF Progresses, Fns

\* The row of the method that runs.
LEMMA RunRow ==
  ASSUME CallInv, PlacesAgree, RunInv, InMethod
  PROVE  /\ dart # "idle" /\ dart # "settled" /\ Active /\ ~call.damaged
         /\ cpp.row \in Rows(call.lib) /\ cpp.row.args = call.row.args
         /\ Fns(cpp.row) = Fns(call.row) /\ Progresses(cpp.row) = Progresses(call.row)
         /\ cpp.row.res \in ReadTypes \cup {Void} /\ call.row.res \in {Void, cpp.row.res}
         /\ cpp.row.run = "stream" <=> call.row.run = "open_stream"
         /\ call.row.run = "open_stream" => call.row.res = cpp.row.res
         /\ Registers <=> call.row \in KeepsFn(call.lib)
         /\ Registers => call.row.args = <<StringFn>> /\ ~UsesRegistered
         /\ WritesInC => call.row.args = <<StringFn, Str>> /\ ~UsesRegistered
         /\ cpp.entry = "sync" => /\ call.row.run = "sync" /\ cpp.row.run # "stream"
                                  /\ ~UsesRegistered /\ (Registers \/ Fns(cpp.row) = {})
         /\ cpp.entry \in {"async", "sync"}
<1>1. /\ dart # "idle" /\ dart # "settled" /\ Active /\ ~call.damaged
      /\ cpp.entry \in {"async", "sync"}
  BY Zenon DEF CallInv, PlacesAgree, InMethod, Active
<1>2. call.lib \in Names /\ call.row \in Proxies(call.lib)
  BY <1>1, CallRow
<1>3. /\ cpp.row \in Table(call.lib, cpp.entry) /\ cpp.row.id = call.row.id
      /\ cpp.row \in Requests(call.lib) \cup SyncRequests(call.lib)
      /\ cpp.entry = "sync" => cpp.row \in SyncRequests(call.lib)
  BY DEF RunInv, Table
<1>4. /\ cpp.row.args = call.row.args
      /\ cpp.row.res \in AnswerTypes \cup {Void} /\ call.row.res \in {Void, cpp.row.res}
      /\ cpp.row.run = "stream" <=> call.row.run = "open_stream"
      /\ call.row.run = "open_stream" => call.row.res = cpp.row.res
      /\ Registers <=> call.row \in KeepsFn(call.lib)
      /\ Registers => call.row.args = <<StringFn>>
      /\ WritesInC => call.row.args = <<StringFn, Str>>
      /\ UsesRegistered => call.row.args = <<Str>>
  BY <1>2, <1>3, RowServes DEF Registers, WritesInC, UsesRegistered
<1>5. <<Str>> # <<StringFn>> /\ <<Str>> # <<StringFn, Str>>
  <2>1. Str # StringFn
    BY DEF StringFn, DartFn, Str, Plain
  <2>2. <<Str>>[1] = Str /\ <<StringFn>>[1] = StringFn /\ <<StringFn, Str>>[1] = StringFn
    OBVIOUS
  <2> QED BY <2>1, <2>2
<1>6. ASSUME cpp.entry = "sync"
      PROVE  /\ call.row.run = "sync" /\ cpp.row.run # "stream"
             /\ ~UsesRegistered /\ (Registers \/ call.row.args \in Seq(SyncTypes))
  BY <1>2, <1>3, <1>6, SyncRow DEF Registers, UsesRegistered
<1>7. Fns(cpp.row) = Fns(call.row) /\ Progresses(cpp.row) = Progresses(call.row)
  BY <1>4 DEF Fns, Progresses
<1>8. call.row.args \in Seq(SyncTypes) => Fns(call.row) = {}
  <2>1. \A t \in SyncTypes : t.kind # "fn"
    BY ArgKinds DEF ArgTypes
  <2> QED BY <2>1 DEF Fns
<1>9. cpp.row \in Rows(call.lib)
  BY <1>3 DEF Rows
<1> QED BY <1>1, <1>4, <1>5, <1>6, <1>7, <1>8, <1>9 DEF ReadTypes

\* The closure that native code calls is one that Dart knows, with the type Dart gave it.
LEMMA FnKnown ==
  ASSUME CallInv, PlacesAgree, RunInv, FnsInv, InMethod, FnId # 0
  PROVE  /\ FnId \in fns /\ FnId \in Count /\ FnId # 0
         /\ FnType \in FnTypes /\ WrapperType(FnId) = FnType
         /\ WritesInC => FnType = StringFn
         /\ cpp.entry = "async"
<1>1. /\ Active /\ ~call.damaged /\ dart # "idle"
      /\ cpp.row.args = call.row.args /\ Fns(cpp.row) = Fns(call.row)
      /\ Registers <=> call.row \in KeepsFn(call.lib)
      /\ Registers => ~UsesRegistered
      /\ WritesInC => call.row.args = <<StringFn, Str>> /\ ~UsesRegistered
      /\ cpp.entry = "sync" => ~UsesRegistered /\ (Registers \/ Fns(cpp.row) = {})
      /\ cpp.entry \in {"async", "sync"}
  BY RunRow
<1>2. cpp.args = call.args
  BY DEF RunInv
<1>3. \A n \in 1 .. 3 : n \in Count
  BY Ranges, SMT
<1>4. CASE UsesRegistered
  <2>1. FnId = registered /\ FnType = StringFn
    BY <1>4 DEF FnId, FnType
  <2>2. registered = persistent
    BY <1>1, <1>4 DEF FnsInv
  <2>3. FnId \in fns /\ FnId \in 1 .. 3
    BY <2>1, <2>2 DEF FnsInv
  <2>4. WrapperType(FnId) = StringFn
    BY <2>1, <2>2 DEF WrapperType
  <2>5. StringFn \in FnTypes
    BY DEF FnTypes
  <2> QED BY <1>1, <1>3, <1>4, <2>1, <2>3, <2>4, <2>5
<1>5. CASE ~UsesRegistered
  <2> DEFINE k == TheArg(Fns(call.row))
  <2>1. /\ Fns(cpp.row) # {} /\ ~Registers
        /\ FnId = cpp.args[TheArg(Fns(cpp.row))] /\ FnType = cpp.row.args[TheArg(Fns(cpp.row))]
    BY <1>5 DEF FnId, FnType
  <2>2. k \in Fns(call.row) /\ FnId = call.args[k] /\ FnType = call.row.args[k]
    BY <1>1, <1>2, <2>1 DEF TheArg
  <2>3. FnId \in fns /\ FnId # persistent /\ FnId \in 1 .. 3
    BY <1>1, <2>1, <2>2 DEF FnsInv
  <2>4. WrapperType(FnId) = FnType
    BY <2>2, <2>3 DEF WrapperType
  <2>5. FnType \in FnTypes
    BY <1>1, <2>2, CallRow
  <2>6. WritesInC => FnType = StringFn
    <3>1. SUFFICES ASSUME WritesInC PROVE FnType = StringFn
      OBVIOUS
    <3>2. call.row.args = <<StringFn, Str>>
      BY <1>1, <3>1
    <3>3. k = 1
      <4>1. Str.kind # "fn"
        BY DEF Str, Plain
      <4>2. k \in {1, 2} /\ call.row.args[k].kind = "fn" /\ call.row.args[2] = Str
        BY <2>2, <3>2 DEF Fns
      <4> QED BY <4>1, <4>2
    <3> QED BY <2>2, <3>2, <3>3
  <2> QED BY <1>1, <1>3, <2>1, <2>3, <2>4, <2>5, <2>6
<1> QED BY <1>4, <1>5

\* The type of the items that business code emits.
LEMMA SinkItemType ==
  ASSUME CallInv, dart # "idle", call.row.run = "open_stream" \/ Progresses(call.row) # {}
  PROVE  SinkType \in ReadTypes /\ \A c \in Variants : Fine(SinkType, Value(SinkType, c))
<1>1. /\ call.lib \in Libraries /\ call.row \in Rows(call.lib)
      /\ call.row.run = "open_stream" => call.row.res \in ReadTypes
      /\ \A k \in Progresses(call.row) : call.row.args[k] = Progress(I32)
  BY CallRow
<1>2. \A t \in ReadTypes : t # Void
  BY ReadKinds DEF Void, Plain
<1>3. CASE call.row.run = "open_stream"
  <2>1. SinkType = call.row.res
    BY <1>3 DEF SinkType
  <2> QED BY <1>1, <1>2, <1>3, <2>1, ValuesKnown
<1>4. CASE call.row.run # "open_stream"
  <2> DEFINE k == TheArg(Progresses(call.row))
  <2>1. k \in Progresses(call.row)
    BY <1>4 DEF TheArg
  <2>2. k \in DOMAIN call.row.args /\ call.row.args[k] = Progress(I32) /\ SinkType = call.row.args[k].of
    BY <1>1, <1>4, <2>1 DEF Progresses, SinkType
  <2>3. Progress(I32).of = I32 /\ Progress(I32).kind = "progress"
    BY DEF Progress
  <2>4. I32 \in ReadTypes
    BY DEF ReadTypes, AnswerTypes
  <2> HIDE DEF k
  <2> QED BY <1>1, <1>2, <2>2, <2>3, <2>4, ValuesKnown
<1> QED BY <1>3, <1>4

-----------------------------------------------------------------------------
\* A message stays sound while the call and what concerns the message stay.
LEMMA SoundKept ==
  ASSUME call' = call, NEW m, NEW f, Sound(m, f),
         m.of = "item" /\ Listening => Listening',
         m.of = "closure" => cpp'.at = "calling" /\ FnId' = FnId /\ FnType' = FnType,
         m.of \in Answers => pending' = pending /\ streams' = streams
  PROVE  Sound(m, f)'
  BY DEF Sound, SinkType, ResultReads, ResultType, Answers

\* The closure a method calls depends on the method, its arguments and the one registered.
LEMMA FnKept ==
  ASSUME cpp'.row = cpp.row, cpp'.args = cpp.args, registered' = registered
  PROVE  /\ FnId' = FnId /\ FnType' = FnType
         /\ Registers' = Registers /\ UsesRegistered' = UsesRegistered
         /\ ReadsInC' = ReadsInC /\ WritesInC' = WritesInC
  BY DEF FnId, FnType, Registers, UsesRegistered, ReadsInC, WritesInC

\* A port that holds no answer takes one more message.
LEMMA PortGrows ==
  ASSUME PortInv, NEW e, port' = Append(port, e),
         \A i \in 1 .. Len(port) : port[i].of \notin Answers,
         \A m, f : Sound(m, f) /\ m.of \notin Answers => Sound(m, f)',
         Sound(e, parseFrame(e.bytes))',
         e.of \in Answers => dart' = "waiting" /\ cpp'.at = "rest" /\ sink'.id = 0,
         e.of = "closure" => \A i \in 1 .. Len(port) : port[i].of # "closure"
  PROVE  PortInv'
<1>1. /\ IsList(port') /\ Len(port') = Len(port) + 1 /\ Len(port) \in Nat
      /\ \A i \in 1 .. Len(port) : port'[i] = port[i]
      /\ port'[Len(port) + 1] = e
  BY ListGrows DEF PortInv, IsList
<1>2. \A i \in 1 .. Len(port') : i \in 1 .. Len(port) \/ i = Len(port')
  BY <1>1
<1>3. port'[Len(port')] = e
  BY <1>1
<1>4. ASSUME NEW i \in 1 .. Len(port')
      PROVE  /\ Sound(port[i], parseFrame(port[i].bytes))'
             /\ port'[i].of \in Answers => i = Len(port') /\ dart' = "waiting" /\ cpp'.at = "rest" /\ sink'.id = 0
  <2>1. CASE i \in 1 .. Len(port)
    BY <1>1, <2>1 DEF PortInv
  <2>2. CASE i = Len(port')
    BY <1>3, <2>2
  <2> QED BY <1>2, <2>1, <2>2
<1>5. ASSUME NEW i \in 1 .. Len(port'), NEW j \in 1 .. Len(port'),
             port'[i].of = "closure", port'[j].of = "closure"
      PROVE  i = j
  <2>1. CASE i \in 1 .. Len(port) /\ j \in 1 .. Len(port)
    BY <1>1, <1>5, <2>1 DEF PortInv
  <2>2. CASE i = Len(port') \/ j = Len(port')
    BY <1>1, <1>2, <1>3, <1>5, <2>2
  <2> QED BY <1>2, <2>1, <2>2
<1> QED BY <1>1, <1>4, <1>5 DEF PortInv

\* A port keeps what it holds while every message stays sound.
LEMMA PortStays ==
  ASSUME PortInv, port' = port,
         \A i \in 1 .. Len(port) : port[i].of \notin Answers,
         \A m, f : Sound(m, f) /\ m.of \notin Answers => Sound(m, f)'
  PROVE  PortInv'
  BY DEF PortInv

\* The head of the port is taken away.
LEMMA PortShrinks ==
  ASSUME PortInv, port # <<>>, port' = Tail(port),
         \A m, f : /\ Sound(m, f)
                   /\ m.of = "closure" => Head(port).of # "closure"
                   /\ m.of \in Answers => Head(port).of \notin Answers
                   => Sound(m, f)',
         Head(port).of \notin Answers /\ Head(port).of # "closure" =>
           dart' = dart /\ cpp' = cpp /\ sink' = sink,
         Head(port).of = "closure" => cpp.at # "rest"
  PROVE  PortInv'
<1>1. /\ Len(port) \in Nat /\ Len(port) >= 1 /\ Head(port) = port[1]
      /\ IsList(port') /\ Len(port') = Len(port) - 1
      /\ \A i \in 1 .. Len(port) - 1 : port'[i] = port[i + 1]
  BY ListShrinks DEF PortInv
<1> DEFINE q(i) == i + 1
<1>2. \A i \in 1 .. Len(port') : q(i) \in 1 .. Len(port) /\ q(i) # 1 /\ port'[i] = port[q(i)]
  BY <1>1
<1>3. 1 \in 1 .. Len(port)
  BY <1>1
<1> HIDE DEF q
<1>4. ASSUME NEW i \in 1 .. Len(port')
      PROVE  /\ Sound(port[q(i)], parseFrame(port[q(i)].bytes))
             /\ port[q(i)].of = "closure" => Head(port).of # "closure"
             /\ Head(port).of \notin Answers
  <2>1. q(i) \in 1 .. Len(port) /\ q(i) # 1
    BY <1>2
  <2>2. Head(port).of \in Answers => Len(port) = 1
    BY <1>1, <1>3, Zenon DEF PortInv
  <2>3. Len(port) # 1
    BY <1>1, <2>1
  <2> QED BY <1>1, <1>3, <2>1, <2>2, <2>3, Zenon DEF PortInv
<1>5. ASSUME NEW i \in 1 .. Len(port')
      PROVE  Sound(port[i], parseFrame(port[i].bytes))'
  <2>1. port'[i] = port[q(i)]
    BY <1>2
  <2> QED BY <1>4, <2>1
<1>6. ASSUME NEW i \in 1 .. Len(port'), port'[i].of \in Answers
      PROVE  i = Len(port') /\ dart' = "waiting" /\ cpp'.at = "rest" /\ sink'.id = 0
  <2>1. port[q(i)].of \in Answers /\ q(i) \in 1 .. Len(port)
    BY <1>2, <1>6
  <2>2. q(i) = Len(port) /\ dart = "waiting" /\ cpp.at = "rest" /\ sink.id = 0
    BY <2>1 DEF PortInv
  <2>3. dart' = dart /\ cpp' = cpp /\ sink' = sink
    BY <1>4, <2>2
  <2>4. i = Len(port')
    <3>1. i + 1 = Len(port) /\ i \in Int
      BY <2>2, <1>1 DEF q
    <3> DEFINE l == Len(port)
               k == Len(port')
    <3>2. k = l - 1 /\ l \in Nat /\ i + 1 = l
      BY <1>1, <3>1, Zenon
    <3> HIDE DEF k, l
    <3>3. i = k
      BY <3>1, <3>2
    <3> QED BY <3>3 DEF k
  <2> QED BY <2>2, <2>3, <2>4
<1>7. ASSUME NEW i \in 1 .. Len(port'), NEW j \in 1 .. Len(port'),
             port'[i].of = "closure", port'[j].of = "closure"
      PROVE  i = j
  <2>1. q(i) = q(j)
    BY <1>2, <1>7 DEF PortInv
  <2>2. i \in Int /\ j \in Int
    BY <1>1
  <2> QED BY <2>1, <2>2 DEF q
<1> QED BY <1>1, <1>5, <1>6, <1>7, Zenon DEF PortInv

-----------------------------------------------------------------------------
\* Nothing has happened yet.
LEMMA InvInit == Init => Inv
<1> SUFFICES ASSUME Init PROVE Inv
  OBVIOUS
<1>1. /\ dart = "idle" /\ cpp.at = "rest" /\ port = <<>> /\ sink.id = 0 /\ got.of = "nothing"
      /\ fns = {} /\ persistent = 0 /\ registered = 0
  BY DEF Init, NoSink, Nothing
<1>2. PlacesAgree /\ IdleInv /\ CallInv /\ WaitsInv /\ FnsInv
  BY <1>1 DEF PlacesAgree, IdleInv, CallInv, WaitsInv, FnsInv, Active
<1>3. RequestInv /\ RunInv /\ SinkInv /\ ReturnedInv /\ ReplyInv
  BY <1>1 DEF RequestInv, RunInv, InMethod, SinkInv, ReturnedInv, ReplyInv
<1>4. PortInv
  BY <1>1, ListEmpty DEF PortInv
<1>5. GotInv
  BY <1>1 DEF GotInv, ArgumentsArrive, AnswersArrive, CallbacksArrive, DamageIsAnswered
<1> QED BY <1>2, <1>3, <1>4, <1>5 DEF Inv

\* An id for a closure is free when Dart asks.
LEMMA FreshKnown ==
  ASSUME FnsInv, dart = "idle"
  PROVE  /\ FreshFn \in 1 .. 3 /\ FreshFn \notin fns /\ FreshFn # persistent
         /\ registered = persistent /\ fns \subseteq {persistent}
<1>1. registered = persistent /\ fns \subseteq {persistent}
  BY DEF FnsInv, Active
<1>2. \E n \in 1 .. 3 : n \notin fns \cup {persistent, registered}
  <2>1. 1 \in 1 .. 3 /\ 2 \in 1 .. 3 /\ 1 # 2
    OBVIOUS
  <2> QED BY <1>1, <2>1
<1>3. FreshFn \in 1 .. 3 /\ FreshFn \notin fns \cup {persistent, registered}
  BY <1>2 DEF FreshFn
<1> QED BY <1>1, <1>3

\* After Dart has asked, what has to be known is what the call waits for, its closures,
\* and what its request decodes to.
LEMMA AfterAsking ==
  ASSUME Inv, dart = "idle",
         NEW lib \in Libraries, NEW p \in Proxies(lib), NEW entry \in {"async", "sync"},
         NEW bytes, NEW d, d = Decode(bytes, Table(lib, entry)),
         Hand(entry, bytes), call'.lib = lib, call'.row = p, call'.damaged \in BOOLEAN,
         WaitsInv', FnsInv', Welcome(d)'
  PROVE  Inv'
<1>1. cpp.at = "rest" /\ port = <<>> /\ sink.id = 0
  BY DEF Inv, PlacesAgree, IdleInv
<1>2. /\ port' = port /\ sink' = sink /\ registered' = registered
      /\ buffer'.bytes = bytes /\ cpp'.at = "request" /\ cpp'.entry = entry
      /\ dart' = (IF entry = "sync" THEN "blocked" ELSE "waiting") /\ got'.of = "nothing"
  BY DEF Hand, Message, Nothing
<1>3. PlacesAgree' /\ IdleInv' /\ CallInv'
  BY <1>1, <1>2 DEF PlacesAgree, IdleInv, CallInv
<1>4. RequestInv'
  BY <1>1, <1>2 DEF RequestInv
<1>5. RunInv' /\ ReturnedInv' /\ ReplyInv' /\ SinkInv'
  BY <1>1, <1>2 DEF RunInv, InMethod, ReturnedInv, ReplyInv, SinkInv
<1>6. PortInv'
  BY <1>1, <1>2, ListEmpty DEF PortInv
<1>7. GotInv'
  BY <1>2 DEF GotInv, ArgumentsArrive, AnswersArrive, CallbacksArrive, DamageIsAnswered
<1> QED BY <1>3, <1>4, <1>5, <1>6, <1>7 DEF Inv

\* A proxy makes a call.
LEMMA InvCallProxy ==
  ASSUME Inv, dart = "idle", NEW lib \in Libraries, NEW p \in Proxies(lib),
         NEW choice \in [DOMAIN p.args -> Variants], NEW listening \in BOOLEAN,
         NEW entry \in {"async", "sync"}, CallProxy(lib, p, choice, listening, entry)
  PROVE  Inv'
<1> DEFINE args == Arguments(p, choice, listening)
           id == IF entry = "sync" /\ Progresses(p) = {} THEN 0 ELSE CallId
           bytes == RequestFrame(id, p.id, PutAll(p.args, args))
<1>0. PICK d : d = Decode(bytes, Table(lib, entry))
  OBVIOUS
<1>1. /\ entry = "sync" => p.run = "sync"
      /\ entry = "async" /\ p.run = "sync" => p.id \in {r.id : r \in Requests(lib)}
      /\ call' = [lib |-> lib, row |-> p, args |-> args, damaged |-> FALSE]
      /\ RegisterFns(p, lib)
      /\ pending' = IF entry = "async" /\ p.run # "open_stream" THEN {CallId} ELSE {}
      /\ streams' = IF Listens(p, listening) THEN {CallId} ELSE {}
      /\ Hand(entry, bytes)
  BY DEF CallProxy, RequestFrame
<1>2. FnsInv /\ FreshFn \in 1 .. 3 /\ FreshFn \notin fns /\ FreshFn # persistent
      /\ registered = persistent /\ fns \subseteq {persistent}
  BY FreshKnown DEF Inv
<1>3. lib \in Names
  BY WireAssumption
<1>4. FineAll(p.args, args)
  BY <1>2, ArgumentsFine
<1>5. \E r \in Table(lib, entry) : r.id = p.id
  BY <1>1, <1>3, ProxyRow DEF Table
<1>6. id \in {0, CallId}
  OBVIOUS
<1>7. /\ call'.lib = lib /\ call'.row = p /\ call'.args = args /\ call'.damaged = FALSE
  BY <1>1
<1>8. /\ cpp'.at = "request" /\ cpp'.entry = entry /\ registered' = registered
      /\ dart' = (IF entry = "sync" THEN "blocked" ELSE "waiting")
  BY <1>1 DEF Hand
<1>9. \A k \in DOMAIN p.args : args[k] = Argument(p.args[k], choice[k], listening)
  BY DEF Arguments
<1> HIDE DEF args
<1>10. Welcome(d)'
  <2> HIDE DEF id
  <2>1. /\ d.id = id
        /\ IF d.ok THEN /\ d.row \in Table(lib, entry) /\ d.row.id = p.id
                        /\ d.args = args /\ d.unread = 0
           ELSE d.text = NoObject /\ p \notin KeepsFn(lib)
    BY <1>0, <1>4, <1>5, <1>6, CallDecodes
  <2>2. entry = "async" => id = CallId
    BY DEF id
  <2> QED BY <1>6, <1>7, <1>8, <2>1, <2>2 DEF Welcome
<1> HIDE DEF bytes, id
<1>11. WaitsInv'
  <2>1. \A k \in Progresses(p) : args[k] = 0 \/ (args[k] = CallId /\ listening)
    BY <1>9 DEF Progresses, Argument
  <2>2. Progresses(p) # {} /\ listening => Listens(p, listening)
    BY DEF Listens
  <2>3. p.run = "open_stream" => Listens(p, listening)
    BY DEF Listens
  <2> QED BY <1>1, <1>7, <1>8, <2>1, <2>2, <2>3 DEF WaitsInv
<1>12. FnsInv'
  <2>0. Active'
    BY <1>8 DEF Active
  <2>1. \A k \in Fns(p) : args[k] = FreshFn
    BY <1>9 DEF Fns, Argument
  <2>2. CASE Fns(p) = {}
    <3>1. fns' = fns /\ persistent' = persistent
      BY <1>1, <2>2 DEF RegisterFns
    <3> QED BY <1>2, <1>7, <1>8, <2>0, <2>2, <3>1 DEF FnsInv
  <2>3. CASE Fns(p) # {} /\ p \in KeepsFn(lib)
    <3>1. fns' = (fns \ {persistent}) \cup {FreshFn} /\ persistent' = FreshFn
      BY <1>1, <2>3 DEF RegisterFns
    <3>2. fns' \subseteq 1 .. 3 /\ persistent' \in fns'
      BY <1>2, <3>1 DEF FnsInv
    <3> HIDE DEF Fns
    <3> QED BY <1>2, <1>7, <1>8, <2>0, <2>1, <2>3, <3>1, <3>2 DEF FnsInv
  <2>4. CASE Fns(p) # {} /\ p \notin KeepsFn(lib)
    <3>1. fns' = fns \cup {FreshFn} /\ persistent' = persistent
      BY <1>1, <2>4 DEF RegisterFns
    <3>2. fns' \subseteq 1 .. 3 /\ persistent' \in {0} \cup fns'
      BY <1>2, <3>1 DEF FnsInv
    <3> QED BY <1>2, <1>7, <1>8, <2>0, <2>1, <2>4, <3>1, <3>2 DEF FnsInv
  <2> QED BY <2>2, <2>3, <2>4
<1>13. d = Decode(bytes, Table(lib, entry)) /\ Hand(entry, bytes) /\ call'.damaged \in BOOLEAN
  BY <1>0, <1>1, <1>7 DEF bytes, id
<1> QED BY <1>7, <1>10, <1>11, <1>12, <1>13, AfterAsking

\* A request that is to be refused.
LEMMA InvCallDamaged ==
  ASSUME Inv, dart = "idle", NEW lib \in Libraries, NEW p \in Proxies(lib),
         NEW entry \in {"async", "sync"}, NEW answerId \in {0, CallId}, NEW bytes,
         CallDamaged(lib, p, entry, answerId, bytes),
         NEW d, d = Decode(bytes, Table(lib, entry)), ~d.ok, d.id \in {0, CallId},
         entry = "async" => d.id = answerId
  PROVE  Inv'
<1>1. /\ call'.lib = lib /\ call'.row = p /\ call'.damaged = TRUE
      /\ pending' = (IF entry = "async" THEN {answerId} ELSE {})
      /\ fns' = fns /\ persistent' = persistent /\ Hand(entry, bytes)
  BY DEF CallDamaged
<1>2. FnsInv /\ registered = persistent /\ fns \subseteq {persistent}
  BY FreshKnown DEF Inv
<1>3. cpp'.entry = entry /\ registered' = registered
  BY <1>1 DEF Hand
<1>4. Welcome(d)'
  BY <1>1, <1>3 DEF Welcome
<1>5. WaitsInv'
  BY <1>1 DEF WaitsInv
<1>6. FnsInv'
  BY <1>1, <1>2, <1>3 DEF FnsInv
<1> QED BY <1>1, <1>4, <1>5, <1>6, AfterAsking

\* What a refused request carries are the bytes of arguments.
LEMMA PayloadKnown ==
  ASSUME Inv, dart = "idle", NEW lib \in Libraries, NEW p \in Proxies(lib),
         NEW choice \in [DOMAIN p.args -> Variants]
  PROVE  /\ FineAll(p.args, Arguments(p, choice, TRUE))
         /\ Payload(p, choice) \in Buffer /\ Len(Payload(p, choice)) \in Count
         /\ Payload(p, choice) = PutAll(p.args, Arguments(p, choice, TRUE))
         /\ lib \in Names /\ p.id \in Count
         /\ \A id, text : Refused(id, text).ok = FALSE /\ Refused(id, text).id = id
         /\ Cuts \subseteq Nat
<1>1. FreshFn \in 1 .. 3
  BY FreshKnown DEF Inv
<1>2. FineAll(p.args, Arguments(p, choice, TRUE))
  BY <1>1, ArgumentsFine
<1>3. lib \in Names /\ Cuts \subseteq Nat
  BY WireAssumption
<1>4. p.id \in Count
  BY <1>3, MethodIds
<1>5. \A id, text : Refused(id, text).ok = FALSE /\ Refused(id, text).id = id
  BY DEF Refused
<1>6. Payload(p, choice) = PutAll(p.args, Arguments(p, choice, TRUE))
  BY DEF Payload
<1>7. /\ PutAll(p.args, Arguments(p, choice, TRUE)) \in Buffer
      /\ Len(PutAll(p.args, Arguments(p, choice, TRUE))) \in Count
  BY <1>2, FineArguments
<1> QED BY <1>2, <1>3, <1>4, <1>5, <1>6, <1>7

\* A frame is cut short.
LEMMA InvCallCutFrame ==
  ASSUME Inv, dart = "idle", NEW lib \in Libraries, NEW p \in Proxies(lib),
         NEW choice \in [DOMAIN p.args -> Variants], CallCutFrame(lib, p, choice)
  PROVE  Inv'
<1> DEFINE frame == RequestFrame(CallId, p.id, Payload(p, choice))
<1>1. PICK n \in Cuts : n < Len(frame) /\ CallDamaged(lib, p, "async", 0, CutTo(n, frame))
  BY DEF CallCutFrame, RequestFrame
<1>2. n \in Nat
  BY PayloadKnown
<1>3. Decode(CutTo(n, frame), Table(lib, "async")) = Refused(0, BadFrame)
  BY <1>1, <1>2, PayloadKnown, CutFrameDecodes
<1> HIDE DEF frame
<1> DEFINE d == Decode(CutTo(n, frame), Table(lib, "async"))
<1>4. ~d.ok /\ d.id = 0
  <2>1. Refused(0, BadFrame).ok = FALSE /\ Refused(0, BadFrame).id = 0
    BY DEF Refused
  <2>2. d = Refused(0, BadFrame)
    BY <1>3
  <2> HIDE DEF d
  <2> QED BY <2>1, <2>2
<1> HIDE DEF d
<1>5. d = Decode(CutTo(n, frame), Table(lib, "async"))
  BY DEF d
<1> QED BY <1>1, <1>4, <1>5, InvCallDamaged

\* A payload is cut short.
LEMMA InvCallCutPayload ==
  ASSUME Inv, dart = "idle", NEW lib \in Libraries, NEW p \in Proxies(lib),
         NEW choice \in [DOMAIN p.args -> Variants], CallCutPayload(lib, p, choice)
  PROVE  Inv'
<1> DEFINE id == IF p.run = "sync" THEN 0 ELSE CallId
           entry == IF p.run = "sync" THEN "sync" ELSE "async"
           args == Arguments(p, choice, TRUE)
           whole == PutAll(p.args, args)
<1>1. PICK n \in Cuts : n < Len(whole) /\ CallDamaged(lib, p, entry, id, RequestFrame(id, p.id, CutTo(n, whole)))
  BY DEF CallCutPayload, RequestFrame, Payload
<1>2. n \in Nat /\ FineAll(p.args, args)
  BY PayloadKnown
<1>3. id \in {0, CallId} /\ entry \in {"async", "sync"}
  OBVIOUS
<1>7. n < Len(PutAll(p.args, args))
  BY <1>1
<1> HIDE DEF id, entry, args
<1> DEFINE bytes == RequestFrame(id, p.id, CutTo(n, whole))
           d == Decode(bytes, Table(lib, entry))
<1>4. ~d.ok /\ d.id = id
  BY <1>2, <1>3, <1>7, CutCallDecodes
<1> HIDE DEF d
<1>5. d = Decode(bytes, Table(lib, entry))
  BY DEF d
<1> HIDE DEF bytes
<1>6. CallDamaged(lib, p, entry, id, bytes)
  BY <1>1 DEF bytes
<1> QED BY <1>3, <1>4, <1>5, <1>6, InvCallDamaged

\* A method nobody has is called.
LEMMA InvCallUnknown ==
  ASSUME Inv, dart = "idle", NEW lib \in Libraries, NEW p \in Proxies(lib),
         NEW choice \in [DOMAIN p.args -> Variants], CallUnknown(lib, p, choice)
  PROVE  Inv'
<1> DEFINE id == CallId
           bytes == RequestFrame(id, Unknown, Payload(p, choice))
           d == Decode(bytes, Table(lib, "async"))
<1>1. CallDamaged(lib, p, "async", id, bytes)
  BY DEF CallUnknown, RequestFrame
<1>2. id \in {0, CallId}
  OBVIOUS
<1> HIDE DEF id
<1>3. \A r \in Table(lib, "async") : r.id # Unknown
  BY PayloadKnown, NobodyHas DEF Table
<1> DEFINE payload == Payload(p, choice)
<1>7. payload \in Buffer /\ Len(payload) \in Count /\ Unknown \in Count
  BY PayloadKnown, MethodIds
<1> HIDE DEF payload
<1>4. d = Refused(id, NoMethod)
  <2>1. Decode(RequestFrame(id, Unknown, payload), Table(lib, "async")) = Refused(id, NoMethod)
    BY <1>2, <1>3, <1>7, RequestDecodes
  <2> QED BY <2>1 DEF payload
<1> HIDE DEF d, bytes
<1>5. ~d.ok /\ d.id = id
  BY <1>4, PayloadKnown
<1>6. d = Decode(bytes, Table(lib, "async"))
  BY DEF d
<1> QED BY <1>1, <1>2, <1>5, <1>6, InvCallDamaged

\* An asynchronous method is called through the synchronous entry.
LEMMA InvCallSyncAnyway ==
  ASSUME Inv, dart = "idle", NEW lib \in Libraries, NEW p \in Proxies(lib),
         NEW choice \in [DOMAIN p.args -> Variants], CallSyncAnyway(lib, p, choice)
  PROVE  Inv'
<1> DEFINE id == 0
           bytes == RequestFrame(id, p.id, Payload(p, choice))
           d == Decode(bytes, Table(lib, "sync"))
<1>1. CallDamaged(lib, p, "sync", id, bytes) /\ p.run # "sync"
  BY DEF CallSyncAnyway, RequestFrame
<1>2. id \in {0, CallId}
  OBVIOUS
<1> HIDE DEF id
<1>3. \A r \in Table(lib, "sync") : r.id # p.id
  BY <1>1, PayloadKnown, SyncRow DEF Table
<1> DEFINE payload == Payload(p, choice)
<1>7. payload \in Buffer /\ Len(payload) \in Count /\ p.id \in Count
  BY PayloadKnown
<1> HIDE DEF payload
<1>4. d = Refused(id, NoMethod)
  <2>1. Decode(RequestFrame(id, p.id, payload), Table(lib, "sync")) = Refused(id, NoMethod)
    BY <1>2, <1>3, <1>7, RequestDecodes
  <2> QED BY <2>1 DEF payload
<1> HIDE DEF d, bytes
<1>5. ~d.ok /\ d.id = id
  BY <1>4, PayloadKnown
<1>6. d = Decode(bytes, Table(lib, "sync"))
  BY DEF d
<1> QED BY <1>1, <1>2, <1>5, <1>6, InvCallDamaged

\* Asking keeps the invariant.
LEMMA InvAsk == Inv /\ Ask => Inv'
<1> SUFFICES ASSUME Inv, Ask PROVE Inv'
  OBVIOUS
<1> QED BY InvCallProxy, InvCallCutFrame, InvCallCutPayload, InvCallUnknown, InvCallSyncAnyway DEF Ask

-----------------------------------------------------------------------------
\* The numbers of the message types.
LEMMA TypeNumbers ==
  /\ MsgType.responseOk = 2 /\ MsgType.responseErr = 3 /\ MsgType.streamData = 4
  /\ MsgType.streamEnd = 5 /\ MsgType.streamErr = 6 /\ MsgType.dartFnCall = 7
  BY DEF MsgType

\* Those that Dart accepts.
MessageTypes == 2 .. 7

\* They are all of them.
LEMMA TypesKnown ==
  /\ MsgType.responseOk \in MessageTypes /\ MsgType.responseErr \in MessageTypes
  /\ MsgType.streamData \in MessageTypes /\ MsgType.streamEnd \in MessageTypes
  /\ MsgType.streamErr \in MessageTypes /\ MsgType.dartFnCall \in MessageTypes
  BY DEF MsgType, MessageTypes

\* The ids of calls, of replies and of closures.
LEMMA CallIds == CallId \in Count /\ ReplyId \in Count /\ 0 \in Count
  BY Ranges, SMT DEF CallId, ReplyId

\* Dart parses a message as its sender made it.
LEMMA MessageSays ==
  ASSUME NEW type \in MessageTypes, NEW req \in Count, NEW method \in Count,
         NEW payload \in Buffer, Len(payload) \in Count
  PROVE  parseFrame(make_frame(type, req, method, payload)) = Said(type, req, method, payload)
<1>1. type \in 1 .. 7
  BY DEF MessageTypes
<1> QED BY <1>1, FrameSays

\* A call to a closure waits in the port only while the native side waits for the reply.
LEMMA NoClosure ==
  ASSUME NEW m, NEW f, Sound(m, f), cpp.at # "calling"
  PROVE  m.of # "closure"
  BY DEF Sound

\* No answer waits in the port while the native side is busy.
LEMMA NoAnswer ==
  ASSUME PortInv, cpp.at # "rest" \/ sink.id # 0 \/ dart # "waiting"
  PROVE  \A i \in 1 .. Len(port) : port[i].of \notin Answers
  BY DEF PortInv

\* The parts of the invariant that a step leaves alone.
LEMMA PartsKept ==
  /\ WaitsInv /\ UNCHANGED <<dart, call, streams, pending>> => WaitsInv'
  /\ FnsInv /\ UNCHANGED <<fns, persistent, registered, dart, call, cpp>> => FnsInv'
  /\ RunInv /\ UNCHANGED <<cpp, call, registered>> => RunInv'
  /\ ReturnedInv /\ UNCHANGED <<cpp, call, buffer>> => ReturnedInv'
  /\ ReplyInv /\ UNCHANGED <<cpp, buffer, registered>> => ReplyInv'
  /\ GotInv /\ UNCHANGED <<got, call, buffer, dart, registered, fns, cpp>> => GotInv'
<1>1. WaitsInv /\ UNCHANGED <<dart, call, streams, pending>> => WaitsInv'
  BY DEF WaitsInv, Active
<1>2. FnsInv /\ UNCHANGED <<fns, persistent, registered, dart, call, cpp>> => FnsInv'
  BY DEF FnsInv, Active
<1>3. RunInv /\ UNCHANGED <<cpp, call, registered>> => RunInv'
  BY FnKept, Zenon DEF RunInv, InMethod
<1>4. ReturnedInv /\ UNCHANGED <<cpp, call, buffer>> => ReturnedInv'
  BY DEF ReturnedInv, ResultReads, ResultType
<1>5. ReplyInv /\ UNCHANGED <<cpp, buffer, registered>> => ReplyInv'
  BY FnKept DEF ReplyInv
<1>6. GotInv /\ UNCHANGED <<got, call, buffer, dart, registered, fns, cpp>> => GotInv'
  BY DEF GotInv, ArgumentsArrive, AnswersArrive, CallbacksArrive, DamageIsAnswered
<1> QED BY <1>1, <1>2, <1>3, <1>4, <1>5, <1>6

\* Only the call and what the caller waits for is needed for a step outside of a call.
LEMMA NotRunning ==
  /\ cpp'.at \notin {"running", "calling", "called back", "reply"} => RunInv' /\ ReplyInv'
  /\ cpp'.at # "request" => RequestInv'
  /\ cpp'.at # "returned" => ReturnedInv'
  /\ sink'.id = 0 => SinkInv'
  BY Zenon DEF RunInv, InMethod, ReplyInv, RequestInv, ReturnedInv, SinkInv

\* The closures of a call are forgotten with it.
LEMMA FnsSettle ==
  ASSUME FnsInv, registered = persistent, registered' = registered, persistent' = persistent,
         dart' = "settled", fns' = fns \cap {persistent}
  PROVE  FnsInv'
  BY DEF FnsInv, Active

\* A call is settled with its outcome.
LEMMA GotSettles ==
  ASSUME dart' = "settled", cpp'.at = "rest",
         got'.of = "end" \/ (got'.of \in {"result", "failure"} /\ got'.v = got'.meant),
         call'.damaged => got'.of = "failure"
  PROVE  GotInv' /\ WaitsInv' /\ PlacesAgree' /\ IdleInv'
<1>1. GotInv'
  BY DEF GotInv, ArgumentsArrive, AnswersArrive, CallbacksArrive, DamageIsAnswered
<1>2. WaitsInv' /\ PlacesAgree' /\ IdleInv'
  BY DEF WaitsInv, Active, PlacesAgree, IdleInv
<1> QED BY <1>1, <1>2

-----------------------------------------------------------------------------
\* A request that the table serves enters its method.
LEMMA InvEnter ==
  ASSUME Inv, cpp.at = "request", NEW d, d = Decode(buffer.bytes, Table(call.lib, cpp.entry)),
         d.ok, Enter(d), UNCHANGED <<call, pending, streams, fns, persistent, registered>>
  PROVE  Inv'
<1>1. /\ dart \in {"blocked", "waiting"} /\ cpp.entry \in {"async", "sync"}
      /\ dart = "blocked" <=> cpp.entry = "sync"
  BY DEF Inv, PlacesAgree
<1>2. /\ sink.id = 0 /\ port = <<>> /\ ~call.damaged
      /\ d.id \in {0, CallId} /\ (cpp.entry = "async" => d.id = CallId)
      /\ d.row \in Table(call.lib, cpp.entry) /\ d.row.id = call.row.id
      /\ d.args = call.args /\ d.unread = 0
  BY DEF Inv, RequestInv, Welcome
<1>3. /\ cpp'.at = "running" /\ cpp'.entry = cpp.entry /\ cpp'.id = d.id /\ cpp'.row = d.row
      /\ cpp'.args = d.args /\ sink' = SinkOf(d) /\ buffer' = buffer /\ port' = port /\ dart' = dart
      /\ got'.of = "args" /\ got'.v = d.args /\ got'.meant = call.args /\ got'.unread = d.unread
  BY DEF Enter
<1>4. PlacesAgree' /\ IdleInv' /\ CallInv' /\ WaitsInv' /\ FnsInv'
  <2>1. PlacesAgree' /\ IdleInv' /\ CallInv'
    BY <1>1, <1>2, <1>3 DEF Inv, PlacesAgree, IdleInv, CallInv
  <2>2. WaitsInv'
    BY <1>3, PartsKept DEF Inv
  <2>3. FnsInv'
    BY <1>2, <1>3 DEF Inv, FnsInv, Active
  <2> QED BY <2>1, <2>2, <2>3
<1>5. RequestInv' /\ ReturnedInv' /\ ReplyInv'
  BY <1>3 DEF RequestInv, ReturnedInv, ReplyInv
<1>6. RunInv'
  BY <1>2, <1>3 DEF RunInv
<1>7. PortInv'
  BY <1>2, <1>3, ListEmpty DEF PortInv
<1>8. GotInv'
  BY <1>1, <1>2, <1>3 DEF GotInv, ArgumentsArrive, AnswersArrive, CallbacksArrive, DamageIsAnswered
<1>9. SinkInv'
  <2> SUFFICES ASSUME sink'.id # 0 PROVE SinkInv'
    BY DEF SinkInv
  <2>1. call.lib \in Names /\ call.row \in Proxies(call.lib)
    BY <1>1, CallRow DEF Inv
  <2>2. d.row \in Requests(call.lib) \cup SyncRequests(call.lib)
        /\ (cpp.entry = "sync" => d.row \in SyncRequests(call.lib))
    BY <1>2 DEF Table
  <2>3. /\ d.row.args = call.row.args
        /\ d.row.run = "stream" <=> call.row.run = "open_stream"
        /\ call.row.run = "open_stream" => call.row.res = d.row.res
    BY <1>2, <2>1, <2>2, RowServes
  <2>4. cpp.entry = "sync" => d.row.run # "stream"
    BY <1>2, <2>1, <2>2, SyncRow
  <2>5. /\ call.row.run = "open_stream" => CallId \in streams /\ dart # "blocked"
        /\ \A k \in Progresses(call.row) :
             call.args[k] = 0 \/ (call.args[k] = CallId /\ CallId \in streams)
    BY <1>1, <1>2 DEF Inv, WaitsInv, Active
  <2>6. Progresses(d.row) = Progresses(call.row)
    BY <2>3 DEF Progresses
  <2>7. CASE d.row.run = "stream"
    <3>1. sink'.id = d.id /\ sink'.of = d.row.res
      BY <1>3, <2>7 DEF SinkOf
    <3>2. SinkType' = call.row.res
      BY <2>3, <2>7 DEF SinkType
    <3>3. Listening'
      BY <2>3, <2>5, <2>7 DEF Listening
    <3> QED BY <1>1, <1>2, <2>3, <2>4, <2>7, <3>1, <3>2, <3>3 DEF SinkInv
  <2>8. CASE d.row.run # "stream"
    <3> DEFINE k == TheArg(Progresses(call.row))
    <3>1. Progresses(call.row) # {} /\ d.args[k] # 0
          /\ sink'.id = d.args[k] /\ sink'.of = d.row.args[k].of
      BY <1>3, <2>6, <2>8 DEF SinkOf, NoSink
    <3>2. k \in Progresses(call.row)
      BY <3>1 DEF TheArg
    <3>3. SinkType' = call.row.args[k].of
      BY <2>3, <2>8 DEF SinkType
    <3> HIDE DEF k
    <3>4. d.args[k] = CallId /\ CallId \in streams
      BY <1>2, <2>5, <3>1, <3>2
    <3>5. Listening'
      BY <3>4 DEF Listening
    <3> QED BY <2>3, <3>1, <3>3, <3>4, <3>5 DEF SinkInv
  <2> QED BY <2>7, <2>8
<1> QED BY <1>4, <1>5, <1>6, <1>7, <1>8, <1>9 DEF Inv

\* What is known of a request that is refused.
LEMMA RefusedKnown ==
  ASSUME Inv, cpp.at = "request", NEW d, d = Decode(buffer.bytes, Table(call.lib, cpp.entry)), ~d.ok
  PROVE  /\ sink.id = 0 /\ port = <<>> /\ d.text \in Texts /\ d.id \in Count
         /\ dart \in {"blocked", "waiting"} /\ (dart = "blocked" <=> cpp.entry = "sync")
         /\ registered = persistent /\ call.row.id \in Count /\ call.damaged \in BOOLEAN
         /\ ~call.damaged => d.text = NoObject
         /\ cpp.entry = "async" => d.id \in pending \cup streams
<1>1. /\ dart \in {"blocked", "waiting"} /\ (dart = "blocked" <=> cpp.entry = "sync")
      /\ cpp.entry \in {"async", "sync"}
  BY DEF Inv, PlacesAgree
<1>2. /\ sink.id = 0 /\ port = <<>> /\ d.id \in {0, CallId}
      /\ IF call.damaged THEN cpp.entry = "async" => d.id \in pending
         ELSE /\ d.text = NoObject /\ call.row \notin KeepsFn(call.lib)
              /\ cpp.entry = "async" => d.id = CallId
  BY DEF Inv, RequestInv, Welcome
<1>3. d.text \in Texts
  BY RefusalTexts
<1>4. registered = persistent
  BY <1>2 DEF Inv, FnsInv
<1>5. call.row.id \in Count /\ call.damaged \in BOOLEAN
  BY <1>1, CallRow DEF Inv, CallInv
<1>6. ~call.damaged /\ cpp.entry = "async" => CallId \in pending \cup streams
  BY <1>1 DEF Inv, WaitsInv, Active
<1> QED BY <1>1, <1>2, <1>3, <1>4, <1>5, <1>6, CallIds

\* A request that is refused on the io thread is answered.
LEMMA InvRefuseAsync ==
  ASSUME Inv, cpp.at = "request", cpp.entry = "async",
         NEW d, d = Decode(buffer.bytes, Table(call.lib, cpp.entry)), ~d.ok,
         Refuse(d), PostErr(d.id, d.text), cpp' = [at |-> "rest"],
         UNCHANGED <<buffer, dart, sink, call, pending, streams, fns, persistent, registered>>
  PROVE  Inv'
<1>1. /\ sink.id = 0 /\ port = <<>> /\ d.text \in Texts /\ d.id \in Count
      /\ dart = "waiting" /\ registered = persistent /\ call.row.id \in Count
      /\ call.damaged \in BOOLEAN /\ (~call.damaged => d.text = NoObject)
      /\ d.id \in pending \cup streams
  BY RefusedKnown
<1>2. cpp'.at = "rest" /\ got'.of = "nothing"
  BY <1>1 DEF Refuse, Nothing
<1>3. PICK e : e = Message(make_frame(MsgType.responseErr, d.id, call.row.id, ErrPayload(d.text)), "failure", d.text)
  OBVIOUS
<1>4. port' = Append(port, e)
  BY <1>3 DEF PostErr, Post
<1>5. e.of = "failure" /\ e.meant = d.text
      /\ e.bytes = make_frame(MsgType.responseErr, d.id, call.row.id, ErrPayload(d.text))
  BY <1>3 DEF Message
<1>6. /\ ErrPayload(d.text) \in Buffer /\ Len(ErrPayload(d.text)) \in Count
      /\ ErrorRead(ErrPayload(d.text), d.text)
  BY <1>1, ErrorsCross
<1>7. PICK f : f = parseFrame(e.bytes)
  OBVIOUS
<1>8. f.ok = TRUE /\ f.type = MsgType.responseErr /\ f.req = d.id /\ f.payload = ErrPayload(d.text)
  <2>1. f = Said(MsgType.responseErr, d.id, call.row.id, ErrPayload(d.text))
    BY <1>1, <1>5, <1>6, <1>7, TypesKnown, MessageSays
  <2> QED BY <2>1 DEF Said
<1>9. Sound(e, f)'
  BY <1>1, <1>5, <1>6, <1>8 DEF Sound
<1>10. PortInv'
  <2>1. \A i \in 1 .. Len(port) : FALSE
    BY <1>1, ListEmpty
  <2>2. \A m, g : Sound(m, g) /\ m.of \notin Answers => Sound(m, g)'
    <3> SUFFICES ASSUME NEW m, NEW g, Sound(m, g), m.of \notin Answers PROVE Sound(m, g)'
      OBVIOUS
    <3>1. m.of # "closure"
      BY NoClosure
    <3>2. Listening => Listening'
      BY DEF Listening
    <3> QED BY <3>1, <3>2, SoundKept
  <2>3. Sound(e, parseFrame(e.bytes))'
    BY <1>7, <1>9
  <2>4. PortInv
    BY DEF Inv
  <2>5. e.of = "closure" => FALSE
    BY <1>5
  <2> QED BY <1>1, <1>2, <1>4, <2>1, <2>2, <2>3, <2>4, <2>5, PortGrows
<1>11. PlacesAgree' /\ IdleInv' /\ CallInv'
  BY <1>1, <1>2 DEF Inv, PlacesAgree, IdleInv, CallInv
<1>12. WaitsInv'
  BY PartsKept DEF Inv
<1>13. FnsInv'
  BY <1>1 DEF Inv, FnsInv, Active
<1>14. RunInv' /\ ReplyInv' /\ RequestInv' /\ ReturnedInv' /\ SinkInv'
  BY <1>1, <1>2, NotRunning
<1>15. GotInv'
  BY <1>1, <1>2 DEF GotInv, ArgumentsArrive, AnswersArrive, CallbacksArrive, DamageIsAnswered
<1> QED BY <1>10, <1>11, <1>12, <1>13, <1>14, <1>15 DEF Inv

\* The dispatcher of the io thread keeps the invariant.
LEMMA InvDispatchRequest == Inv /\ DispatchRequest => Inv'
<1> SUFFICES ASSUME Inv, DispatchRequest PROVE Inv'
  OBVIOUS
<1>1. cpp.at = "request" /\ cpp.entry = "async" /\ Table(call.lib, cpp.entry) = Requests(call.lib)
      /\ UNCHANGED <<call, pending, streams, fns, persistent, registered>>
  BY DEF DispatchRequest, Table
<1>2. PICK d : /\ d = Decode(buffer.bytes, Requests(call.lib))
               /\ \/ d.ok /\ Enter(d)
                  \/ /\ ~d.ok
                     /\ Refuse(d)
                     /\ PostErr(d.id, d.text)
                     /\ cpp' = [at |-> "rest"]
                     /\ UNCHANGED <<buffer, dart, sink>>
  BY DEF DispatchRequest
<1> QED BY <1>1, <1>2, InvEnter, InvRefuseAsync

\* A request that is refused on the thread of the isolate: the refusal is thrown there.
LEMMA InvThrowOut ==
  ASSUME Inv, cpp.at = "request", cpp.entry = "sync",
         NEW d, d = Decode(buffer.bytes, Table(call.lib, cpp.entry)), ~d.ok, ThrowsOut(d),
         Settle(IF call.damaged THEN [of |-> "failure", v |-> d.text, meant |-> d.text]
                ELSE [of |-> "args", v |-> Bad, meant |-> call.args, unread |-> 0]),
         cpp' = [at |-> "rest"], 
         UNCHANGED <<buffer, port, sink, call, pending, streams, persistent, registered>>
  PROVE  Inv'
<1>1. /\ sink.id = 0 /\ port = <<>> /\ registered = persistent /\ dart = "blocked"
      /\ call.damaged \in BOOLEAN /\ (~call.damaged => d.text = NoObject)
  BY RefusedKnown
<1>2. call.damaged = TRUE
  <2>1. NoObject # BadFrame
    <3>1. NoObject[1] = 4 /\ BadFrame[1] = 1
      BY DEF NoObject, BadFrame
    <3> QED BY <3>1
  <2>2. d.text = NoObject => ~ThrowsOut(d)
    BY <2>1 DEF ThrowsOut
  <2> QED BY <1>1, <2>2
<1>3. /\ dart' = "settled" /\ fns' = fns \cap {persistent} /\ cpp'.at = "rest"
      /\ got'.of = "failure" /\ got'.v = got'.meant
  BY <1>2 DEF Settle
<1>4. GotInv' /\ WaitsInv' /\ PlacesAgree' /\ IdleInv'
  BY <1>3, GotSettles
<1>5. FnsInv'
  BY <1>1, <1>3, FnsSettle DEF Inv
<1>6. RunInv' /\ ReplyInv' /\ RequestInv' /\ ReturnedInv' /\ SinkInv'
  BY <1>1, <1>3, NotRunning
<1>7. CallInv'
  BY <1>1, <1>3 DEF Inv, CallInv
<1>8. PortInv'
  BY <1>1, ListEmpty DEF PortInv
<1> QED BY <1>4, <1>5, <1>6, <1>7, <1>8 DEF Inv

\* It is answered by the dispatcher.
LEMMA InvRefuseSync ==
  ASSUME Inv, cpp.at = "request", cpp.entry = "sync",
         NEW d, d = Decode(buffer.bytes, Table(call.lib, cpp.entry)), ~d.ok,
         Refuse(d), Answer(MsgType.responseErr, d.id, ErrPayload(d.text), "failure", d.text),
         UNCHANGED <<port, dart, fns, sink, call, pending, streams, persistent, registered>>
  PROVE  Inv'
<1>1. /\ sink.id = 0 /\ port = <<>> /\ d.text \in Texts /\ d.id \in Count
      /\ dart = "blocked" /\ registered = persistent /\ call.row.id \in Count
      /\ call.damaged \in BOOLEAN /\ (~call.damaged => d.text = NoObject)
  BY RefusedKnown
<1>2. cpp'.at = "returned" /\ got'.of = "nothing"
  BY <1>1 DEF Refuse, Nothing, Answer
<1>3. buffer'.of = "failure" /\ buffer'.meant = d.text
      /\ buffer'.bytes = make_frame(MsgType.responseErr, d.id, call.row.id, ErrPayload(d.text))
  BY DEF Answer, Message
<1>4. /\ ErrPayload(d.text) \in Buffer /\ Len(ErrPayload(d.text)) \in Count
      /\ ErrorRead(ErrPayload(d.text), d.text)
  BY <1>1, ErrorsCross
<1>5. PICK f : f = parseFrame(buffer'.bytes)
  OBVIOUS
<1>6. f.ok = TRUE /\ f.type = MsgType.responseErr /\ f.payload = ErrPayload(d.text)
  <2>1. f = Said(MsgType.responseErr, d.id, call.row.id, ErrPayload(d.text))
    BY <1>1, <1>3, <1>4, <1>5, TypesKnown, MessageSays
  <2> QED BY <2>1 DEF Said
<1>7. ReturnedInv'
  <2>1. parseFrame(buffer'.bytes) = f
    BY <1>5
  <2> QED BY <1>3, <1>4, <1>6, <2>1 DEF ReturnedInv
<1>8. PlacesAgree' /\ IdleInv' /\ CallInv'
  BY <1>1, <1>2 DEF Inv, PlacesAgree, IdleInv, CallInv
<1>9. WaitsInv'
  BY PartsKept DEF Inv
<1>10. FnsInv'
  BY <1>1 DEF Inv, FnsInv, Active
<1>11. RunInv' /\ ReplyInv' /\ RequestInv' /\ SinkInv'
  BY <1>1, <1>2, NotRunning
<1>12. GotInv'
  BY <1>1, <1>2 DEF GotInv, ArgumentsArrive, AnswersArrive, CallbacksArrive, DamageIsAnswered
<1>13. PortInv'
  BY <1>1, ListEmpty DEF PortInv
<1> QED BY <1>7, <1>8, <1>9, <1>10, <1>11, <1>12, <1>13 DEF Inv

\* The dispatcher of the thread of the isolate keeps the invariant.
LEMMA InvDispatchSync == Inv /\ DispatchSync => Inv'
<1> SUFFICES ASSUME Inv, DispatchSync PROVE Inv'
  OBVIOUS
<1>1. cpp.at = "request" /\ cpp.entry = "sync" /\ Table(call.lib, cpp.entry) = SyncRequests(call.lib)
      /\ UNCHANGED <<call, pending, streams, persistent, registered>>
  BY DEF DispatchSync, Table
<1>2. PICK d :
        /\ d = Decode(buffer.bytes, SyncRequests(call.lib))
        /\ \/ d.ok /\ Enter(d) /\ UNCHANGED fns
           \/ /\ ~d.ok /\ ThrowsOut(d)
              /\ Settle(IF call.damaged THEN [of |-> "failure", v |-> d.text, meant |-> d.text]
                        ELSE [of |-> "args", v |-> Bad, meant |-> call.args, unread |-> 0])
              /\ cpp' = [at |-> "rest"]
              /\ UNCHANGED <<buffer, port, sink>>
           \/ /\ ~d.ok /\ ~ThrowsOut(d)
              /\ Refuse(d)
              /\ Answer(MsgType.responseErr, d.id, ErrPayload(d.text), "failure", d.text)
              /\ UNCHANGED <<port, dart, fns, sink>>
  BY DEF DispatchSync
<1> QED BY <1>1, <1>2, InvEnter, InvThrowOut, InvRefuseSync

-----------------------------------------------------------------------------
\* The parts of the invariant that only matter when a call is under way, or never.
LEMMA SinkKept ==
  SinkInv /\ UNCHANGED <<sink, call, streams, dart, buffer>> => SinkInv'
  BY DEF SinkInv, Listening, SinkType

\* A message that is no call to a closure stays sound while the stream is listened to.
LEMMA MessagesKept ==
  ASSUME call' = call, cpp.at # "calling", Listening => Listening'
  PROVE  \A m, f : Sound(m, f) /\ m.of \notin Answers => Sound(m, f)'
<1> SUFFICES ASSUME NEW m, NEW f, Sound(m, f), m.of \notin Answers PROVE Sound(m, f)'
  OBVIOUS
<1>1. m.of # "closure"
  BY NoClosure
<1> QED BY <1>1, SoundKept

-----------------------------------------------------------------------------
\* An item joins the port.
LEMMA InvEmit == Inv /\ Emit => Inv'
<1> SUFFICES ASSUME Inv, Emit PROVE Inv'
  OBVIOUS
<1>1. PICK c \in Variants :
        Post(MsgType.streamData, sink.id, Write(sink.of, Value(sink.of, c)), "item", Value(sink.of, c))
  BY DEF Emit
<1>2. /\ sink.id # 0 /\ sink'.id = sink.id /\ sink'.of = sink.of
      /\ UNCHANGED <<call, pending, streams, fns, persistent, registered, dart, cpp, buffer, got>>
  BY DEF Emit
<1>3. /\ sink.id = CallId /\ sink.of = SinkType /\ Listening
      /\ call.row.run = "open_stream" \/ Progresses(call.row) # {}
  BY <1>2 DEF Inv, SinkInv
<1>4. dart # "idle" /\ call.damaged = FALSE /\ cpp.at # "request"
  BY <1>2 DEF Inv, IdleInv, CallInv, RequestInv
<1>5. call.row.id \in Count
  BY <1>4, CallRow DEF Inv
<1> DEFINE v == Value(SinkType, c)
           w == Write(SinkType, v)
<1>6. SinkType \in ReadTypes /\ Fine(SinkType, v)
  BY <1>3, <1>4, SinkItemType DEF Inv
<1> HIDE DEF v
<1>7. w \in Buffer /\ Len(w) \in Count /\ Reads(Get(SinkType, w, 0), v)
  BY <1>6, FineCrosses
<1>8. PICK e : e = Message(make_frame(MsgType.streamData, CallId, call.row.id, w), "item", v)
  OBVIOUS
<1>9. port' = Append(port, e)
  BY <1>1, <1>3, <1>8 DEF Post, v
<1>10. /\ e.of = "item" /\ e.meant = v
       /\ e.bytes = make_frame(MsgType.streamData, CallId, call.row.id, w)
  BY <1>8 DEF Message
<1>11. PICK f : f = parseFrame(e.bytes)
  OBVIOUS
<1> HIDE DEF w
<1>12. f.ok = TRUE /\ f.type = MsgType.streamData /\ f.req = CallId /\ f.payload = w
  <2>1. f = Said(MsgType.streamData, CallId, call.row.id, w)
    BY <1>5, <1>7, <1>10, <1>11, TypesKnown, CallIds, MessageSays
  <2> QED BY <2>1 DEF Said
<1>13. Listening' /\ SinkType' = SinkType
  BY <1>2, <1>3 DEF Listening, SinkType
<1>14. Sound(e, f)'
  BY <1>2, <1>4, <1>7, <1>10, <1>12, <1>13 DEF Sound
<1>15. PortInv'
  <2>1. \A i \in 1 .. Len(port) : port[i].of \notin Answers
    BY <1>2, NoAnswer DEF Inv
  <2>2. FnId' = FnId /\ FnType' = FnType
    BY <1>2, FnKept
  <2>3. \A m, g : Sound(m, g) /\ m.of \notin Answers => Sound(m, g)'
    <3> SUFFICES ASSUME NEW m, NEW g, Sound(m, g), m.of \notin Answers PROVE Sound(m, g)'
      OBVIOUS
    <3>1. m.of = "closure" => cpp'.at = "calling"
      BY <1>2 DEF Sound
    <3> QED BY <1>2, <1>13, <2>2, <3>1, SoundKept
  <2>4. Sound(e, parseFrame(e.bytes))'
    BY <1>11, <1>14
  <2>5. e.of \notin Answers /\ e.of # "closure" /\ PortInv
    BY <1>10 DEF Answers, Inv
  <2> QED BY <1>9, <2>1, <2>3, <2>4, <2>5, PortGrows
<1>16. PlacesAgree' /\ IdleInv' /\ CallInv'
  BY <1>2, <1>4, Zenon DEF Inv, PlacesAgree, IdleInv, CallInv
<1>17. WaitsInv' /\ FnsInv' /\ RunInv' /\ ReturnedInv' /\ ReplyInv' /\ GotInv'
  BY <1>2, PartsKept DEF Inv
<1>18. RequestInv'
  BY <1>2, <1>4 DEF RequestInv
<1>19. SinkInv'
  BY <1>2, <1>3, <1>13 DEF SinkInv
<1> QED BY <1>15, <1>16, <1>17, <1>18, <1>19 DEF Inv

-----------------------------------------------------------------------------
\* The values a closure is called with are of its types.
LEMMA ClosureArguments ==
  ASSUME NEW t \in FnTypes, NEW choice \in [DOMAIN t.args -> Variants]
  PROVE  /\ FineAll(t.args, Values(t.args, choice))
         /\ \A i \in DOMAIN Values(t.args, choice) : t.args[i] \in ReadTypes
<1> DEFINE ts == t.args
           vs == Values(ts, choice)
<1>1. ts \in {<<Str>>, <<Str, Str>>}
  BY FnParts
<1>2. PICK n \in 1 .. 2 : Len(ts) = n /\ DOMAIN ts = 1 .. n /\ \A i \in 1 .. n : ts[i] = Str
  <2>1. CASE ts = <<Str>>
    <3>1. Len(ts) = 1 /\ DOMAIN ts = 1 .. 1 /\ \A i \in 1 .. 1 : ts[i] = Str
      BY <2>1
    <3> QED BY <3>1
  <2>2. CASE ts = <<Str, Str>>
    <3>1. Len(ts) = 2 /\ DOMAIN ts = 1 .. 2 /\ \A i \in 1 .. 2 : ts[i] = Str
      BY <2>2
    <3> QED BY <3>1
  <2> QED BY <1>1, <2>1, <2>2
<1> HIDE DEF ts
<1>3. vs = [k \in 1 .. n |-> Value(ts[k], choice[k])]
  BY <1>2 DEF Values
<1>4. choice \in [1 .. n -> Variants]
  BY <1>2 DEF ts
<1>5. \A i \in 1 .. n : Fine(ts[i], vs[i])
  BY <1>2, <1>3, <1>4, TextsKnown
<1>6. IsList(vs) /\ Len(vs) = n /\ DOMAIN vs = 1 .. n
  <2> DEFINE S == {vs[k] : k \in 1 .. n}
  <2>1. vs \in [1 .. n -> S]
    BY <1>3
  <2> HIDE DEF vs, S
  <2>2. vs \in Seq(S) /\ Len(vs) = n /\ DOMAIN vs = 1 .. n
    BY <2>1
  <2> QED BY <2>2, ListOf
<1> HIDE DEF vs
<1>7. n <= 3 /\ n \in Nat
  BY <1>2
<1>8. Str \in ReadTypes
  BY DEF ReadTypes, AnswerTypes
<1>9. FineAll(ts, vs)
  BY <1>2, <1>5, <1>6, <1>7 DEF FineAll
<1>10. \A i \in DOMAIN vs : ts[i] \in ReadTypes
  BY <1>2, <1>6, <1>8
<1> QED BY <1>9, <1>10 DEF ts, vs

\* What native code sends to a closure is read by its wrapper.
LEMMA CallBackCrosses ==
  ASSUME NEW t \in FnTypes, NEW choice \in [DOMAIN t.args -> Variants], NEW id \in Count,
         NEW bytes, WritesInC => t = StringFn,
         bytes = IF WritesInC THEN dcb_write(Str, Values(t.args, choice)[1])
                 ELSE WriteAll(t.args, Values(t.args, choice))
  PROVE  LET payload == WriteU64(id) \o bytes
         IN  /\ payload \in Buffer /\ Len(payload) \in Count
             /\ GetU64(payload, 0).v = id
             /\ Reads(GetAll(t.args, payload, 8), Values(t.args, choice))
<1> DEFINE ts == t.args
           vs == Values(ts, choice)
<1>1. FineAll(ts, vs) /\ \A i \in DOMAIN vs : ts[i] \in ReadTypes
  BY ClosureArguments
<1>2. bytes = WriteAll(ts, vs)
  <2>1. CASE ~WritesInC
    BY <2>1
  <2>2. CASE WritesInC
    <3>1. ts = <<Str>>
      BY <2>2 DEF StringFn, DartFn
    <3> HIDE DEF ts, vs
    <3>2. dcb_write(Str, vs[1]) = WriteAll(ts, vs)
      BY <1>1, <3>1, WrittenInC
    <3> QED BY <2>2, <3>2 DEF ts, vs
  <2> QED BY <2>1, <2>2
<1> HIDE DEF ts, vs
<1>3. LET payload == WriteU64(id) \o WriteAll(ts, vs)
      IN  /\ payload \in Buffer /\ Len(payload) \in Count
          /\ GetU64(payload, 0).v = id
          /\ Reads(GetAll(ts, payload, 8), vs)
  BY <1>1, ClosureCallCrosses
<1> QED BY <1>2, <1>3 DEF ts, vs

\* A call to a closure joins the port.
LEMMA InvCallBack == Inv /\ CallBack => Inv'
<1> SUFFICES ASSUME Inv, CallBack PROVE Inv'
  OBVIOUS
<1>1. /\ cpp.at = "running" /\ FnId # 0 /\ cpp' = MethodAt("calling", TRUE)
      /\ UNCHANGED <<call, pending, streams, fns, persistent, registered, dart, sink, buffer, got>>
  BY DEF CallBack, Business
<1>2. InMethod /\ CallInv /\ PlacesAgree /\ RunInv /\ FnsInv
  BY <1>1 DEF InMethod, Inv
<1>3. /\ FnId \in Count /\ FnType \in FnTypes /\ (WritesInC => FnType = StringFn)
      /\ cpp.entry = "async"
  BY <1>1, <1>2, FnKnown
<1>4. /\ Active /\ call.damaged = FALSE /\ dart # "idle" /\ (Registers <=> call.row \in KeepsFn(call.lib))
      /\ Registers => ~UsesRegistered
  BY <1>2, RunRow DEF CallInv
<1>5. dart = "waiting"
  BY <1>1, <1>2, <1>3 DEF PlacesAgree
<1>6. registered = persistent
  <2>1. ~Registers
    BY <1>1, <1>4 DEF FnId
  <2> QED BY <1>2, <1>4, <2>1 DEF FnsInv
<1>7. PICK choice \in [DOMAIN FnType.args -> Variants] :
        port' = Append(port, Message(make_frame(MsgType.dartFnCall, ReplyId, 0,
                  WriteU64(FnId) \o (IF WritesInC THEN dcb_write(Str, Values(FnType.args, choice)[1])
                                         ELSE WriteAll(FnType.args, Values(FnType.args, choice)))),
                  "closure", Values(FnType.args, choice)))
  BY DEF CallBack
<1> DEFINE vs == Values(FnType.args, choice)
<1>8. PICK bytes : bytes = IF WritesInC THEN dcb_write(Str, vs[1]) ELSE WriteAll(FnType.args, vs)
  OBVIOUS
<1>9. PICK payload : payload = WriteU64(FnId) \o bytes
  OBVIOUS
<1>10. /\ payload \in Buffer /\ Len(payload) \in Count
       /\ GetU64(payload, 0).v = FnId
       /\ Reads(GetAll(FnType.args, payload, 8), vs)
  <2>1. PICK t : t = FnType
    OBVIOUS
  <2>2. PICK i : i = FnId
    OBVIOUS
  <2>3. /\ t \in FnTypes /\ i \in Count /\ choice \in [DOMAIN t.args -> Variants]
        /\ WritesInC => t = StringFn
        /\ bytes = IF WritesInC THEN dcb_write(Str, Values(t.args, choice)[1])
                   ELSE WriteAll(t.args, Values(t.args, choice))
    BY <1>3, <1>8, <2>1, <2>2
  <2>4. LET w == WriteU64(i) \o bytes
        IN  /\ w \in Buffer /\ Len(w) \in Count
            /\ GetU64(w, 0).v = i
            /\ Reads(GetAll(t.args, w, 8), Values(t.args, choice))
    BY <2>3, CallBackCrosses
  <2> QED BY <1>9, <2>1, <2>2, <2>4
<1>11. PICK e : e = Message(make_frame(MsgType.dartFnCall, ReplyId, 0, payload), "closure", vs)
  OBVIOUS
<1>12. port' = Append(port, e)
  BY <1>7, <1>8, <1>9, <1>11
<1> HIDE DEF vs
<1>13. e.of = "closure" /\ e.meant = vs
       /\ e.bytes = make_frame(MsgType.dartFnCall, ReplyId, 0, payload)
  BY <1>11 DEF Message
<1>14. PICK f : f = parseFrame(e.bytes)
  OBVIOUS
<1>15. f.ok = TRUE /\ f.type = MsgType.dartFnCall /\ f.payload = payload
  <2> DEFINE none == 0
  <2>1. none \in Count
    BY CallIds
  <2> HIDE DEF none
  <2>2. make_frame(MsgType.dartFnCall, ReplyId, 0, payload) = make_frame(MsgType.dartFnCall, ReplyId, none, payload)
    BY DEF none
  <2>3. f = Said(MsgType.dartFnCall, ReplyId, none, payload)
    BY <1>10, <1>13, <1>14, <2>1, <2>2, TypesKnown, CallIds, MessageSays
  <2> QED BY <2>3 DEF Said
<1>16. /\ cpp'.at = "calling" /\ cpp'.entry = cpp.entry /\ cpp'.id = cpp.id
       /\ cpp'.row = cpp.row /\ cpp'.args = cpp.args
  BY <1>1 DEF MethodAt
<1>17. FnId' = FnId /\ FnType' = FnType
  BY <1>1, <1>16, FnKept
<1>18. Sound(e, f)'
  BY <1>1, <1>4, <1>10, <1>13, <1>15, <1>16, <1>17 DEF Sound
<1>19. PortInv'
  <2>1. \A i \in 1 .. Len(port) : port[i].of \notin Answers
    BY <1>1, NoAnswer DEF Inv
  <2>2. \A m, g : Sound(m, g) /\ m.of \notin Answers => Sound(m, g)'
    <3>1. Listening => Listening'
      BY <1>1 DEF Listening
    <3> QED BY <1>1, <3>1, MessagesKept
  <2>3. Sound(e, parseFrame(e.bytes))'
    BY <1>14, <1>18
  <2>4. e.of \notin Answers /\ PortInv
    BY <1>13 DEF Answers, Inv
  <2>5. \A i \in 1 .. Len(port) : port[i].of # "closure"
    BY <1>1, <2>4, NoClosure DEF PortInv
  <2> QED BY <1>12, <2>1, <2>2, <2>3, <2>4, <2>5, PortGrows
<1>20. PlacesAgree' /\ IdleInv' /\ CallInv'
  BY <1>1, <1>2, <1>3, <1>4, <1>5, <1>16 DEF PlacesAgree, IdleInv, CallInv
<1>21. WaitsInv' /\ SinkInv'
  BY <1>1, PartsKept, SinkKept DEF Inv
<1>22. FnsInv'
  BY <1>1, <1>2, <1>6 DEF FnsInv, Active
<1>23. RunInv'
  BY <1>1, <1>2, <1>16, <1>17, Zenon DEF RunInv, InMethod
<1>24. RequestInv' /\ ReturnedInv' /\ ReplyInv'
  BY <1>16, NotRunning DEF ReplyInv
<1>25. GotInv'
  <2>1. GotInv
    BY DEF Inv
  <2> QED BY <1>1, <1>4, <2>1 DEF GotInv, ArgumentsArrive, AnswersArrive, CallbacksArrive, DamageIsAnswered
<1> QED BY <1>19, <1>20, <1>21, <1>22, <1>23, <1>24, <1>25 DEF Inv

-----------------------------------------------------------------------------
\* What a method ends with: the outcome that its caller can read.
Outcome(type, payload, of, meant) ==
  /\ type \in MessageTypes /\ payload \in Buffer /\ Len(payload) \in Count
  /\ \/ /\ of = "result" /\ type = MsgType.responseOk /\ cpp.row.run # "stream"
        /\ ResultReads(payload, meant)
     \/ /\ of = "failure" /\ ErrorRead(payload, meant)
        /\ type = IF cpp.row.run = "stream" THEN MsgType.streamErr ELSE MsgType.responseErr
     \/ of = "end" /\ type = MsgType.streamEnd /\ cpp.row.run = "stream"

\* What is known when a method ends.
LEMMA EndKnown ==
  ASSUME Inv, Business, registered' = IF Registers THEN cpp.args[1] ELSE registered
  PROVE  /\ cpp.at = "running" /\ InMethod /\ Active /\ call.damaged = FALSE /\ dart # "idle" /\ dart # "settled"
         /\ call.row.id \in Count /\ cpp.id \in Count
         /\ cpp.entry \in {"async", "sync"}
         /\ cpp.entry = "async" => dart = "waiting" /\ cpp.id = CallId
         /\ cpp.entry = "sync" => dart = "blocked" /\ cpp.row.run # "stream"
         /\ registered' = persistent
<1>1. cpp.at = "running" /\ InMethod /\ CallInv /\ PlacesAgree /\ RunInv /\ FnsInv /\ WaitsInv
  BY DEF Business, InMethod, Inv
<1>2. /\ Active /\ call.damaged = FALSE /\ dart # "idle" /\ dart # "settled"
      /\ cpp.entry = "sync" => cpp.row.run # "stream"
      /\ Registers <=> call.row \in KeepsFn(call.lib)
      /\ Registers => call.row.args = <<StringFn>>
      /\ cpp.entry \in {"async", "sync"}
  BY <1>1, RunRow DEF CallInv
<1>3. /\ cpp.entry = "async" => dart = "waiting" /\ cpp.id = CallId
      /\ cpp.entry = "sync" => dart = "blocked"
      /\ cpp.id \in {0, CallId} /\ cpp.args = call.args
  BY <1>1, <1>2 DEF PlacesAgree, RunInv
<1>4. call.row.id \in Count
  BY <1>1, <1>2, CallRow
<1>5. registered' = persistent
  <2>1. CASE Registers
    <3> DEFINE one == 1
    <3>1. one \in Fns(call.row)
      <4>1. DOMAIN call.row.args = {1} /\ call.row.args[1] = StringFn
        BY <1>2, <2>1
      <4>2. StringFn.kind = "fn"
        BY DEF StringFn, DartFn
      <4> QED BY <4>1, <4>2 DEF Fns
    <3> HIDE DEF one
    <3>2. call.args[one] = persistent
      BY <1>1, <1>2, <2>1, <3>1 DEF FnsInv
    <3> QED BY <1>3, <2>1, <3>2 DEF one
  <2>2. CASE ~Registers
    BY <1>1, <1>2, <2>2 DEF FnsInv
  <2> QED BY <2>1, <2>2
<1> QED BY <1>1, <1>2, <1>3, <1>4, <1>5, CallIds

\* A method ends on the io thread: its outcome is posted.
LEMMA InvFinishAsync ==
  ASSUME Inv, Business, cpp.entry = "async",
         registered' = IF Registers THEN cpp.args[1] ELSE registered,
         NEW type, NEW payload, NEW of, NEW meant, Outcome(type, payload, of, meant),
         Post(type, cpp.id, payload, of, meant), cpp' = [at |-> "rest"], sink' = NoSink,
         UNCHANGED <<buffer, call, pending, streams, fns, persistent, dart, got>>
  PROVE  Inv'
<1>1. /\ cpp.at = "running" /\ InMethod /\ Active /\ call.damaged = FALSE /\ dart # "idle" /\ dart # "settled"
      /\ call.row.id \in Count /\ dart = "waiting" /\ cpp.id = CallId /\ registered' = persistent
  BY EndKnown
<1>2. CallInv /\ PlacesAgree /\ RunInv /\ FnsInv /\ WaitsInv /\ PortInv /\ GotInv
  BY DEF Inv
<1>3. /\ type \in MessageTypes /\ payload \in Buffer /\ Len(payload) \in Count
  BY DEF Outcome
<1>4. cpp'.at = "rest" /\ sink'.id = 0
  BY DEF NoSink
<1>5. PICK e : e = Message(make_frame(type, CallId, call.row.id, payload), of, meant)
  OBVIOUS
<1>6. port' = Append(port, e)
  BY <1>1, <1>5 DEF Post
<1>7. e.of = of /\ e.meant = meant /\ e.bytes = make_frame(type, CallId, call.row.id, payload)
  BY <1>5 DEF Message
<1>8. PICK f : f = parseFrame(e.bytes)
  OBVIOUS
<1>9. f.ok = TRUE /\ f.type = type /\ f.req = CallId /\ f.payload = payload
  <2>1. f = Said(type, CallId, call.row.id, payload)
    BY <1>1, <1>3, <1>7, <1>8, CallIds, MessageSays
  <2> QED BY <2>1 DEF Said
<1>10. /\ cpp.row.run = "stream" => CallId \in streams
       /\ cpp.row.run # "stream" => CallId \in pending
  <2>1. cpp.row.run = "stream" <=> call.row.run = "open_stream"
    BY <1>1, <1>2, RunRow
  <2> QED BY <1>1, <1>2, <2>1 DEF WaitsInv
<1>11. Sound(e, f)'
  <2>1. /\ pending' = pending /\ streams' = streams /\ call'.damaged = FALSE
        /\ ResultReads(payload, meant)' = ResultReads(payload, meant)
    BY <1>1 DEF ResultReads, ResultType
  <2>2. CASE /\ of = "result" /\ type = MsgType.responseOk /\ cpp.row.run # "stream"
             /\ ResultReads(payload, meant)
    BY <1>7, <1>9, <1>10, <2>1, <2>2 DEF Sound
  <2>3. CASE /\ of = "failure" /\ ErrorRead(payload, meant)
             /\ type = IF cpp.row.run = "stream" THEN MsgType.streamErr ELSE MsgType.responseErr
    BY <1>7, <1>9, <1>10, <2>1, <2>3 DEF Sound
  <2>4. CASE of = "end" /\ type = MsgType.streamEnd /\ cpp.row.run = "stream"
    BY <1>7, <1>9, <1>10, <2>1, <2>4 DEF Sound
  <2> QED BY <2>2, <2>3, <2>4 DEF Outcome
<1>12. PortInv'
  <2>1. \A i \in 1 .. Len(port) : port[i].of \notin Answers
    BY <1>1, <1>2, NoAnswer
  <2>2. \A m, g : Sound(m, g) /\ m.of \notin Answers => Sound(m, g)'
    <3>1. Listening => Listening'
      BY DEF Listening
    <3> QED BY <1>1, <3>1, MessagesKept
  <2>3. Sound(e, parseFrame(e.bytes))'
    BY <1>8, <1>11
  <2>4. e.of \in {"result", "failure", "end"}
    BY <1>7 DEF Outcome
  <2>5. e.of # "closure"
    BY <2>4
  <2>6. dart' = "waiting"
    BY <1>1
  <2> QED BY <1>2, <1>4, <1>6, <2>1, <2>2, <2>3, <2>5, <2>6, PortGrows
<1>13. PlacesAgree' /\ IdleInv' /\ CallInv'
  BY <1>1, <1>2, <1>4 DEF PlacesAgree, IdleInv, CallInv
<1>14. WaitsInv'
  BY <1>2, PartsKept
<1>15. FnsInv'
  BY <1>1, <1>2 DEF FnsInv, Active
<1>16. RunInv' /\ ReplyInv' /\ RequestInv' /\ ReturnedInv' /\ SinkInv'
  BY <1>4, NotRunning
<1>17. GotInv'
  BY <1>1, <1>2 DEF GotInv, ArgumentsArrive, AnswersArrive, CallbacksArrive, DamageIsAnswered
<1> QED BY <1>12, <1>13, <1>14, <1>15, <1>16, <1>17 DEF Inv

\* A method ends on the thread of the isolate: its outcome is returned.
LEMMA InvFinishSync ==
  ASSUME Inv, Business, cpp.entry = "sync",
         registered' = IF Registers THEN cpp.args[1] ELSE registered,
         NEW type, NEW payload, NEW of, NEW meant, Outcome(type, payload, of, meant),
         Answer(type, cpp.id, payload, of, meant),
         UNCHANGED <<port, sink, call, pending, streams, fns, persistent, dart, got>>
  PROVE  Inv'
<1>1. /\ cpp.at = "running" /\ InMethod /\ Active /\ call.damaged = FALSE /\ dart # "idle" /\ dart # "settled"
      /\ call.row.id \in Count /\ cpp.id \in Count /\ dart = "blocked" /\ cpp.row.run # "stream"
      /\ registered' = persistent
  BY EndKnown
<1>2. /\ CallInv /\ PlacesAgree /\ RunInv /\ FnsInv /\ WaitsInv /\ PortInv /\ GotInv /\ SinkInv /\ IdleInv
  BY DEF Inv
<1>3. /\ type \in MessageTypes /\ payload \in Buffer /\ Len(payload) \in Count
  BY DEF Outcome
<1>4. /\ cpp'.at = "returned" /\ buffer'.of = of /\ buffer'.meant = meant
      /\ buffer'.bytes = make_frame(type, cpp.id, call.row.id, payload)
  BY DEF Answer, Message
<1>5. PICK f : f = parseFrame(buffer'.bytes)
  OBVIOUS
<1>6. f.ok = TRUE /\ f.type = type /\ f.payload = payload
  <2>1. f = Said(type, cpp.id, call.row.id, payload)
    BY <1>1, <1>3, <1>4, <1>5, MessageSays
  <2> QED BY <2>1 DEF Said
<1>7. ReturnedInv'
  <2>1. /\ call'.damaged = FALSE
        /\ ResultReads(payload, meant)' = ResultReads(payload, meant)
    BY <1>1 DEF ResultReads, ResultType
  <2>2. \/ of = "result" /\ type = MsgType.responseOk /\ ResultReads(payload, meant)
        \/ of = "failure" /\ ErrorRead(payload, meant) /\ type = MsgType.responseErr
    BY <1>1 DEF Outcome
  <2>3. \/ /\ buffer'.of = "result" /\ f.type = MsgType.responseOk
           /\ ResultReads(f.payload, buffer.meant)' /\ ~call'.damaged
        \/ buffer'.of = "failure" /\ f.type = MsgType.responseErr /\ ErrorRead(f.payload, buffer'.meant)
    BY <1>4, <1>6, <2>1, <2>2
  <2> QED BY <1>5, <1>6, <2>3 DEF ReturnedInv
<1>8. Listening => Listening'
  BY <1>1 DEF Listening
<1>9. PortInv'
  <2>1. \A i \in 1 .. Len(port) : port[i].of \notin Answers
    BY <1>1, <1>2, NoAnswer
  <2>2. \A m, g : Sound(m, g) /\ m.of \notin Answers => Sound(m, g)'
    BY <1>1, <1>8, MessagesKept
  <2> QED BY <1>2, <2>1, <2>2, PortStays
<1>10. PlacesAgree' /\ IdleInv' /\ CallInv'
  BY <1>1, <1>2, <1>4 DEF PlacesAgree, IdleInv, CallInv
<1>11. WaitsInv'
  BY <1>2, PartsKept
<1>12. FnsInv'
  BY <1>1, <1>2 DEF FnsInv, Active
<1>13. RunInv' /\ ReplyInv' /\ RequestInv'
  BY <1>4, NotRunning
<1>14. SinkInv'
  BY <1>2, <1>8 DEF SinkInv, SinkType
<1>15. GotInv'
  BY <1>1, <1>2 DEF GotInv, ArgumentsArrive, AnswersArrive, CallbacksArrive, DamageIsAnswered
<1> QED BY <1>7, <1>9, <1>10, <1>11, <1>12, <1>13, <1>14, <1>15 DEF Inv

\* A method ends.
LEMMA InvFinish ==
  ASSUME Inv, Business, registered' = IF Registers THEN cpp.args[1] ELSE registered,
         NEW type, NEW payload, NEW of, NEW meant, Outcome(type, payload, of, meant),
         Finish(type, payload, of, meant),
         UNCHANGED <<call, pending, streams, fns, persistent, dart, got>>
  PROVE  Inv'
<1>1. cpp.entry \in {"async", "sync"}
  BY EndKnown
<1>2. CASE cpp.entry = "async"
  <2>1. /\ Post(type, cpp.id, payload, of, meant) /\ cpp' = [at |-> "rest"]
        /\ sink' = NoSink /\ UNCHANGED buffer
    BY <1>2 DEF Finish
  <2> QED BY <1>2, <2>1, InvFinishAsync
<1>3. CASE cpp.entry = "sync"
  <2>1. Answer(type, cpp.id, payload, of, meant) /\ UNCHANGED <<port, sink>>
    BY <1>3 DEF Finish
  <2> QED BY <1>3, <2>1, InvFinishSync
<1> QED BY <1>1, <1>2, <1>3

\* What a method returns is read by the proxy that called it.
LEMMA ResultCrosses ==
  ASSUME Inv, Business, cpp.row.run # "stream", NEW c \in Variants
  PROVE  Outcome(MsgType.responseOk, Write(cpp.row.res, Value(cpp.row.res, c)), "result",
                 Value(cpp.row.res, c))
<1>1. InMethod /\ CallInv /\ PlacesAgree /\ RunInv
  BY DEF Business, InMethod, Inv
<1>2. /\ dart # "idle" /\ cpp.row \in Rows(call.lib)
      /\ cpp.row.res \in ReadTypes \cup {Void} /\ call.row.res \in {Void, cpp.row.res}
  BY <1>1, RunRow
<1>3. call.lib \in Libraries
  BY <1>1, <1>2, CallRow
<1> DEFINE t == cpp.row.res
           v == Value(t, c)
           w == Write(t, v)
<1>4. /\ t # Void => Fine(t, v)
      /\ t = Void => v = <<>>
  BY <1>2, <1>3, ValuesKnown
<1>5. ResultType \in {Void, t} /\ t \in ReadTypes \cup {Void}
  BY <1>2 DEF ResultType
<1> HIDE DEF t, v
<1>6. w \in Buffer /\ Len(w) \in Count /\ ResultReads(w, v)
  <2>1. CASE t = Void
    <3>1. w = <<>> /\ ResultType = Void
      BY <1>4, <1>5, <2>1, NoResult
    <3>2. w \in Buffer /\ Len(w) = 0
      BY <3>1 DEF Buffer
    <3> QED BY <3>1, <3>2, CallIds DEF ResultReads
  <2>2. CASE t # Void
    <3>1. Fine(t, v) /\ t \in ReadTypes
      BY <1>4, <1>5, <2>2
    <3>2. w \in Buffer /\ Len(w) \in Count /\ Reads(Get(t, w, 0), v)
      BY <3>1, FineCrosses
    <3> HIDE DEF w
    <3> QED BY <1>5, <3>2 DEF ResultReads
  <2> QED BY <2>1, <2>2
<1> HIDE DEF w
<1>7. Outcome(MsgType.responseOk, w, "result", v)
  BY <1>6, TypesKnown DEF Outcome
<1> QED BY <1>7 DEF t, v, w

\* A method that returns, or whose stream ends, keeps the invariant.
LEMMA InvReturn == Inv /\ Return => Inv'
<1> SUFFICES ASSUME Inv, Return PROVE Inv'
  OBVIOUS
<1>1. /\ Business /\ registered' = (IF Registers THEN cpp.args[1] ELSE registered)
      /\ UNCHANGED <<call, pending, streams, fns, persistent, dart, got>>
  BY DEF Return
<1>2. CASE cpp.row.run = "stream"
  <2> DEFINE w == <<>>
  <2>1. Finish(MsgType.streamEnd, w, "end", w)
    BY <1>2 DEF Return
  <2>2. w \in Buffer /\ Len(w) = 0
    BY DEF Buffer
  <2> HIDE DEF w
  <2>3. Outcome(MsgType.streamEnd, w, "end", w)
    BY <1>2, <2>2, TypesKnown, CallIds DEF Outcome
  <2> QED BY <1>1, <2>1, <2>3, InvFinish
<1>3. CASE cpp.row.run # "stream"
  <2>1. PICK c \in Variants : Finish(MsgType.responseOk, Write(cpp.row.res, Value(cpp.row.res, c)),
                                    "result", Value(cpp.row.res, c))
    BY <1>3 DEF Return
  <2> QED BY <1>1, <1>3, <2>1, ResultCrosses, InvFinish
<1> QED BY <1>2, <1>3

\* A method that throws keeps the invariant.
LEMMA InvThrow == Inv /\ Throw => Inv'
<1> SUFFICES ASSUME Inv, Throw PROVE Inv'
  OBVIOUS
<1>1. /\ Business /\ ~Registers
      /\ UNCHANGED <<call, pending, streams, fns, persistent, registered, dart, got>>
  BY DEF Throw
<1>2. PICK type : type = IF cpp.row.run = "stream" THEN MsgType.streamErr ELSE MsgType.responseErr
  OBVIOUS
<1>3. PICK payload : payload = ErrPayload(Thrown)
  OBVIOUS
<1>4. Finish(type, payload, "failure", Thrown)
  BY <1>2, <1>3 DEF Throw
<1>5. Thrown \in Texts
  BY DEF Texts
<1>6. payload \in Buffer /\ Len(payload) \in Count /\ ErrorRead(payload, Thrown)
  BY <1>3, <1>5, ErrorsCross
<1>7. Outcome(type, payload, "failure", Thrown)
  BY <1>2, <1>6, TypesKnown DEF Outcome
<1> QED BY <1>1, <1>4, <1>7, InvFinish

-----------------------------------------------------------------------------
\* The head of the port is what its sender meant.
LEMMA HeadKnown ==
  ASSUME PortInv, port # <<>>
  PROVE  /\ Sound(Head(port), parseFrame(Head(port).bytes))
         /\ Head(port).of \in Answers =>
              /\ dart = "waiting" /\ cpp.at = "rest" /\ sink.id = 0
              /\ IsList(Tail(port)) /\ Len(Tail(port)) = 0
<1>1. /\ Len(port) \in Nat /\ Len(port) >= 1 /\ Head(port) = port[1]
      /\ IsList(Tail(port)) /\ Len(Tail(port)) = Len(port) - 1
  BY ListShrinks DEF PortInv
<1> DEFINE one == 1
<1>2. one \in 1 .. Len(port) /\ Head(port) = port[one]
  BY <1>1
<1> HIDE DEF one
<1>3. /\ Sound(port[one], parseFrame(port[one].bytes))
      /\ port[one].of \in Answers => one = Len(port) /\ dart = "waiting" /\ cpp.at = "rest" /\ sink.id = 0
  BY <1>2 DEF PortInv
<1> DEFINE k == Len(port)
           l == Len(Tail(port))
<1>4. one = k => l = 0
  <2>1. k \in Nat /\ l = k - 1
    BY <1>1
  <2> HIDE DEF k, l
  <2> QED BY <2>1 DEF one
<1> QED BY <1>1, <1>2, <1>3, <1>4, Zenon

\* What a message is can be told from its type.
LEMMA TypeTells ==
  ASSUME NEW m, NEW f, Sound(m, f)
  PROVE  /\ f.ok = TRUE \/ f.ok
         /\ f.type = MsgType.responseOk => m.of = "result" /\ ResultReads(f.payload, m.meant)
         /\ f.type \in {MsgType.responseErr, MsgType.streamErr} =>
              m.of = "failure" /\ ErrorRead(f.payload, m.meant)
         /\ f.type = MsgType.streamEnd => m.of = "end"
         /\ f.type = MsgType.streamData =>
              /\ m.of = "item" /\ f.req = CallId /\ Listening
              /\ Reads(Get(SinkType, f.payload, 0), m.meant)
         /\ f.type = MsgType.dartFnCall =>
              /\ m.of = "closure" /\ cpp.at = "calling" /\ GetU64(f.payload, 0).v = FnId
              /\ Reads(GetAll(FnType.args, f.payload, 8), m.meant)
         /\ call.damaged => m.of = "failure"
  BY TypeNumbers DEF Sound

\* The proxy is told what it was answered.
LEMMA ToldResult ==
  ASSUME NEW payload, NEW meant, ResultReads(payload, meant)
  PROVE  Result(payload, meant).of = "result" /\ Result(payload, meant).v = Result(payload, meant).meant
<1>1. CASE ResultType = Void
  <2>1. Reads(Get(ResultType, payload, 0), <<>>)
    BY <1>1, NoResult
  <2> QED BY <1>1, <2>1 DEF Result, Seen, Reads
<1>2. CASE ResultType # Void
  BY <1>2 DEF ResultReads, Result, Seen, Reads
<1> QED BY <1>1, <1>2

\* The same for an error text.
LEMMA ToldFailure ==
  ASSUME NEW payload, NEW meant, ErrorRead(payload, meant)
  PROVE  Failure(payload, meant).of = "failure" /\ Failure(payload, meant).v = Failure(payload, meant).meant
  BY DEF ErrorRead, Failure

-----------------------------------------------------------------------------
\* An answer is the last message of its call.
LEMMA InvSettle ==
  ASSUME Inv, port # <<>>, Head(port).of \in Answers, port' = Tail(port),
         UNCHANGED <<call, persistent, registered, sink, cpp, buffer>>,
         NEW fate, Settle(fate),
         fate.of = "end" \/ (fate.of \in {"result", "failure"} /\ fate.v = fate.meant),
         call.damaged => fate.of = "failure"
  PROVE  Inv'
<1>1. /\ dart = "waiting" /\ cpp.at = "rest" /\ sink.id = 0
      /\ IsList(port') /\ Len(port') = 0
  BY HeadKnown DEF Inv
<1>2. dart' = "settled" /\ fns' = fns \cap {persistent} /\ got' = fate /\ cpp'.at = "rest" /\ sink'.id = 0
  BY <1>1 DEF Settle
<1>3. registered = persistent
  BY <1>1 DEF Inv, FnsInv
<1>4. GotInv' /\ WaitsInv' /\ PlacesAgree' /\ IdleInv'
  BY <1>2, GotSettles
<1>5. FnsInv'
  BY <1>2, <1>3, FnsSettle DEF Inv
<1>6. RunInv' /\ ReplyInv' /\ RequestInv' /\ ReturnedInv' /\ SinkInv'
  BY <1>2, NotRunning
<1>7. CallInv'
  BY <1>1, <1>2 DEF Inv, CallInv
<1>8. PortInv'
  <2> DEFINE l == Len(port')
  <2>1. l = 0
    BY <1>1
  <2> HIDE DEF l
  <2>2. \A i \in 1 .. l : FALSE
    BY <2>1
  <2>3. \A i \in 1 .. Len(port') : FALSE
    BY <2>2 DEF l
  <2> QED BY <1>1, <2>3 DEF PortInv
<1> QED BY <1>4, <1>5, <1>6, <1>7, <1>8 DEF Inv

\* An item is given to the stream, or dropped.
LEMMA InvItem ==
  ASSUME Inv, port # <<>>, dart \in {"waiting", "settled"}, port' = Tail(port), NEW m, NEW f,
         m = Head(port), Sound(m, f), m.of = "item",
         Listening, f.req = CallId, Reads(Get(SinkType, f.payload, 0), m.meant),
         got' = IF f.req \notin streams THEN [of |-> "dropped"]
                ELSE Seen("item", Get(SinkType, f.payload, 0), m.meant),
         UNCHANGED <<call, persistent, registered, sink, pending, streams, fns, dart, cpp, buffer>>
  PROVE  Inv'
<1>1. ~call.damaged /\ dart # "idle" /\ cpp.at # "request"
  BY DEF Sound, Inv, RequestInv
<1>2. FnId' = FnId /\ FnType' = FnType
  BY FnKept
<1>3. PortInv'
  <2>1. \A n, g : Sound(n, g) => Sound(n, g)'
    <3> SUFFICES ASSUME NEW n, NEW g, Sound(n, g) PROVE Sound(n, g)'
      OBVIOUS
    <3>1. n.of = "closure" => cpp'.at = "calling"
      BY DEF Sound
    <3>2. Listening => Listening'
      BY DEF Listening
    <3> QED BY <1>2, <3>1, <3>2, SoundKept
  <2>2. Head(port).of \notin Answers /\ Head(port).of # "closure" /\ PortInv
    BY DEF Answers, Inv
  <2> QED BY <2>1, <2>2, PortShrinks
<1>4. GotInv'
  <2>1. CASE f.req \notin streams
    <3>1. got'.of = "dropped" /\ dart = "settled" /\ call.row.run = "sync" /\ buffer.of = "failure"
      BY <2>1 DEF Listening
    <3> QED BY <1>1, <3>1 DEF GotInv, ArgumentsArrive, AnswersArrive, CallbacksArrive, DamageIsAnswered
  <2>2. CASE f.req \in streams
    <3>1. got'.of = "item" /\ got'.v = got'.meant
      BY <2>2 DEF Seen, Reads
    <3> QED BY <1>1, <3>1 DEF GotInv, ArgumentsArrive, AnswersArrive, CallbacksArrive, DamageIsAnswered
  <2> QED BY <2>1, <2>2
<1>5. PlacesAgree' /\ IdleInv' /\ CallInv'
  BY <1>1, Zenon DEF Inv, PlacesAgree, IdleInv, CallInv
<1>6. WaitsInv' /\ FnsInv' /\ RunInv' /\ ReturnedInv' /\ ReplyInv' /\ SinkInv'
  BY PartsKept, SinkKept DEF Inv
<1>7. RequestInv'
  BY <1>1 DEF RequestInv
<1> QED BY <1>3, <1>4, <1>5, <1>6, <1>7 DEF Inv

\* A closure runs.
LEMMA InvRunClosure ==
  ASSUME Inv, port # <<>>, dart \in {"waiting", "settled"}, port' = Tail(port), NEW m, NEW payload,
         m = Head(port), m.of = "closure", ~call.damaged, cpp.at = "calling",
         GetU64(payload, 0).v = FnId, Reads(GetAll(FnType.args, payload, 8), m.meant),
         HandleDartFnCall(m, payload, GetU64(payload, 0).v),
         UNCHANGED <<call, persistent, registered, sink, pending, streams, fns>>
  PROVE  Inv'
<1>1. InMethod /\ CallInv /\ PlacesAgree /\ RunInv /\ FnsInv /\ WaitsInv /\ PortInv /\ SinkInv
  BY DEF InMethod, Inv
<1>2. FnId # 0
  BY <1>1 DEF RunInv
<1>3. FnId \in fns /\ WrapperType(FnId) = FnType /\ cpp.entry = "async"
  BY <1>1, <1>2, FnKnown
<1>4. dart = "waiting" /\ registered = persistent
  BY <1>1 DEF PlacesAgree, FnsInv
<1>5. PICK args : args = GetAll(FnType.args, payload, 8)
  OBVIOUS
<1>6. Reads(args, m.meant) /\ RunClosure(m, FnId, args)
  BY <1>3, <1>5 DEF HandleDartFnCall
<1>7. /\ got'.of = "closure" /\ got'.v = got'.meant /\ dart' = "closure" /\ buffer' = buffer
      /\ cpp' = MethodAt("called back", cpp.called)
  <2>1. args.ok /\ args.v = m.meant
    BY <1>6 DEF Reads
  <2>2. /\ got' = Seen("closure", args, m.meant) /\ dart' = "closure"
        /\ cpp' = MethodAt("called back", cpp.called) /\ buffer' = buffer
    BY <1>3, <1>6, <2>1, Zenon DEF RunClosure
  <2> QED BY <2>1, <2>2, Zenon DEF Seen
<1>8. /\ cpp'.at = "called back" /\ cpp'.entry = cpp.entry /\ cpp'.id = cpp.id
      /\ cpp'.row = cpp.row /\ cpp'.args = cpp.args
  BY <1>7, Zenon DEF MethodAt
<1>9. Listening => Listening'
  BY <1>4 DEF Listening
<1>10. PortInv'
  <2>1. \A n, g : /\ Sound(n, g)
                  /\ n.of = "closure" => Head(port).of # "closure"
                  /\ n.of \in Answers => Head(port).of \notin Answers
                  => Sound(n, g)'
    <3> SUFFICES ASSUME NEW n, NEW g, Sound(n, g), n.of = "closure" => Head(port).of # "closure"
                 PROVE  Sound(n, g)'
      OBVIOUS
    <3>1. n.of # "closure"
      OBVIOUS
    <3> QED BY <1>9, <3>1, SoundKept
  <2> QED BY <1>1, <2>1, PortShrinks
<1>11. PlacesAgree' /\ IdleInv' /\ CallInv'
  BY <1>1, <1>3, <1>4, <1>7, <1>8, Zenon DEF PlacesAgree, IdleInv, CallInv
<1>12. WaitsInv'
  BY <1>1, <1>4, <1>7, Zenon DEF WaitsInv, Active
<1>13. FnsInv'
  BY <1>1, <1>4, <1>7, Zenon DEF FnsInv, Active
<1>14. RunInv'
  <2>1. FnId' = FnId
    BY <1>8, FnKept, Zenon
  <2> QED BY <1>1, <1>2, <1>8, <2>1, Zenon DEF RunInv, InMethod
<1>15. RequestInv' /\ ReturnedInv' /\ ReplyInv'
  BY <1>8, NotRunning, Zenon DEF ReplyInv
<1>16. SinkInv'
  BY <1>1, <1>9 DEF SinkInv, SinkType
<1>17. GotInv'
  BY <1>7, Zenon DEF GotInv, ArgumentsArrive, AnswersArrive, CallbacksArrive, DamageIsAnswered
<1> QED BY <1>10, <1>11, <1>12, <1>13, <1>14, <1>15, <1>16, <1>17 DEF Inv

\* Dart takes a message from the port.
LEMMA InvOnMessage == Inv /\ OnMessage => Inv'
<1> SUFFICES ASSUME Inv, OnMessage PROVE Inv'
  OBVIOUS
<1>1. PICK m : m = Head(port)
  OBVIOUS
<1>2. PICK f : f = parseFrame(m.bytes)
  OBVIOUS
<1>3. /\ port # <<>> /\ dart \in {"waiting", "settled"} /\ port' = Tail(port) /\ Deliver(m, f)
      /\ UNCHANGED <<call, persistent, registered, sink>>
  BY <1>1, <1>2 DEF OnMessage
<1>4. Sound(m, f)
  BY <1>1, <1>2, <1>3, HeadKnown DEF Inv
<1>5. f.ok
  BY <1>4 DEF Sound
<1>6. CASE /\ f.type = MsgType.responseOk
           /\ Settle(Result(f.payload, m.meant)) /\ UNCHANGED <<cpp, buffer>>
  <2>1. m.of = "result" /\ ResultReads(f.payload, m.meant) /\ ~call.damaged
    BY <1>4, <1>6, TypeTells
  <2>2. PICK fate : fate = Result(f.payload, m.meant)
    OBVIOUS
  <2>3. fate.of = "result" /\ fate.v = fate.meant /\ Settle(fate)
    BY <1>6, <2>1, <2>2, ToldResult
  <2>4. Head(port).of \in Answers
    BY <1>1, <2>1 DEF Answers
  <2> QED BY <1>3, <1>6, <2>1, <2>3, <2>4, InvSettle
<1>7. CASE /\ f.type \in {MsgType.responseErr, MsgType.streamErr}
           /\ Settle(Failure(f.payload, m.meant)) /\ UNCHANGED <<cpp, buffer>>
  <2>1. m.of = "failure" /\ ErrorRead(f.payload, m.meant)
    BY <1>4, <1>7, TypeTells
  <2>2. PICK fate : fate = Failure(f.payload, m.meant)
    OBVIOUS
  <2>3. fate.of = "failure" /\ fate.v = fate.meant /\ Settle(fate)
    BY <1>7, <2>1, <2>2, ToldFailure
  <2>4. Head(port).of \in Answers
    BY <1>1, <2>1 DEF Answers
  <2> QED BY <1>3, <1>7, <2>3, <2>4, InvSettle
<1>8. CASE /\ f.type = MsgType.streamEnd
           /\ Settle([of |-> "end", v |-> <<>>, meant |-> <<>>]) /\ UNCHANGED <<cpp, buffer>>
  <2>1. m.of = "end" /\ ~call.damaged
    BY <1>4, <1>8, TypeTells
  <2>2. PICK fate : fate = [of |-> "end", v |-> <<>>, meant |-> <<>>]
    OBVIOUS
  <2>3. fate.of = "end" /\ Settle(fate)
    BY <1>8, <2>2
  <2>4. Head(port).of \in Answers
    BY <1>1, <2>1 DEF Answers
  <2> QED BY <1>3, <1>8, <2>1, <2>3, <2>4, InvSettle
<1>9. CASE /\ f.type = MsgType.streamData
           /\ got' = IF ~f.ok THEN Lost(m)
                     ELSE IF f.req \notin streams THEN [of |-> "dropped"]
                     ELSE Seen("item", Get(SinkType, f.payload, 0), m.meant)
           /\ UNCHANGED <<pending, streams, fns, dart, cpp, buffer>>
  <2>1. /\ m.of = "item" /\ f.req = CallId /\ Listening
        /\ Reads(Get(SinkType, f.payload, 0), m.meant)
    BY <1>4, <1>9, TypeTells
  <2>2. got' = IF f.req \notin streams THEN [of |-> "dropped"]
               ELSE Seen("item", Get(SinkType, f.payload, 0), m.meant)
    BY <1>5, <1>9
  <2> QED BY <1>1, <1>3, <1>4, <1>9, <2>1, <2>2, InvItem
<1>10. CASE /\ f.type = MsgType.dartFnCall
            /\ HandleDartFnCall(m, f.payload, GetU64(f.payload, 0).v)
            /\ UNCHANGED <<pending, streams, fns>>
  <2>1. /\ m.of = "closure" /\ cpp.at = "calling" /\ GetU64(f.payload, 0).v = FnId
        /\ Reads(GetAll(FnType.args, f.payload, 8), m.meant) /\ ~call.damaged
    BY <1>4, <1>10, TypeTells
  <2>2. PICK payload : payload = f.payload
    OBVIOUS
  <2> QED BY <1>1, <1>3, <1>10, <2>1, <2>2, InvRunClosure
<1> QED BY <1>3, <1>5, <1>6, <1>7, <1>8, <1>9, <1>10 DEF Deliver

-----------------------------------------------------------------------------
\* While a method of the io thread runs, the port only keeps what it holds.
LEMMA PortWaits ==
  ASSUME PortInv, cpp.at \notin {"rest", "calling"}, port' = port, call' = call, Listening => Listening'
  PROVE  PortInv'
<1>1. \A i \in 1 .. Len(port) : port[i].of \notin Answers
  BY NoAnswer
<1>2. \A m, f : Sound(m, f) /\ m.of \notin Answers => Sound(m, f)'
  BY MessagesKept
<1> QED BY <1>1, <1>2, PortStays

\* A closure has come to its end.
LEMMA InvClosureEnds == Inv /\ ClosureEnds => Inv'
<1> SUFFICES ASSUME Inv, ClosureEnds PROVE Inv'
  OBVIOUS
<1>1. /\ dart = "closure" /\ dart' = "waiting" /\ cpp' = MethodAt("reply", cpp.called)
      /\ UNCHANGED <<call, pending, streams, fns, persistent, registered, sink, port, got>>
  BY DEF ClosureEnds
<1>2. CallInv /\ PlacesAgree /\ RunInv /\ FnsInv /\ WaitsInv /\ PortInv /\ SinkInv /\ GotInv
  BY DEF Inv
<1>3. cpp.at = "called back" /\ cpp.entry = "async" /\ InMethod
  BY <1>1, <1>2, Zenon DEF PlacesAgree, InMethod
<1>4. ~call.damaged /\ FnId # 0 /\ registered = persistent
  BY <1>1, <1>2, <1>3, Zenon DEF CallInv, RunInv, FnsInv
<1>5. FnType.ret = Str
  BY <1>2, <1>3, <1>4, FnKnown, FnParts, Zenon
<1>6. /\ cpp'.at = "reply" /\ cpp'.entry = cpp.entry /\ cpp'.id = cpp.id
      /\ cpp'.row = cpp.row /\ cpp'.args = cpp.args
  BY <1>1 DEF MethodAt
<1>7. FnId' = FnId /\ FnType' = FnType
  BY <1>1, <1>6, FnKept
<1>8. Listening => Listening'
  BY <1>1 DEF Listening
<1>9. ReplyInv'
  <2>1. CASE buffer' = Message(<<>>, "failed", <<>>)
    <3>1. buffer'.of = "failed"
      BY <2>1 DEF Message
    <3> QED BY <3>1 DEF ReplyInv
  <2>2. CASE \E c \in Variants : buffer' = Message(Put(FnType.ret, Value(FnType.ret, c)), "ok", Value(FnType.ret, c))
    <3>1. PICK c \in Variants : buffer' = Message(Put(Str, Value(Str, c)), "ok", Value(Str, c))
      BY <1>5, <2>2
    <3>2. PICK v : v = Value(Str, c)
      OBVIOUS
    <3>3. Fine(Str, v)
      BY <3>2, TextsKnown
    <3>4. buffer'.bytes = Put(Str, v) /\ buffer'.meant = v
      BY <3>1, <3>2 DEF Message
    <3>5. /\ Reads(ReadOne(Str, Put(Str, v), 1), v)
          /\ dcb_read_len_bytes(dcb_reader_init(Put(Str, v))).v = v
      BY <3>3, ReplyCrosses
    <3> QED BY <1>5, <1>7, <3>4, <3>5 DEF ReplyInv
  <2> QED BY <2>1, <2>2 DEF ClosureEnds
<1>10. PlacesAgree' /\ IdleInv' /\ CallInv'
  BY <1>1, <1>2, <1>3, <1>4, <1>6, Zenon DEF PlacesAgree, IdleInv, CallInv
<1>11. WaitsInv'
  BY <1>1, <1>2 DEF WaitsInv, Active
<1>12. FnsInv'
  BY <1>1, <1>2, <1>4 DEF FnsInv, Active
<1>13. RunInv'
  BY <1>1, <1>2, <1>3, <1>4, <1>6, <1>7, Zenon DEF RunInv, InMethod
<1>14. RequestInv' /\ ReturnedInv'
  BY <1>6, NotRunning
<1>15. SinkInv'
  BY <1>1, <1>2, <1>8 DEF SinkInv, SinkType
<1>16. GotInv'
  BY <1>1, <1>2, <1>4 DEF GotInv, ArgumentsArrive, AnswersArrive, CallbacksArrive, DamageIsAnswered
<1>17. PortInv'
  BY <1>1, <1>2, <1>3, <1>8, PortWaits, Zenon
<1> QED BY <1>9, <1>10, <1>11, <1>12, <1>13, <1>14, <1>15, <1>16, <1>17 DEF Inv

\* The reply of a closure arrives.
LEMMA InvReplyArrives == Inv /\ ReplyArrives => Inv'
<1> SUFFICES ASSUME Inv, ReplyArrives PROVE Inv'
  OBVIOUS
<1>1. /\ cpp.at = "reply" /\ cpp' = MethodAt("running", cpp.called)
      /\ UNCHANGED <<call, pending, streams, fns, persistent, registered, dart, sink, buffer, port>>
  BY DEF ReplyArrives
<1>2. CallInv /\ PlacesAgree /\ RunInv /\ FnsInv /\ WaitsInv /\ PortInv /\ SinkInv /\ ReplyInv
  BY DEF Inv
<1>3. dart = "waiting" /\ cpp.entry = "async" /\ InMethod
  BY <1>1, <1>2 DEF PlacesAgree, InMethod
<1>4. ~call.damaged /\ registered = persistent
  BY <1>1, <1>2, <1>3 DEF CallInv, FnsInv
<1>5. /\ cpp'.at = "running" /\ cpp'.entry = cpp.entry /\ cpp'.id = cpp.id
      /\ cpp'.row = cpp.row /\ cpp'.args = cpp.args
  BY <1>1 DEF MethodAt
<1>6. got'.of = "nothing" \/ (got'.of = "reply" /\ got'.v = got'.meant)
  <2>1. CASE buffer.of = "failed"
    BY <2>1 DEF ReplyArrives, Nothing
  <2>2. CASE buffer.of # "failed"
    <3>1. /\ Reads(ReadOne(FnType.ret, buffer.bytes, 1), buffer.meant)
          /\ dcb_read_len_bytes(dcb_reader_init(buffer.bytes)).v = buffer.meant
      BY <1>1, <1>2, <2>2 DEF ReplyInv
    <3>2. CASE ReadsInC
      BY <2>2, <3>1, <3>2 DEF ReplyArrives
    <3>3. CASE ~ReadsInC
      <4>1. got' = Seen("reply", ReadOne(FnType.ret, buffer.bytes, 1), buffer.meant)
        BY <2>2, <3>3 DEF ReplyArrives
      <4> QED BY <3>1, <4>1 DEF Seen, Reads
    <3> QED BY <3>2, <3>3
  <2> QED BY <2>1, <2>2
<1>7. PlacesAgree' /\ IdleInv' /\ CallInv'
  BY <1>1, <1>2, <1>3, <1>4, <1>5 DEF PlacesAgree, IdleInv, CallInv
<1>8. WaitsInv' /\ SinkInv'
  BY <1>1, <1>2, PartsKept, SinkKept
<1>9. FnsInv'
  BY <1>1, <1>2, <1>4 DEF FnsInv, Active
<1>10. RunInv'
  BY <1>1, <1>2, <1>3, <1>5, Zenon DEF RunInv, InMethod
<1>11. RequestInv' /\ ReturnedInv' /\ ReplyInv'
  BY <1>5, NotRunning DEF ReplyInv
<1>12. GotInv'
  BY <1>3, <1>1, <1>4, <1>6 DEF GotInv, ArgumentsArrive, AnswersArrive, CallbacksArrive, DamageIsAnswered
<1>13. PortInv'
  <2>1. Listening => Listening'
    BY <1>1 DEF Listening
  <2> QED BY <1>1, <1>2, <2>1, PortWaits
<1> QED BY <1>7, <1>8, <1>9, <1>10, <1>11, <1>12, <1>13 DEF Inv

-----------------------------------------------------------------------------
\* A synchronous call gets its answer.
LEMMA InvSyncReturns == Inv /\ SyncReturns => Inv'
<1> SUFFICES ASSUME Inv, SyncReturns PROVE Inv'
  OBVIOUS
<1>1. PICK f : f = parseFrame(buffer.bytes)
  OBVIOUS
<1>2. PICK ok \in BOOLEAN : ok <=> f.ok /\ f.type = MsgType.responseOk
  OBVIOUS
<1>3. PICK fate : fate = IF ok THEN Result(f.payload, buffer.meant)
                         ELSE IF f.ok /\ f.type = MsgType.responseErr THEN Failure(f.payload, buffer.meant)
                         ELSE [of |-> buffer.of, v |-> Bad, meant |-> buffer.meant]
  OBVIOUS
<1>4. /\ cpp.at = "returned" /\ cpp' = [at |-> "rest"] /\ Settle(fate)
      /\ streams' = IF ok THEN streams ELSE streams \ {CallId}
      /\ UNCHANGED <<call, pending, persistent, registered, sink, buffer, port>>
  BY <1>1, <1>2, <1>3 DEF SyncReturns
<1>5. CallInv /\ PlacesAgree /\ FnsInv /\ WaitsInv /\ PortInv /\ SinkInv /\ ReturnedInv
  BY DEF Inv
<1>6. dart = "blocked" /\ Active /\ dart # "idle" /\ registered = persistent
  BY <1>4, <1>5 DEF PlacesAgree, Active, FnsInv
<1>7. /\ dart' = "settled" /\ fns' = fns \cap {persistent} /\ got' = fate /\ cpp'.at = "rest"
  BY <1>4 DEF Settle
<1>8. /\ f.ok
      /\ \/ buffer.of = "result" /\ f.type = MsgType.responseOk /\ ResultReads(f.payload, buffer.meant)
            /\ ~call.damaged
         \/ buffer.of = "failure" /\ f.type = MsgType.responseErr /\ ErrorRead(f.payload, buffer.meant)
  BY <1>1, <1>4, <1>5 DEF ReturnedInv
<1>9. /\ fate.of \in {"result", "failure"} /\ fate.v = fate.meant
      /\ call.damaged => fate.of = "failure"
      /\ ~ok => buffer.of = "failure"
  <2>1. CASE buffer.of = "result" /\ f.type = MsgType.responseOk /\ ResultReads(f.payload, buffer.meant)
             /\ ~call.damaged
    <3>1. ok /\ fate = Result(f.payload, buffer.meant)
      BY <1>2, <1>3, <1>8, <2>1
    <3> QED BY <2>1, <3>1, ToldResult
  <2>2. CASE buffer.of = "failure" /\ f.type = MsgType.responseErr /\ ErrorRead(f.payload, buffer.meant)
    <3>1. ~ok /\ fate = Failure(f.payload, buffer.meant)
      BY <1>2, <1>3, <1>8, <2>2, TypeNumbers
    <3> QED BY <2>2, <3>1, ToldFailure
  <2> QED BY <1>8, <2>1, <2>2
<1>10. ~call.damaged /\ Listening => Listening'
  <2>1. ~call.damaged => call.row.run = "sync"
    BY <1>5, <1>6 DEF WaitsInv
  <2> QED BY <1>4, <1>6, <1>7, <1>9, <2>1 DEF Listening
<1>11. PortInv'
  <2>1. \A i \in 1 .. Len(port) : port[i].of \notin Answers
    BY <1>4, <1>5, NoAnswer
  <2>2. \A m, g : Sound(m, g) /\ m.of \notin Answers => Sound(m, g)'
    <3> SUFFICES ASSUME NEW m, NEW g, Sound(m, g), m.of \notin Answers PROVE Sound(m, g)'
      OBVIOUS
    <3>1. ~call.damaged
      BY DEF Sound, Answers
    <3>2. m.of # "closure"
      BY <1>4, NoClosure
    <3> QED BY <1>4, <1>10, <3>1, <3>2, SoundKept
  <2> QED BY <1>4, <1>5, <2>1, <2>2, PortStays
<1>12. SinkInv'
  <2>1. sink.id # 0 => ~call.damaged
    BY <1>5, <1>6 DEF CallInv
  <2> QED BY <1>4, <1>5, <1>10, <2>1 DEF SinkInv, SinkType
<1>13. GotInv' /\ WaitsInv' /\ PlacesAgree' /\ IdleInv'
  BY <1>4, <1>7, <1>9, GotSettles
<1>14. FnsInv'
  BY <1>4, <1>5, <1>6, <1>7, FnsSettle
<1>15. RunInv' /\ ReplyInv' /\ RequestInv' /\ ReturnedInv'
  BY <1>7, NotRunning
<1>16. CallInv'
  BY <1>4, <1>5, <1>6, <1>7 DEF CallInv
<1> QED BY <1>11, <1>12, <1>13, <1>14, <1>15, <1>16 DEF Inv

\* The next call may come.
LEMMA InvNextCall == Inv /\ NextCall => Inv'
<1> SUFFICES ASSUME Inv, NextCall PROVE Inv'
  OBVIOUS
<1>1. /\ dart = "settled" /\ dart' = "idle" /\ cpp.at = "rest" /\ cpp' = cpp /\ port = <<>> /\ port' = port
      /\ sink'.id = 0 /\ got'.of = "nothing"
      /\ UNCHANGED <<pending, fns, persistent, registered>>
  BY DEF NextCall, NoSink, Nothing
<1>2. FnsInv
  BY DEF Inv
<1>3. ~Active /\ ~Active' /\ registered = persistent
  BY <1>1, <1>2 DEF Active, FnsInv
<1>4. FnsInv'
  BY <1>1, <1>2, <1>3 DEF FnsInv
<1>5. PlacesAgree' /\ IdleInv' /\ CallInv' /\ WaitsInv'
  BY <1>1, <1>3 DEF PlacesAgree, IdleInv, CallInv, WaitsInv
<1>6. RunInv' /\ ReplyInv' /\ RequestInv' /\ ReturnedInv' /\ SinkInv'
  BY <1>1, NotRunning, Zenon
<1>7. PortInv'
  BY <1>1, ListEmpty DEF PortInv
<1>8. GotInv'
  <2>1. registered # 0 => registered \in fns
    BY <1>2, <1>3 DEF FnsInv
  <2> QED BY <1>1, <2>1 DEF GotInv, ArgumentsArrive, AnswersArrive, CallbacksArrive, DamageIsAnswered
<1> QED BY <1>4, <1>5, <1>6, <1>7, <1>8 DEF Inv

\* Nothing happens.
LEMMA InvStutters == Inv /\ UNCHANGED vars => Inv'
<1> SUFFICES ASSUME Inv, UNCHANGED vars PROVE Inv'
  OBVIOUS
<1>1. UNCHANGED <<call, pending, streams, fns, persistent, registered, dart, cpp, sink, buffer, port, got>>
  BY DEF vars
<1>2. FnId' = FnId /\ FnType' = FnType
  BY <1>1, FnKept
<1>3. \A m, f : Sound(m, f) => Sound(m, f)'
  <2> SUFFICES ASSUME NEW m, NEW f, Sound(m, f) PROVE Sound(m, f)'
    OBVIOUS
  <2>1. m.of = "closure" => cpp'.at = "calling"
    BY <1>1 DEF Sound
  <2>2. Listening => Listening'
    BY <1>1 DEF Listening
  <2> QED BY <1>1, <1>2, <2>1, <2>2, SoundKept
<1>4. PortInv'
  BY <1>1, <1>3 DEF Inv, PortInv
<1>5. WaitsInv' /\ FnsInv' /\ RunInv' /\ ReturnedInv' /\ ReplyInv' /\ GotInv' /\ SinkInv'
  BY <1>1, PartsKept, SinkKept DEF Inv
<1>6. PlacesAgree' /\ IdleInv' /\ CallInv' /\ RequestInv'
  BY <1>1, Zenon DEF Inv, PlacesAgree, IdleInv, CallInv, RequestInv, Welcome
<1> QED BY <1>4, <1>5, <1>6 DEF Inv

\* Every step keeps the invariant.
LEMMA InvNext == Inv /\ [Next]_vars => Inv'
<1> SUFFICES ASSUME Inv, [Next]_vars PROVE Inv'
  OBVIOUS
<1>1. CASE Ask
  BY <1>1, InvAsk
<1>2. CASE DispatchRequest \/ DispatchSync
  BY <1>2, InvDispatchRequest, InvDispatchSync
<1>3. CASE Emit \/ CallBack
  BY <1>3, InvEmit, InvCallBack
<1>4. CASE Return \/ Throw
  BY <1>4, InvReturn, InvThrow
<1>5. CASE OnMessage \/ ClosureEnds
  BY <1>5, InvOnMessage, InvClosureEnds
<1>6. CASE ReplyArrives \/ SyncReturns
  BY <1>6, InvReplyArrives, InvSyncReturns
<1>7. CASE NextCall
  BY <1>7, InvNextCall
<1>8. CASE UNCHANGED vars
  BY <1>8, InvStutters
<1> QED BY <1>1, <1>2, <1>3, <1>4, <1>5, <1>6, <1>7, <1>8 DEF Next

\* The invariant holds in every state, whatever the libraries called, the values
\* passed and the bytes cut off.
THEOREM CallsSound == Spec => []Inv
<1>1. Init => Inv
  BY InvInit
<1>2. Inv /\ [Next]_vars => Inv'
  BY InvNext
<1> QED BY <1>1, <1>2, PTL DEF Spec

\* Every argument of every method of the four libraries arrives as it was passed,
\* and the payload holds nothing else (dcb_generated.dart and wire_dispatch.cpp,
\* demo_bridge.dart and demo_api.cpp).
THEOREM ArgumentsArriveAlways == Spec => []ArgumentsArrive
<1>1. Inv => ArgumentsArrive
  BY DEF Inv, GotInv
<1> QED BY <1>1, CallsSound, PTL

\* Every result, error text and item is read by Dart as the native side wrote it,
\* and an item comes for nobody only after a synchronous call that has failed
\* (_onMessage, post_ok, post_err, StreamSink, invokeSyncMethodWithStream).
THEOREM AnswersArriveAlways == Spec => []AnswersArrive
<1>1. Inv => AnswersArrive
  BY DEF Inv, GotInv
<1> QED BY <1>1, CallsSound, PTL

\* Every argument and reply of a callback arrives, the wrapper found by its id is the
\* one of its type, and the closure held by register_dart_fn is never one that Dart has
\* forgotten (DartFn, dcb_invoke_dart_fn, _handleDartFnCall, registerPersistentDartFn).
THEOREM CallbacksArriveAlways == Spec => []CallbacksArrive
<1>1. Inv => CallbacksArrive
  BY DEF Inv, GotInv
<1> QED BY <1>1, CallsSound, PTL

\* A request cut short anywhere, of an unknown method or through the wrong entry never
\* reaches a method, and its caller is told so (parse_frame, need, the default case
\* and the catch clauses of the dispatchers, post_err with id 0).
THEOREM DamageAlwaysAnswered == Spec => []DamageIsAnswered
<1>1. Inv => DamageIsAnswered
  BY DEF Inv, GotInv
<1> QED BY <1>1, CallsSound, PTL

=============================================================================
