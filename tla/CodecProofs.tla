----------------------------- MODULE CodecProofs -----------------------------
(***************************************************************************)
(* Proofs about Codec, for every number of values of a byte, every set of  *)
(* arguments and every way of misreading: what PacketReader reads has the  *)
(* type asked for and lies within the packet; packets are delimited; and   *)
(* reading undoes writing, argument by argument.                           *)
(*                                                                         *)
(* The argument: numbers come back from their bytes; so does each kind of  *)
(* argument from where it was written (ReadBack); pushing lays the         *)
(* arguments of a packet one after the other (LaidMore); and the reader is *)
(* always at the end of the last that it has read (PlaceInv).  That the    *)
(* lists which encode and decode an interface agree is BindingsAssumption, *)
(* which holds of the bindings as they are written out.                    *)
(***************************************************************************)
EXTENDS Codec, Elementary

-----------------------------------------------------------------------------
(* The bytes of numbers.                                                   *)

Bytes == 0 .. Byte - 1
Cells == Byte * Byte * Byte * Byte

(* The sizes of the numbers.                                               *)
LEMMA Sizes ==
    /\ Byte \in Nat /\ Byte >= 16 /\ Byte \in Nat \ {0}
    /\ Byte * Byte \in Nat \ {0} /\ Byte * Byte >= 16 * Byte
    /\ Cells \in Nat \ {0} /\ U32Max = Cells - 1 /\ U32Max \in Nat
    /\ U16Max = Byte * Byte - 1 /\ U16Max \in Nat
    /\ Cells = (Byte * Byte) * (Byte * Byte)
    /\ 2 * (U32Max \div 2) = Cells - 2
<1>1. Byte \in Nat /\ Byte >= 16 /\ Byte % 2 = 0
    BY ByteAssumption
<1>2. Byte * Byte \in Nat /\ Byte * Byte >= 16 * Byte
    BY <1>1
<1>3. Byte * Byte * Byte = Byte * (Byte * Byte)
      /\ Byte * Byte * Byte \in Nat /\ Byte * Byte * Byte >= Byte
    BY <1>1, <1>2
<1>4. /\ Cells = (Byte * Byte) * (Byte * Byte) /\ Cells \in Nat
      /\ Cells >= Byte
    BY <1>1, <1>2, <1>3 DEF Cells
<1>5. U32Max = Cells - 1 /\ U16Max = Byte * Byte - 1
    BY DEF U32Max, U16Max, Cells
<1>6. 2 * ((Cells - 1) \div 2) = Cells - 2
  <2>1. PICK h \in Nat : Byte = 2 * h
    BY <1>1
  <2> DEFINE k == h * (Byte * (Byte * Byte))
  <2>2. k \in Nat /\ Cells = 2 * k
    <3>1. k \in Nat
      BY <1>1, <1>2, <1>3, <2>1
    <3>2. Byte * (Byte * (Byte * Byte)) = 2 * k
      BY <1>1, <1>2, <1>3, <2>1
    <3>3. Cells = Byte * (Byte * (Byte * Byte))
      BY <1>1, <1>2 DEF Cells
    <3> QED
      BY <3>1, <3>2, <3>3
  <2> HIDE DEF k
  <2>3. Cells - 1 = 2 * (k - 1) + 1
    BY <2>2
  <2> QED
    BY <2>2, <2>3
<1> QED
    BY <1>1, <1>2, <1>3, <1>4, <1>5, <1>6

(* A sequence of four.                                                     *)
LEMMA Four ==
    ASSUME NEW S, NEW a \in S, NEW b \in S, NEW c \in S, NEW d \in S
    PROVE  << a, b, c, d >> \in Seq(S) /\ Len(<< a, b, c, d >>) = 4
    OBVIOUS

(* An element of a sequence.                                               *)
LEMMA ElementOf ==
    ASSUME NEW S, NEW s \in Seq(S), NEW i \in 1 .. Len(s)
    PROVE  s[i] \in S
    OBVIOUS

(* The elements of four.                                                   *)
LEMMA OfFour ==
    ASSUME NEW S, NEW s \in Seq(S), Len(s) = 4
    PROVE  s[1] \in S /\ s[2] \in S /\ s[3] \in S /\ s[4] \in S
<1>1. 1 \in 1 .. Len(s) /\ 2 \in 1 .. Len(s) /\ 3 \in 1 .. Len(s)
      /\ 4 \in 1 .. Len(s)
    OBVIOUS
<1> QED
    BY <1>1, ElementOf

(* One more digit.                                                         *)
LEMMA OneMoreDigit ==
    ASSUME NEW d \in Nat \ {0}, NEW m \in Nat, NEW r \in 0 .. d - 1,
           NEW u \in 0 .. m - 1
    PROVE  r + d * u \in 0 .. d * m - 1
<1>1. d * u <= d * (m - 1) /\ d * u >= 0 /\ d * u \in Int
    OBVIOUS
<1>2. d * (m - 1) = d * m - d /\ d * m \in Int
    OBVIOUS
<1> QED
    BY <1>1, <1>2

(* A number of four bytes.                                                 *)
LEMMA ToBytesFacts ==
    ASSUME NEW n \in Int
    PROVE  /\ ToBytes(n) \in Seq(Bytes) /\ Len(ToBytes(n)) = 4
           /\ \E k \in Int : n = Cells * k + Unsigned(ToBytes(n))
<1> DEFINE B == Byte
           q1 == n \div B
           q2 == q1 \div B
           q3 == q2 \div B
           q4 == q3 \div B
           d0 == n % B
           d1 == q1 % B
           d2 == q2 % B
           d3 == q3 % B
<1>0. B \in Nat \ {0} /\ B * B \in Nat \ {0}
    BY Sizes
<1>1. q1 \in Int /\ d0 \in Bytes /\ n = B * q1 + d0
    BY <1>0, DivMod DEF Bytes
<1>2. q2 \in Int /\ d1 \in Bytes /\ q1 = B * q2 + d1
    BY <1>0, <1>1, DivMod DEF Bytes
<1>3. q3 \in Int /\ d2 \in Bytes /\ q2 = B * q3 + d2
    BY <1>0, <1>2, DivMod DEF Bytes
<1>4. q4 \in Int /\ d3 \in Bytes /\ q3 = B * q4 + d3
    BY <1>0, <1>3, DivMod DEF Bytes
<1>5. n \div (B * B) = q2
    BY <1>0, DivDiv
<1>6. n \div (B * B * B) = q3
  <2>1. n \div ((B * B) * B) = (n \div (B * B)) \div B
    BY <1>0, DivDiv
  <2> QED
    BY <1>5, <2>1
<1>7. ToBytes(n) = << d0, d1, d2, d3 >>
    BY <1>5, <1>6 DEF ToBytes
<1> HIDE DEF q1, q2, q3, q4, d0, d1, d2, d3
<1>8. Unsigned(<< d0, d1, d2, d3 >>) = d0 + B * (d1 + B * (d2 + B * d3))
    BY DEF Unsigned
<1>9. n = Cells * q4 + (d0 + B * (d1 + B * (d2 + B * d3)))
  <2>1. B \in Int /\ d0 \in Int /\ d1 \in Int /\ d2 \in Int /\ d3 \in Int
    BY <1>0, <1>1, <1>2, <1>3, <1>4 DEF Bytes
  <2>2. n = B * (B * (B * (B * q4 + d3) + d2) + d1) + d0
    BY <1>1, <1>2, <1>3, <1>4
  <2>3. Cells * q4 = B * (B * (B * (B * q4)))
    BY <1>4, <2>1 DEF Cells
  <2> HIDE DEF B
  <2>4. B * (B * (B * (B * q4 + d3) + d2) + d1) + d0
            = B * (B * (B * (B * q4))) + (d0 + B * (d1 + B * (d2 + B * d3)))
    BY <1>4, <2>1
  <2> QED
    BY <2>2, <2>3, <2>4
<1>10. << d0, d1, d2, d3 >> \in Seq(Bytes) /\ Len(<< d0, d1, d2, d3 >>) = 4
    BY <1>1, <1>2, <1>3, <1>4, Four
<1> QED
    BY <1>4, <1>7, <1>8, <1>9, <1>10

(* What four bytes are the number of.                                      *)
LEMMA UnsignedRange ==
    ASSUME NEW b \in Seq(Bytes), Len(b) = 4
    PROVE  Unsigned(b) \in 0 .. U32Max
<1> DEFINE B == Byte
<1>1. /\ b[1] \in 0 .. B - 1 /\ b[2] \in 0 .. B - 1
      /\ b[3] \in 0 .. B - 1 /\ b[4] \in 0 .. B - 1
    BY OfFour DEF Bytes
<1>2. B \in Nat \ {0} /\ U32Max = Cells - 1
    BY Sizes
<1> DEFINE u1 == b[3] + B * b[4]
           u2 == b[2] + B * u1
<1> HIDE DEF B
<1>3. ASSUME NEW m \in Nat, NEW r \in 0 .. B - 1, NEW u \in 0 .. m - 1
      PROVE  r + B * u \in 0 .. B * m - 1 /\ B * m \in Nat
    BY <1>2, OneMoreDigit
<1>4. u1 \in 0 .. B * B - 1 /\ B * B \in Nat
    BY <1>1, <1>2, <1>3
<1> HIDE DEF u1
<1>5. u2 \in 0 .. B * (B * B) - 1 /\ B * (B * B) \in Nat
    BY <1>1, <1>3, <1>4
<1> HIDE DEF u2
<1>6. b[1] + B * u2 \in 0 .. B * (B * (B * B)) - 1
    BY <1>1, <1>3, <1>5
<1>7. B * (B * (B * B)) = Cells
    BY <1>2 DEF Cells, B
<1>8. Unsigned(b) = b[1] + B * u2
    BY DEF Unsigned, u1, u2, B
<1> QED
    BY <1>2, <1>6, <1>7, <1>8

(* Reading an unsigned number undoes writing it.                           *)
LEMMA UnsignedRecovered ==
    ASSUME NEW n \in 0 .. U32Max
    PROVE  Unsigned(ToBytes(n)) = n
<1> DEFINE u == Unsigned(ToBytes(n))
<1>1. n \in Int
    BY Sizes
<1>2. PICK k \in Int : n = Cells * k + u
    BY <1>1, ToBytesFacts
<1>3. u \in 0 .. Cells - 1 /\ Cells \in Nat \ {0} /\ n \in 0 .. Cells - 1
    BY <1>1, ToBytesFacts, UnsignedRange, Sizes
<1> HIDE DEF u
<1>4. (Cells * k + u) % Cells = u
    BY <1>3, DivModUnique
<1>5. (Cells * 0 + n) % Cells = n
    BY <1>3, DivModUnique
<1>6. Cells * 0 + n = n
    BY <1>3
<1> QED
    BY <1>2, <1>4, <1>5, <1>6 DEF u

(* What a signed number can be.                                            *)
Signeds == (-(U32Max \div 2) - 1) .. U32Max \div 2

(* What four bytes are the signed number of.                               *)
LEMMA SignedRange ==
    ASSUME NEW b \in Seq(Bytes), Len(b) = 4
    PROVE  Signed(b) \in Signeds
<1> DEFINE u == Unsigned(b)
           h == U32Max \div 2
<1>1. u \in 0 .. U32Max /\ U32Max \in Nat /\ U32Max = Cells - 1
      /\ 2 * h = Cells - 2 /\ h \in Int /\ Cells \in Int
    BY UnsignedRange, Sizes
<1>2. /\ Signed(b) = IF 2 * u > U32Max THEN u - U32Max - 1 ELSE u
      /\ Signeds = (-h - 1) .. h
    BY DEF Signed, Signeds
<1> HIDE DEF u, h
<1>3. CASE 2 * u > U32Max
    BY <1>1, <1>2, <1>3
<1>4. CASE ~ (2 * u > U32Max)
    BY <1>1, <1>2, <1>4
<1> QED
    BY <1>3, <1>4

(* Reading a signed number undoes writing it.                              *)
LEMMA SignedRecovered ==
    ASSUME NEW n \in Signeds
    PROVE  Signed(ToBytes(n)) = n
<1> DEFINE u == Unsigned(ToBytes(n))
           h == U32Max \div 2
<1>1. U32Max \in Nat /\ U32Max = Cells - 1 /\ 2 * h = Cells - 2 /\ h \in Int
      /\ Cells \in Nat \ {0}
    BY Sizes
<1>2. n \in (-h - 1) .. h /\ n \in Int
    BY <1>1 DEF Signeds
<1>3. PICK k \in Int : n = Cells * k + u
    BY <1>2, ToBytesFacts
<1>4. u \in 0 .. Cells - 1
    BY <1>1, <1>2, ToBytesFacts, UnsignedRange
<1>5. Signed(ToBytes(n)) = IF 2 * u > U32Max THEN u - U32Max - 1 ELSE u
    BY DEF Signed
<1> HIDE DEF u, h
<1>6. (Cells * k + u) % Cells = u
    BY <1>1, <1>4, DivModUnique
<1>7. CASE n >= 0
  <2>1. (Cells * 0 + n) % Cells = n
    BY <1>1, <1>2, <1>7, DivModUnique
  <2>2. u = n
    BY <1>1, <1>2, <1>3, <1>6, <2>1
  <2> QED
    BY <1>1, <1>2, <1>5, <2>2
<1>8. CASE n < 0
  <2> DEFINE v == n + Cells
  <2>1. v \in 0 .. Cells - 1
    BY <1>1, <1>2, <1>8
  <2>2. Cells * (-1) + v = n
    BY <1>1, <1>2
  <2> HIDE DEF v
  <2>3. (Cells * (-1) + v) % Cells = v
    BY <1>1, <2>1, DivModUnique
  <2>4. u = n + Cells
    BY <1>3, <1>6, <2>2, <2>3 DEF v
  <2> QED
    BY <1>1, <1>2, <1>5, <1>8, <2>4
<1> QED
    BY <1>2, <1>7, <1>8

-----------------------------------------------------------------------------
(* Reading, in place or not.                                               *)

Errors == {"none", "FieldOutOfBounds", "underflow", "ZeroObjectId",
           "StringMisplacedNul", "StringInvalidUtf8", "FdOutOfBounds"}

IsReader(r) ==
    r = [payload_pos |-> r.payload_pos, fd_pos |-> r.fd_pos,
         value |-> r.value, error |-> r.error]

(* A reader within a packet.                                               *)
Within(p, r) ==
    /\ p.payload \in Seq(Bytes) /\ p.fds \in Seq(0 .. U32Max)
    /\ IsReader(r)
    /\ r.payload_pos \in 0 .. Len(p.payload) /\ r.fd_pos \in 0 .. Len(p.fds)

(* What a reader that read something of type T is like.                    *)
Reads(p, r, T) ==
    /\ Within(p, r) /\ r.error \in Errors
    /\ r.error = "none" => r.value \in T
    /\ r.error = "underflow" => NextLen(p, r) = 0

(* What a step leaves of a reader.                                         *)
LEMMA FailFields ==
    ASSUME NEW r, IsReader(r), NEW e
    PROVE  /\ IsReader(Fail(r, e)) /\ Fail(r, e).error = e
           /\ Fail(r, e).payload_pos = r.payload_pos
           /\ Fail(r, e).fd_pos = r.fd_pos
<1>1. PICK a, b, c, d : r = [payload_pos |-> a, fd_pos |-> b, value |-> c,
                             error |-> d]
    BY DEF IsReader
<1>2. Fail(r, e) = [payload_pos |-> a, fd_pos |-> b, value |-> c, error |-> e]
    BY <1>1 DEF Fail
<1> QED
    BY <1>1, <1>2 DEF IsReader

(* ... to yield something else: its value.                                 *)
LEMMA YieldFields ==
    ASSUME NEW r, IsReader(r), NEW v
    PROVE  /\ IsReader(Yield(r, v)) /\ Yield(r, v).value = v
           /\ Yield(r, v).payload_pos = r.payload_pos
           /\ Yield(r, v).fd_pos = r.fd_pos /\ Yield(r, v).error = r.error
<1>1. PICK a, b, c, d : r = [payload_pos |-> a, fd_pos |-> b, value |-> c,
                             error |-> d]
    BY DEF IsReader
<1>2. Yield(r, v) = [payload_pos |-> a, fd_pos |-> b, value |-> v, error |-> d]
    BY <1>1 DEF Yield
<1> QED
    BY <1>1, <1>2 DEF IsReader

(* ... and to move on: its position, too.                                  *)
LEMMA GotFields ==
    ASSUME NEW r, IsReader(r), NEW n, NEW v
    PROVE  /\ IsReader(Got(r, n, v)) /\ Got(r, n, v).value = v
           /\ Got(r, n, v).payload_pos = r.payload_pos + n
           /\ Got(r, n, v).fd_pos = r.fd_pos /\ Got(r, n, v).error = r.error
<1>1. PICK a, b, c, d : r = [payload_pos |-> a, fd_pos |-> b, value |-> c,
                             error |-> d]
    BY DEF IsReader
<1> DEFINE m == r.payload_pos + n
           x == [r EXCEPT !.payload_pos = m]
<1>2. Got(r, n, v) = Yield(x, v)
    BY DEF Got
<1> HIDE DEF m
<1>3. x = [payload_pos |-> m, fd_pos |-> b, value |-> c, error |-> d]
    BY <1>1
<1> HIDE DEF x
<1>4. /\ IsReader(x) /\ x.payload_pos = m /\ x.fd_pos = r.fd_pos
      /\ x.error = r.error
    BY <1>1, <1>3 DEF IsReader
<1> QED
    BY <1>2, <1>4, YieldFields DEF m

(* A part of the payload that is in bounds.                                *)
LEMMA SliceFacts ==
    ASSUME NEW p, NEW r, Within(p, r), NEW from \in Nat, NEW n \in Nat,
           InBounds(p, r, from + n)
    PROVE  /\ Slice(p, r, from, n) \in Seq(Bytes)
           /\ Len(Slice(p, r, from, n)) = n
           /\ \A i \in 1 .. n :
                  Slice(p, r, from, n)[i] = p.payload[r.payload_pos + from + i]
<1> DEFINE m == r.payload_pos + from
<1>1. /\ p.payload \in Seq(Bytes) /\ m \in Nat /\ m + n <= Len(p.payload)
    BY DEF Within, InBounds
<1>2. Slice(p, r, from, n) = SubSeq(p.payload, m + 1, m + n)
    BY DEF Slice
<1> HIDE DEF m
<1>3. /\ SubSeq(p.payload, m + 1, m + n) \in Seq(Bytes)
      /\ Len(SubSeq(p.payload, m + 1, m + n)) = n
      /\ \A i \in 1 .. n : SubSeq(p.payload, m + 1, m + n)[i] = p.payload[m + i]
    BY <1>1, Part
<1> QED
    BY <1>2, <1>3 DEF m

(* The next word of the payload.                                           *)
LEMMA WordFacts ==
    ASSUME NEW p, NEW r, Within(p, r), InBounds(p, r, 4)
    PROVE  /\ Slice(p, r, 0, 4) \in Seq(Bytes) /\ Len(Slice(p, r, 0, 4)) = 4
           /\ \A i \in 1 .. 4 :
                  Slice(p, r, 0, 4)[i] = p.payload[r.payload_pos + i]
<1> DEFINE s == Slice(p, r, 0, 4)
           x == r.payload_pos
           c == p.payload
<1>1. InBounds(p, r, 0 + 4) /\ 0 \in Nat /\ 4 \in Nat
    OBVIOUS
<1>2. /\ s \in Seq(Bytes) /\ Len(s) = 4
      /\ \A i \in 1 .. 4 : s[i] = c[x + 0 + i]
  <2>1. \A from \in Nat, n \in Nat : InBounds(p, r, from + n) =>
            /\ Slice(p, r, from, n) \in Seq(Bytes)
            /\ Len(Slice(p, r, from, n)) = n
            /\ \A i \in 1 .. n : Slice(p, r, from, n)[i] = c[x + from + i]
    BY SliceFacts
  <2> QED
    BY <1>1, <2>1
<1>3. x + 0 = x
    BY DEF Within
<1> HIDE DEF s, x, c
<1>4. \A i \in 1 .. 4 : s[i] = c[x + i]
    BY <1>2, <1>3
<1> QED
    BY <1>2, <1>4 DEF s, x, c

(* The padding is less than a word, and fills one up.                      *)
LEMMA RealignFacts ==
    ASSUME NEW n \in Nat
    PROVE  /\ Realign(n) \in 0 .. 3 /\ (n + Realign(n)) % 4 = 0
           /\ n + Realign(n) \in Nat
<1>1. PICK q \in Nat, m \in 0 .. 3 : n = 4 * q + m /\ n % 4 = m
  <2>1. n \div 4 \in Nat /\ n % 4 \in 0 .. 3 /\ n = 4 * (n \div 4) + (n % 4)
    OBVIOUS
  <2> QED
    BY <2>1
<1>2. Realign(n) = IF m = 0 THEN 0 ELSE 4 - m
    BY <1>1 DEF Realign
<1>3. n + Realign(n) = IF m = 0 THEN 4 * q ELSE 4 * (q + 1)
    BY <1>1, <1>2
<1> QED
    BY <1>1, <1>2, <1>3

(* A word is read within the payload or not at all.                        *)
LEMMA ReadWordFacts ==
    ASSUME NEW p, NEW r, Within(p, r), r.error = "none", NEW v, NEW T,
           InBounds(p, r, 4) => v \in T
    PROVE  /\ Reads(p, ReadWord(p, r, v), T)
           /\ ReadWord(p, r, v).error \in {"none", "FieldOutOfBounds"}
<1>1. CASE InBounds(p, r, 4)
  <2>1. ReadWord(p, r, v) = Got(r, 4, v)
    BY <1>1 DEF ReadWord
  <2> QED
    BY <1>1, <2>1, GotFields DEF Reads, Within, Errors, InBounds
<1>2. CASE ~InBounds(p, r, 4)
  <2>1. ReadWord(p, r, v) = Fail(r, "FieldOutOfBounds")
    BY <1>2 DEF ReadWord
  <2> QED
    BY <2>1, FailFields DEF Reads, Within, Errors
<1> QED
    BY <1>1, <1>2

(* Of four bytes, whatever they are, an unsigned number is read, ...       *)
LEMMA ReadUintFacts ==
    ASSUME NEW p, NEW r, Within(p, r), r.error = "none"
    PROVE  /\ Reads(p, ReadUint(p, r), 0 .. U32Max)
           /\ ReadUint(p, r).error \in {"none", "FieldOutOfBounds"}
<1> DEFINE v == Unsigned(Slice(p, r, 0, 4))
           T == 0 .. U32Max
<1>1. ASSUME InBounds(p, r, 4) PROVE v \in T
  <2>1. Slice(p, r, 0, 4) \in Seq(Bytes) /\ Len(Slice(p, r, 0, 4)) = 4
    BY <1>1, WordFacts
  <2> QED
    BY <2>1, UnsignedRange
<1>2. ReadUint(p, r) = ReadWord(p, r, v)
    BY DEF ReadUint
<1> HIDE DEF v, T
<1>3. /\ Reads(p, ReadWord(p, r, v), T)
      /\ ReadWord(p, r, v).error \in {"none", "FieldOutOfBounds"}
    BY <1>1, ReadWordFacts
<1> QED
    BY <1>2, <1>3 DEF T

(* ... or a signed one.                                                    *)
LEMMA ReadIntFacts ==
    ASSUME NEW p, NEW r, Within(p, r), r.error = "none"
    PROVE  Reads(p, ReadInt(p, r), Signeds)
<1> DEFINE v == Signed(Slice(p, r, 0, 4))
<1>1. ASSUME InBounds(p, r, 4) PROVE v \in Signeds
  <2>1. Slice(p, r, 0, 4) \in Seq(Bytes) /\ Len(Slice(p, r, 0, 4)) = 4
    BY <1>1, WordFacts
  <2> QED
    BY <2>1, SignedRange
<1>2. ReadInt(p, r) = ReadWord(p, r, v)
    BY DEF ReadInt
<1> HIDE DEF v
<1>3. Reads(p, ReadWord(p, r, v), Signeds)
    BY <1>1, ReadWordFacts
<1> QED
    BY <1>2, <1>3

(* A length that was read.                                                 *)
LEMMA NextLenFacts ==
    ASSUME NEW p, NEW r, Within(p, r), InBounds(p, r, 4)
    PROVE  /\ NextLen(p, r) \in Nat /\ NextExtent(p, r) \in Nat
           /\ NextExtent(p, r) = 4 + NextLen(p, r) + Realign(NextLen(p, r))
           /\ 4 + NextLen(p, r) <= NextExtent(p, r)
<1>1. Slice(p, r, 0, 4) \in Seq(Bytes) /\ Len(Slice(p, r, 0, 4)) = 4
    BY WordFacts
<1>2. NextLen(p, r) \in Nat
    BY <1>1, UnsignedRange DEF NextLen
<1> DEFINE n == NextLen(p, r)
<1>3. NextExtent(p, r) = 4 + n + Realign(n)
    BY DEF NextExtent
<1> HIDE DEF n
<1>4. n \in Nat /\ Realign(n) \in 0 .. 3
    BY <1>2, RealignFacts DEF n
<1> QED
    BY <1>3, <1>4 DEF n

(* An array is read only if it ends within the payload.                    *)
LEMMA ReadArrayFacts ==
    ASSUME NEW p, NEW r, Within(p, r), r.error = "none"
    PROVE  /\ Reads(p, ReadArray(p, r), Seq(Bytes))
           /\ ReadArray(p, r).error \in {"none", "FieldOutOfBounds"}
           /\ ReadArray(p, r).error = "none" =>
                  Len(ReadArray(p, r).value) = NextLen(p, r)
<1> DEFINE n == NextExtent(p, r)
           v == Slice(p, r, 4, NextLen(p, r))
           T == Seq(Bytes)
<1>1. CASE InBounds(p, r, 4) /\ InBounds(p, r, n)
  <2>1. ReadArray(p, r) = Got(r, n, v)
    BY <1>1 DEF ReadArray
  <2>2. /\ n \in Nat /\ NextLen(p, r) \in Nat /\ 4 + NextLen(p, r) <= n
    BY <1>1, NextLenFacts
  <2>3. InBounds(p, r, 4 + NextLen(p, r))
    BY <1>1, <2>2 DEF InBounds, Within
  <2>4. v \in T /\ Len(v) = NextLen(p, r)
    BY <2>2, <2>3, SliceFacts
  <2> HIDE DEF n, v, T
  <2>5. Within(p, Got(r, n, v))
    BY <1>1, <2>2, GotFields DEF Within, InBounds
  <2>6. Got(r, n, v).value = v /\ Got(r, n, v).error = "none"
    BY GotFields DEF Within
  <2> QED
    BY <2>1, <2>4, <2>5, <2>6 DEF Reads, Errors, T
<1>2. CASE ~ (InBounds(p, r, 4) /\ InBounds(p, r, n))
  <2>1. ReadArray(p, r) = Fail(r, "FieldOutOfBounds")
    BY <1>2 DEF ReadArray
  <2>2. /\ Within(p, Fail(r, "FieldOutOfBounds"))
        /\ Fail(r, "FieldOutOfBounds").error = "FieldOutOfBounds"
    BY FailFields DEF Within
  <2> QED
    BY <2>1, <2>2 DEF Reads, Errors
<1> QED
    BY <1>1, <1>2

(* A failure leaves the reader where it is.                                *)
LEMMA Failing ==
    ASSUME NEW p, NEW r, Within(p, r), NEW e \in Errors \ {"none"}, NEW T,
           e = "underflow" => NextLen(p, r) = 0
    PROVE  Reads(p, Fail(r, e), T) /\ Fail(r, e).error = e
<1>1. Within(p, Fail(r, e)) /\ Fail(r, e).error = e
    BY FailFields DEF Within
<1>2. NextLen(p, Fail(r, e)) = NextLen(p, r)
    BY FailFields DEF NextLen, Slice, Within
<1> QED
    BY <1>1, <1>2 DEF Reads

(* So is a string; only one of length 0 underflows.                        *)
LEMMA ReadStrFacts ==
    ASSUME NEW p, NEW r, Within(p, r), r.error = "none"
    PROVE  Reads(p, ReadStr(p, r), Seq(Bytes))
<1> DEFINE a == ReadArray(p, r)
           s == a.value
           T == Seq(Bytes)
<1>1. /\ Reads(p, a, T) /\ a.error \in {"none", "FieldOutOfBounds"}
      /\ a.error = "none" => Len(s) = NextLen(p, r)
    BY ReadArrayFacts
<1>2. /\ a.error # "none" => ReadStr(p, r) = a
      /\ a.error = "none" =>
            \/ ReadStr(p, r) = Fail(r, "underflow") /\ s = <<>>
            \/ ReadStr(p, r) = Fail(r, "StringMisplacedNul")
            \/ ReadStr(p, r) = Fail(r, "StringInvalidUtf8")
            \/ ReadStr(p, r) = Yield(a, SubSeq(s, 1, Len(s) - 1))
               /\ s # <<>>
    BY DEF ReadStr, Underflows
<1> HIDE DEF a
<1>3. CASE a.error # "none"
    BY <1>1, <1>2, <1>3
<1>4. CASE a.error = "none" /\ ReadStr(p, r) = Fail(r, "underflow") /\ s = <<>>
  <2>1. NextLen(p, r) = 0
    BY <1>1, <1>4
  <2> HIDE DEF T
  <2>2. Reads(p, Fail(r, "underflow"), T)
    BY <2>1, Failing DEF Errors
  <2> QED
    BY <1>4, <2>2 DEF T
<1>5. CASE \/ ReadStr(p, r) = Fail(r, "StringMisplacedNul")
           \/ ReadStr(p, r) = Fail(r, "StringInvalidUtf8")
  <2> HIDE DEF T
  <2>1. Reads(p, Fail(r, "StringMisplacedNul"), T)
    BY Failing DEF Errors
  <2>2. Reads(p, Fail(r, "StringInvalidUtf8"), T)
    BY Failing DEF Errors
  <2> QED
    BY <1>5, <2>1, <2>2 DEF T
<1>6. CASE /\ a.error = "none" /\ s # <<>>
           /\ ReadStr(p, r) = Yield(a, SubSeq(s, 1, Len(s) - 1))
  <2> DEFINE t == SubSeq(s, 1, Len(s) - 1)
  <2>1. s \in Seq(Bytes)
    BY <1>1, <1>6 DEF Reads
  <2>2. t \in Seq(Bytes)
    BY <1>6, <2>1
  <2> HIDE DEF t, s, T
  <2>3. /\ Within(p, Yield(a, t))
        /\ Yield(a, t).value = t
        /\ Yield(a, t).error = "none"
    <3>1. Within(p, a) /\ a.error = "none"
      BY <1>1, <1>6 DEF Reads
    <3> QED
      BY <3>1, YieldFields DEF Within
  <2>4. Reads(p, Yield(a, t), T)
    BY <2>2, <2>3 DEF Reads, Errors, T
  <2> QED
    BY <1>6, <2>4 DEF t, T
<1> QED
    BY <1>1, <1>2, <1>3, <1>4, <1>5, <1>6

(* An object id is read only if it is not 0.                               *)
LEMMA ReadNewIdFacts ==
    ASSUME NEW p, NEW r, Within(p, r), r.error = "none"
    PROVE  /\ Reads(p, ReadNewId(p, r), 1 .. U32Max)
           /\ ReadNewId(p, r).error # "underflow"
<1> DEFINE id == ReadUint(p, r)
<1>1. /\ Reads(p, id, 0 .. U32Max)
      /\ id.error \in {"none", "FieldOutOfBounds"}
    BY ReadUintFacts
<1>2. ReadNewId(p, r) = IF id.error = "none" /\ id.value = 0
                        THEN Fail(id, "ZeroObjectId") ELSE id
    BY DEF ReadNewId
<1> HIDE DEF id
<1>3. CASE id.error = "none" /\ id.value = 0
  <2>1. Reads(p, Fail(id, "ZeroObjectId"), 1 .. U32Max)
        /\ Fail(id, "ZeroObjectId").error = "ZeroObjectId"
    BY <1>1, Failing DEF Errors, Reads
  <2> QED
    BY <1>2, <1>3, <2>1
<1>4. CASE ~ (id.error = "none" /\ id.value = 0)
    BY <1>1, <1>2, <1>4, Sizes DEF Reads
<1> QED
    BY <1>3, <1>4

(* The three parts of a new object: none is read after one has failed.     *)
LEMMA ReadNewObjectFacts ==
    ASSUME NEW p, NEW r, Within(p, r), r.error = "none"
    PROVE  Reads(p, ReadNewObject(p, r), TypeOf("new_object"))
<1> DEFINE interface == ReadStr(p, r)
           version   == ReadUint(p, interface)
           id        == ReadNewId(p, version)
           object    == [interface |-> interface.value,
                         version |-> version.value, object_id |-> id.value]
           T         == TypeOf("new_object")
<1>1. Reads(p, interface, Seq(Bytes))
    BY ReadStrFacts
<1>2. ReadNewObject(p, r) =
          IF interface.error # "none" THEN interface
          ELSE IF version.error # "none" THEN version
          ELSE IF id.error # "none" THEN id ELSE Yield(id, object)
    BY DEF ReadNewObject
<1> HIDE DEF interface, T
<1>3. CASE interface.error # "none"
    BY <1>1, <1>2, <1>3 DEF Reads
<1>4. CASE interface.error = "none"
  <2>1. /\ Reads(p, version, 0 .. U32Max)
        /\ version.error \in {"none", "FieldOutOfBounds"}
    BY <1>1, <1>4, ReadUintFacts DEF Reads
  <2> HIDE DEF version
  <2>2. CASE version.error # "none"
    BY <1>2, <1>4, <2>1, <2>2 DEF Reads
  <2>3. CASE version.error = "none"
    <3>1. Reads(p, id, 1 .. U32Max) /\ id.error # "underflow"
      BY <2>1, <2>3, ReadNewIdFacts DEF Reads
    <3> HIDE DEF id
    <3>2. CASE id.error # "none"
      BY <1>2, <1>4, <2>3, <3>1, <3>2 DEF Reads
    <3>3. CASE id.error = "none"
      <4>1. ReadNewObject(p, r) = Yield(id, object)
        BY <1>2, <1>4, <2>3, <3>3
      <4>2. /\ interface.value \in Seq(Bytes) /\ version.value \in 0 .. U32Max
            /\ id.value \in 1 .. U32Max
        BY <1>1, <1>4, <2>1, <2>3, <3>1, <3>3 DEF Reads
      <4>3. T = [interface : Seq(Bytes), version : 0 .. U32Max,
                 object_id : 1 .. U32Max]
        BY DEF TypeOf, Bytes, T
      <4>4. object \in T
        BY <4>2, <4>3
      <4> HIDE DEF object
      <4>5. Within(p, Yield(id, object)) /\ Yield(id, object).value = object
            /\ Yield(id, object).error = "none"
        BY <3>1, <3>3, YieldFields DEF Reads, Within
      <4> QED
        BY <4>1, <4>4, <4>5 DEF Reads, Errors, T
    <3> QED
      BY <3>2, <3>3 DEF T
  <2> QED
    BY <2>2, <2>3
<1> QED
    BY <1>3, <1>4 DEF T

(* A file descriptor is read only if one is left.                          *)
LEMMA ReadFdFacts ==
    ASSUME NEW p, NEW r, Within(p, r), r.error = "none"
    PROVE  Reads(p, ReadFd(p, r), 0 .. U32Max)
<1> DEFINE T == 0 .. U32Max
<1>1. CASE r.fd_pos < Len(p.fds)
  <2> DEFINE m == r.fd_pos + 1
             x == [r EXCEPT !.fd_pos = m]
             v == p.fds[m]
  <2>1. ReadFd(p, r) = Yield(x, v)
    BY <1>1 DEF ReadFd
  <2>2. m \in 1 .. Len(p.fds)
    BY <1>1 DEF Within
  <2>3. v \in T
    BY <2>2, ElementOf DEF Within
  <2> HIDE DEF m, v
  <2>4. PICK a, b, c, d : r = [payload_pos |-> a, fd_pos |-> b, value |-> c,
                               error |-> d]
    BY DEF Within, IsReader
  <2>5. x = [payload_pos |-> a, fd_pos |-> m, value |-> c, error |-> d]
    BY <2>4
  <2> HIDE DEF x
  <2>6. /\ IsReader(x) /\ x.payload_pos = r.payload_pos /\ x.fd_pos = m
        /\ x.error = r.error
    BY <2>4, <2>5 DEF IsReader
  <2>7. /\ Within(p, Yield(x, v)) /\ Yield(x, v).value = v
        /\ Yield(x, v).error = "none"
    BY <2>2, <2>6, YieldFields DEF Within
  <2> HIDE DEF T
  <2> QED
    BY <2>1, <2>3, <2>7 DEF Reads, Errors, T
<1>2. CASE ~ (r.fd_pos < Len(p.fds))
  <2>1. ReadFd(p, r) = Fail(r, "FdOutOfBounds")
    BY <1>2 DEF ReadFd
  <2> HIDE DEF T
  <2>2. Reads(p, Fail(r, "FdOutOfBounds"), T)
    BY Failing DEF Errors
  <2> QED
    BY <2>1, <2>2 DEF T
<1> QED
    BY <1>1, <1>2

(* Whatever the bytes, an argument of any kind is read within the packet,  *)
(* and has its type.                                                       *)
LEMMA ReadArgFacts ==
    ASSUME NEW p, NEW r, Within(p, r), r.error = "none", NEW kind \in Kinds
    PROVE  Reads(p, ReadArg(p, r, kind), TypeOf(kind))
<1>1. CASE kind = "string"
  <2>1. ReadArg(p, r, kind) = ReadStr(p, r) /\ TypeOf(kind) = Seq(Bytes)
    BY <1>1 DEF ReadArg, TypeOf, Bytes
  <2> QED
    BY <2>1, ReadStrFacts
<1>2. CASE kind = "array"
  <2>1. ReadArg(p, r, kind) = ReadArray(p, r) /\ TypeOf(kind) = Seq(Bytes)
    BY <1>2 DEF ReadArg, TypeOf, Bytes
  <2> QED
    BY <2>1, ReadArrayFacts
<1>3. CASE kind = "new_id"
  <2>1. ReadArg(p, r, kind) = ReadNewId(p, r) /\ TypeOf(kind) = 1 .. U32Max
    BY <1>3 DEF ReadArg, TypeOf
  <2> QED
    BY <2>1, ReadNewIdFacts
<1>4. CASE kind = "new_object"
  <2>1. ReadArg(p, r, kind) = ReadNewObject(p, r)
    BY <1>4 DEF ReadArg
  <2> QED
    BY <1>4, <2>1, ReadNewObjectFacts
<1>5. CASE kind = "fd"
  <2>1. ReadArg(p, r, kind) = ReadFd(p, r) /\ TypeOf(kind) = 0 .. U32Max
    BY <1>5 DEF ReadArg, TypeOf
  <2> QED
    BY <2>1, ReadFdFacts
<1>6. CASE kind \in {"int", "fixed"}
  <2>1. ReadArg(p, r, kind) = ReadInt(p, r) /\ TypeOf(kind) = Signeds
    BY <1>6 DEF ReadArg, TypeOf, Signeds
  <2> QED
    BY <2>1, ReadIntFacts
<1>7. CASE kind \in {"uint", "object"}
  <2>1. ReadArg(p, r, kind) = ReadUint(p, r) /\ TypeOf(kind) = 0 .. U32Max
    BY <1>7 DEF ReadArg, TypeOf
  <2> QED
    BY <2>1, ReadUintFacts
<1> QED
    BY <1>1, <1>2, <1>3, <1>4, <1>5, <1>6, <1>7 DEF Kinds, ArgTypes

-----------------------------------------------------------------------------
(* Writing.                                                                *)

(* The bytes of a string, of an array, and of a new object.                *)
StrBytes(s) ==
    ToBytes(Len(s) + 1) \o s \o << 0 >> \o Zeros(Realign(Len(s) + 1))

ArrayBytes(a) == ToBytes(Len(a)) \o a \o Zeros(Realign(Len(a)))

ObjectBytes(o) ==
    StrBytes(o.interface) \o ToBytes(o.version) \o ToBytes(o.object_id)

(* The bytes of an argument.                                               *)
Written(kind, v) ==
    CASE kind = "string" -> IF v = NoString THEN ToBytes(0) ELSE StrBytes(v)
      [] kind = "array"      -> ArrayBytes(v)
      [] kind = "new_object" -> ObjectBytes(v)
      [] kind = "fd"         -> <<>>
      [] kind = "fixed"      -> ToBytes(FixedTryFrom(v))
      [] OTHER               -> ToBytes(v)

(* A packet, of which payload and fds grow.                                *)
IsPacket(p) ==
    p = [object_id |-> p.object_id, opcode |-> p.opcode,
         payload |-> p.payload, fds |-> p.fds]

(* Bytes change only the payload, ...                                      *)
LEMMA ExtendFields ==
    ASSUME NEW p, IsPacket(p), NEW b
    PROVE  /\ IsPacket(Extend(p, b)) /\ Extend(p, b).payload = p.payload \o b
           /\ Extend(p, b).fds = p.fds /\ Extend(p, b).opcode = p.opcode
           /\ Extend(p, b).object_id = p.object_id
<1>1. PICK i, o, c, f : p = [object_id |-> i, opcode |-> o, payload |-> c,
                             fds |-> f]
    BY DEF IsPacket
<1> DEFINE d == p.payload \o b
<1>2. Extend(p, b) = [p EXCEPT !.payload = d]
    BY DEF Extend
<1> HIDE DEF d
<1>3. Extend(p, b) = [object_id |-> i, opcode |-> o, payload |-> d, fds |-> f]
    BY <1>1, <1>2
<1> QED
    BY <1>1, <1>3 DEF IsPacket, d

(* ... a file descriptor only the list of them.                            *)
LEMMA PushFdFields ==
    ASSUME NEW p, IsPacket(p), NEW fd
    PROVE  /\ IsPacket(PushFd(p, fd)) /\ PushFd(p, fd).payload = p.payload
           /\ PushFd(p, fd).fds = Append(p.fds, fd)
           /\ PushFd(p, fd).opcode = p.opcode
           /\ PushFd(p, fd).object_id = p.object_id
<1>1. PICK i, o, c, f : p = [object_id |-> i, opcode |-> o, payload |-> c,
                             fds |-> f]
    BY DEF IsPacket
<1> DEFINE d == Append(p.fds, fd)
<1>2. PushFd(p, fd) = [p EXCEPT !.fds = d]
    BY DEF PushFd
<1> HIDE DEF d
<1>3. PushFd(p, fd) = [object_id |-> i, opcode |-> o, payload |-> c, fds |-> d]
    BY <1>1, <1>2
<1> QED
    BY <1>1, <1>3 DEF IsPacket, d

(* Padding.                                                                *)
LEMMA ZerosFacts ==
    ASSUME NEW n \in Nat
    PROVE  Zeros(n) \in Seq(Bytes) /\ Len(Zeros(n)) = n
<1> DEFINE z == [i \in 1 .. n |-> 0]
<1>1. 0 \in Bytes
    BY Sizes DEF Bytes
<1>2. z \in [1 .. n -> Bytes] /\ DOMAIN z = 1 .. n
    BY <1>1
<1> HIDE DEF z
<1>3. z \in Seq(Bytes) /\ Len(z) = n
    BY <1>2
<1> QED
    BY <1>3 DEF Zeros, z

(* A terminated string.                                                    *)
Terminated(s) == s \o << 0 >>

(* It is longer by a NUL.                                                  *)
LEMMA TerminatedFacts ==
    ASSUME NEW s \in Seq(Bytes)
    PROVE  /\ Terminated(s) \in Seq(Bytes) /\ Len(Terminated(s)) = Len(s) + 1
           /\ \A i \in 1 .. Len(s) : Terminated(s)[i] = s[i]
           /\ Terminated(s)[Len(s) + 1] = 0
<1>1. 0 \in Bytes
    BY Sizes DEF Bytes
<1>2. << 0 >> \in Seq(Bytes) /\ Len(<< 0 >>) = 1 /\ << 0 >>[1] = 0 /\ 1 \in 1 .. 1
    BY <1>1
<1> QED
    BY <1>2, Concatenation DEF Terminated

(* The extent of a block of bytes after its length.                        *)
Extent(n) == 4 + n + Realign(n)

(* It is a number of whole words.                                          *)
LEMMA ExtentFacts ==
    ASSUME NEW n \in Nat
    PROVE  Extent(n) \in Nat /\ Extent(n) % 4 = 0 /\ Extent(n) >= 4 + n
<1>1. PICK r \in 0 .. 3 : r = Realign(n) /\ (n + r) % 4 = 0
    BY RealignFacts
<1>2. PICK q \in Int : n + r = 4 * q
  <2>1. n + r = 4 * ((n + r) \div 4) + ((n + r) % 4) /\ (n + r) \div 4 \in Int
    OBVIOUS
  <2> QED
    BY <1>1, <2>1
<1>3. Extent(n) = 4 * (q + 1)
    BY <1>1, <1>2 DEF Extent
<1>4. (4 * (q + 1)) % 4 = 0
    OBVIOUS
<1>5. r >= 0
    BY <1>1
<1>6. 4 * (q + 1) \in Nat /\ 4 * (q + 1) >= 4 + n
    BY <1>2, <1>5
<1> QED
    BY <1>3, <1>4, <1>6

(* Its bytes: the length, the block and the padding.                       *)
LEMMA BlockFacts ==
    ASSUME NEW b \in Seq(Bytes)
    PROVE  LET w == ToBytes(Len(b)) \o b \o Zeros(Realign(Len(b))) IN
           /\ w \in Seq(Bytes) /\ Len(w) = Extent(Len(b))
           /\ \A i \in 1 .. 4 : w[i] = ToBytes(Len(b))[i]
           /\ \A i \in 1 .. Len(b) : w[4 + i] = b[i]
<1> DEFINE n == Len(b)
           h == ToBytes(n)
           z == Zeros(Realign(n))
           c == h \o b
           w == c \o z
<1>1. n \in Nat /\ n \in Int /\ Realign(n) \in Nat
  <2>1. n \in Nat
    OBVIOUS
  <2> HIDE DEF n
  <2>2. Realign(n) \in 0 .. 3
    BY <2>1, RealignFacts
  <2> QED
    BY <2>1, <2>2
<1>2a. h \in Seq(Bytes) /\ z \in Seq(Bytes)
    BY <1>1, ToBytesFacts, ZerosFacts
<1>2. Len(h) = 4 /\ Len(z) = Realign(n)
    BY <1>1, ToBytesFacts, ZerosFacts
<1> HIDE DEF h, z
<1>3a. c \in Seq(Bytes)
    BY <1>2a, Concatenation
<1>3. /\ Len(c) = 4 + n
      /\ \A i \in 1 .. 4 : c[i] = h[i]
      /\ \A i \in 1 .. n : c[4 + i] = b[i]
  <2>1. /\ c \in Seq(Bytes) /\ Len(c) = Len(h) + Len(b)
        /\ \A i \in 1 .. Len(h) : c[i] = h[i]
        /\ \A i \in 1 .. Len(b) : c[Len(h) + i] = b[i]
    BY <1>2a, Concatenation
  <2> HIDE DEF c
  <2> QED
    BY <1>2, <2>1
<1> HIDE DEF c, n
<1>4. /\ w \in Seq(Bytes) /\ Len(w) = (4 + n) + Realign(n)
      /\ \A i \in 1 .. 4 + n : w[i] = c[i]
  <2>1. /\ w \in Seq(Bytes) /\ Len(w) = Len(c) + Len(z)
        /\ \A i \in 1 .. Len(c) : w[i] = c[i]
    BY <1>2a, <1>3a, Concatenation
  <2> HIDE DEF w
  <2> QED
    BY <1>1, <1>2, <1>3, <2>1
<1> HIDE DEF w
<1>5. \A i \in 1 .. 4 : w[i] = h[i]
    BY <1>1, <1>3, <1>4
<1>6. \A i \in 1 .. n : w[4 + i] = b[i]
    BY <1>1, <1>3, <1>4
<1>7. Len(w) = Extent(n)
    BY <1>1, <1>4 DEF Extent
<1> QED
    BY <1>4, <1>5, <1>6, <1>7 DEF w, c, h, z, n

(* Sequences are put together in whatever order.                           *)
LEMMA Associativity ==
    ASSUME NEW S, NEW a \in Seq(S), NEW b \in Seq(S), NEW c \in Seq(S)
    PROVE  a \o (b \o c) = (a \o b) \o c
    OBVIOUS

(* An array after its length, ...                                          *)
LEMMA ArrayBytesFacts ==
    ASSUME NEW a \in Seq(Bytes)
    PROVE  /\ ArrayBytes(a) \in Seq(Bytes) /\ Len(ArrayBytes(a)) = Extent(Len(a))
           /\ \A i \in 1 .. 4 : ArrayBytes(a)[i] = ToBytes(Len(a))[i]
           /\ \A i \in 1 .. Len(a) : ArrayBytes(a)[4 + i] = a[i]
    BY BlockFacts DEF ArrayBytes

(* ... and a string with its NUL, which the length counts.                 *)
LEMMA StrBytesFacts ==
    ASSUME NEW s \in Seq(Bytes)
    PROVE  /\ StrBytes(s) \in Seq(Bytes) /\ Len(StrBytes(s)) = Extent(Len(s) + 1)
           /\ \A i \in 1 .. 4 : StrBytes(s)[i] = ToBytes(Len(s) + 1)[i]
           /\ \A i \in 1 .. Len(s) + 1 : StrBytes(s)[4 + i] = Terminated(s)[i]
<1> DEFINE n == Len(s) + 1
           t == Terminated(s)
           h == ToBytes(n)
           z == Zeros(Realign(n))
           w == h \o t \o z
<1>1a. t \in Seq(Bytes)
    BY TerminatedFacts
<1>1. Len(t) = n /\ n \in Int
    BY TerminatedFacts
<1>2. h \in Seq(Bytes)
    BY <1>1, ToBytesFacts
<1>3. StrBytes(s) = w
  <2>1. << 0 >> \in Seq(Bytes)
    BY Sizes DEF Bytes
  <2> HIDE DEF h, z, n
  <2>2. h \o (s \o << 0 >>) = (h \o s) \o << 0 >>
    BY <1>2, <2>1, Associativity
  <2> QED
    BY <2>2 DEF StrBytes, Terminated, h, z, n
<1> HIDE DEF t
<1>4. /\ w \in Seq(Bytes) /\ Len(w) = Extent(n)
      /\ \A i \in 1 .. 4 : w[i] = ToBytes(n)[i]
      /\ \A i \in 1 .. n : w[4 + i] = t[i]
  <2>1. w = ToBytes(Len(t)) \o t \o Zeros(Realign(Len(t)))
    BY <1>1
  <2>2. /\ w \in Seq(Bytes) /\ Len(w) = Extent(Len(t))
        /\ \A i \in 1 .. 4 : w[i] = ToBytes(Len(t))[i]
        /\ \A i \in 1 .. Len(t) : w[4 + i] = t[i]
    <3> HIDE DEF w
    <3> QED
      BY <1>1a, <2>1, BlockFacts
  <2> HIDE DEF w, n
  <2> QED
    BY <1>1a, <1>1, <2>1, <2>2
<1> QED
    BY <1>3, <1>4 DEF t

(* The argument of a kind, or no string.                                   *)
Given(kind) ==
    IF kind = "string" THEN Arguments(kind) \cup {NoString} ELSE Arguments(kind)

(* What strings are made of.                                               *)
LEMMA TextFacts ==
    ASSUME NEW s \in Seq(1 .. Byte - 2)
    PROVE  /\ s \in Seq(Bytes) /\ s # NoString
           /\ \A i \in 1 .. Len(s) : s[i] # 0 /\ s[i] # Byte - 1
<1> DEFINE T == 1 .. Byte - 2
<1>1. T \subseteq Bytes /\ Byte \in Nat /\ \A x \in T : x # 0 /\ x # Byte - 1
    BY Sizes DEF Bytes
<1>2. Byte \notin T
    BY Sizes
<1> HIDE DEF T
<1>3. \A i \in 1 .. Len(s) : s[i] \in T
    BY ElementOf DEF T
<1>4. s \in Seq(Bytes)
    BY <1>1, SeqOfMore DEF T
<1>5. s # NoString
  <2> SUFFICES ASSUME s = << Byte >> PROVE FALSE
    BY DEF NoString
  <2>1. Len(s) = 1 /\ s[1] = Byte /\ 1 \in 1 .. 1
    OBVIOUS
  <2> QED
    BY <1>2, <1>3, <2>1
<1> QED
    BY <1>1, <1>3, <1>4, <1>5

(* A number is a word.                                                     *)
LEMMA WordWritten ==
    ASSUME NEW n \in Int, NEW w, w = ToBytes(n)
    PROVE  w \in Seq(Bytes) /\ Len(w) = 4 /\ Len(w) % 4 = 0
<1>1. ToBytes(n) \in Seq(Bytes) /\ Len(ToBytes(n)) = 4 /\ 4 % 4 = 0
    BY ToBytesFacts
<1> QED
    BY <1>1

(* Every argument is whole words.                                          *)
LEMMA WrittenFacts ==
    ASSUME NEW kind \in Kinds, NEW v \in Given(kind)
    PROVE  /\ Written(kind, v) \in Seq(Bytes)
           /\ Len(Written(kind, v)) % 4 = 0
<1>0. \A n \in Int : ToBytes(n) \in Seq(Bytes) /\ Len(ToBytes(n)) % 4 = 0
  <2>1. ASSUME NEW n \in Int
        PROVE  ToBytes(n) \in Seq(Bytes) /\ Len(ToBytes(n)) % 4 = 0
    <3>1. ToBytes(n) \in Seq(Bytes) /\ Len(ToBytes(n)) = 4 /\ 4 % 4 = 0
      BY ToBytesFacts
    <3> QED
      BY <3>1
  <2> QED
    BY <2>1
<1>1. CASE kind = "string"
  <2>1. CASE v = NoString
    BY <1>0, <1>1, <2>1 DEF Written
  <2>2. CASE v # NoString
    <3>1. v \in Seq(1 .. Byte - 2)
      BY <1>1, <2>2 DEF Given, Arguments
    <3>2. v \in Seq(Bytes) /\ Len(v) + 1 \in Nat
      BY <3>1, TextFacts
    <3>3. /\ StrBytes(v) \in Seq(Bytes) /\ Len(StrBytes(v)) = Extent(Len(v) + 1)
          /\ Extent(Len(v) + 1) % 4 = 0
      BY <3>2, StrBytesFacts, ExtentFacts
    <3> QED
      BY <1>1, <2>2, <3>3 DEF Written
  <2> QED
    BY <2>1, <2>2
<1>2. CASE kind = "array"
  <2>1. v \in Seq(Bytes) /\ Len(v) \in Nat
    BY <1>2 DEF Given, Arguments, Bytes
  <2>2. /\ ArrayBytes(v) \in Seq(Bytes) /\ Len(ArrayBytes(v)) = Extent(Len(v))
        /\ Extent(Len(v)) % 4 = 0
    BY <2>1, ArrayBytesFacts, ExtentFacts
  <2> QED
    BY <1>2, <2>2 DEF Written
<1>3. CASE kind = "new_object"
  <2> DEFINE s == v.interface
             a == StrBytes(s)
             b == ToBytes(v.version)
             c == ToBytes(v.object_id)
  <2>1. /\ s \in Seq(1 .. Byte - 2) /\ v.version \in Int /\ v.object_id \in Int
    BY <1>3, Sizes DEF Given, Arguments
  <2> HIDE DEF s
  <2>2. s \in Seq(Bytes) /\ Len(s) + 1 \in Nat
    BY <2>1, TextFacts
  <2>3. a \in Seq(Bytes) /\ Len(a) = Extent(Len(s) + 1)
    BY <2>2, StrBytesFacts
  <2>4. Len(a) \in Nat /\ Len(a) % 4 = 0
    BY <2>2, <2>3, ExtentFacts
  <2>5. /\ b \in Seq(Bytes) /\ Len(b) = 4 /\ c \in Seq(Bytes) /\ Len(c) = 4
    BY <2>1, ToBytesFacts
  <2> HIDE DEF a, b, c
  <2>6. a \o b \in Seq(Bytes) /\ Len(a \o b) = Len(a) + Len(b)
    BY <2>3, <2>5, Concatenation
  <2>7. a \o b \o c \in Seq(Bytes) /\ Len(a \o b \o c) = Len(a \o b) + Len(c)
    BY <2>5, <2>6, Concatenation
  <2>8. (Len(a) + 4 + 4) % 4 = 0
    BY <2>4
  <2>9. Written(kind, v) = a \o b \o c
    BY <1>3 DEF Written, ObjectBytes, a, b, c, s
  <2> QED
    BY <2>5, <2>6, <2>7, <2>8, <2>9
<1>4. CASE kind = "fd"
  <2>1. <<>> \in Seq(Bytes) /\ Len(<<>>) = 0 /\ 0 % 4 = 0
    OBVIOUS
  <2> QED
    BY <1>4, <2>1 DEF Written
<1>5. CASE kind = "fixed"
  <2>1. v * Byte \in Int
    BY <1>5, Sizes DEF Given, Arguments
  <2>2. FixedTryFrom(v) \in Int
    BY <2>1, ToBytesFacts, SignedRange, Sizes DEF FixedTryFrom, Signeds
  <2> QED
    BY <1>0, <1>5, <2>2 DEF Written
<1>6. CASE kind \in {"int", "uint", "object", "new_id"}
  <2>1. CASE kind = "int"
    <3>1. v \in Signeds
      BY <2>1 DEF Given, Arguments, Signeds
    <3>2. U32Max \div 2 \in Int
      BY Sizes
    <3>3. v \in Int
      BY <3>1, <3>2 DEF Signeds
    <3> QED
      BY <1>0, <2>1, <3>3 DEF Written
  <2>2. CASE kind \in {"uint", "object", "new_id"}
    <3>1. v \in 0 .. U32Max \/ v \in 1 .. U32Max
      BY <2>2 DEF Given, Arguments
    <3>2. U32Max \in Int
      BY Sizes
    <3>3. v \in Int
      BY <3>1, <3>2
    <3> QED
      BY <1>0, <2>2, <3>3 DEF Written
  <2> QED
    BY <1>6, <2>1, <2>2
<1> QED
    BY <1>1, <1>2, <1>3, <1>4, <1>5, <1>6 DEF Kinds, ArgTypes

(* One element more.                                                       *)
LEMMA Appended ==
    ASSUME NEW S, NEW s \in Seq(S), NEW e \in S
    PROVE  /\ Append(s, e) \in Seq(S) /\ Len(Append(s, e)) = Len(s) + 1
           /\ \A i \in 1 .. Len(s) : Append(s, e)[i] = s[i]
           /\ Append(s, e)[Len(s) + 1] = e
    OBVIOUS

(* A packet with an argument, which may be no string, pushed.              *)
Pushed(p, kind, v) ==
    IF kind = "string" /\ v = NoString
    THEN PushWord(p, 0) ELSE Push(p, kind, v)

(* What pushing an object does, in three steps, its bytes at once do.      *)
LEMMA ObjectPushed ==
    ASSUME NEW p, IsPacket(p), p.payload \in Seq(Bytes),
           NEW o \in Given("new_object")
    PROVE  LET q == PushNewObject(p, o) IN
           /\ IsPacket(q) /\ q.opcode = p.opcode /\ q.object_id = p.object_id
           /\ q.payload = p.payload \o ObjectBytes(o) /\ q.fds = p.fds
<1> DEFINE s == o.interface
           a == StrBytes(s)
           b == ToBytes(o.version)
           c == ToBytes(o.object_id)
           q1 == Extend(p, a)
           q2 == Extend(q1, b)
           q3 == Extend(q2, c)
<1>1. s \in Seq(1 .. Byte - 2) /\ o.version \in Int /\ o.object_id \in Int
    BY Sizes DEF Given, Arguments
<1>2. PushNewObject(p, o) = q3
    BY DEF PushNewObject, PushStr, PushWord, StrBytes
<1>3. ObjectBytes(o) = a \o b \o c
    BY DEF ObjectBytes
<1>4. b \in Seq(Bytes) /\ c \in Seq(Bytes)
    BY <1>1, ToBytesFacts
<1>5. a \in Seq(Bytes)
  <2> HIDE DEF s
  <2>1. s \in Seq(Bytes)
    BY <1>1, TextFacts
  <2> QED
    BY <2>1, StrBytesFacts
<1> HIDE DEF a, b, c
<1>6. /\ IsPacket(q1) /\ q1.payload = p.payload \o a /\ q1.fds = p.fds
      /\ q1.opcode = p.opcode /\ q1.object_id = p.object_id
    BY ExtendFields
<1> HIDE DEF q1
<1>7. /\ IsPacket(q2) /\ q2.payload = q1.payload \o b /\ q2.fds = p.fds
      /\ q2.opcode = p.opcode /\ q2.object_id = p.object_id
    BY <1>6, ExtendFields
<1> HIDE DEF q2
<1>8. /\ IsPacket(q3) /\ q3.payload = q2.payload \o c /\ q3.fds = p.fds
      /\ q3.opcode = p.opcode /\ q3.object_id = p.object_id
    BY <1>7, ExtendFields
<1> HIDE DEF q3
<1>9. ((p.payload \o a) \o b) \o c = p.payload \o (a \o b \o c)
  <2> DEFINE d == p.payload
  <2>1. d \in Seq(Bytes)
    OBVIOUS
  <2> HIDE DEF d
  <2>2. a \o b \in Seq(Bytes)
    BY <1>4, <1>5, Concatenation
  <2>3. d \o (a \o b) = (d \o a) \o b
    <3>1. a \in Seq(Bytes) /\ b \in Seq(Bytes)
      BY <1>4, <1>5
    <3> QED
      BY <2>1, <3>1, Associativity
  <2> DEFINE e == a \o b
  <2>4. e \in Seq(Bytes)
    BY <2>2
  <2> HIDE DEF e
  <2>5. d \o (e \o c) = (d \o e) \o c
    BY <2>1, <2>4, <1>4, Associativity
  <2> QED
    BY <2>3, <2>5 DEF d, e
<1> QED
    BY <1>2, <1>3, <1>6, <1>7, <1>8, <1>9

(* Pushing adds the bytes of the argument, or its file descriptor.         *)
LEMMA PushedFacts ==
    ASSUME NEW p, IsPacket(p), p.payload \in Seq(Bytes), NEW kind \in Kinds,
           NEW v \in Given(kind)
    PROVE  LET q == Pushed(p, kind, v) IN
           /\ IsPacket(q) /\ q.opcode = p.opcode /\ q.object_id = p.object_id
           /\ q.payload = p.payload \o Written(kind, v)
           /\ q.fds = IF kind = "fd" THEN Append(p.fds, v) ELSE p.fds
<1> DEFINE q == Pushed(p, kind, v)
<1>1. CASE kind = "fd"
  <2>1. q = PushFd(p, v) /\ Written(kind, v) = <<>>
    BY <1>1 DEF Pushed, Push, Written
  <2>2. p.payload \o <<>> = p.payload
    OBVIOUS
  <2> QED
    BY <1>1, <2>1, <2>2, PushFdFields
<1>2. CASE kind = "new_object"
  <2>1. q = PushNewObject(p, v) /\ Written(kind, v) = ObjectBytes(v)
    BY <1>2 DEF Pushed, Push, Written
  <2>2. v \in Given("new_object") /\ kind # "fd"
    BY <1>2
  <2> QED
    BY <2>1, <2>2, ObjectPushed
<1>3. CASE kind \notin {"fd", "new_object"}
  <2>1. q = Extend(p, Written(kind, v))
    BY <1>3 DEF Pushed, Push, Written, PushWord, PushStr, PushArray, StrBytes,
                ArrayBytes
  <2> DEFINE w == Written(kind, v)
  <2> HIDE DEF w
  <2>2. /\ IsPacket(Extend(p, w)) /\ Extend(p, w).payload = p.payload \o w
        /\ Extend(p, w).fds = p.fds /\ Extend(p, w).opcode = p.opcode
        /\ Extend(p, w).object_id = p.object_id
    BY ExtendFields
  <2> QED
    BY <1>3, <2>1, <2>2 DEF w
<1> QED
    BY <1>1, <1>2, <1>3

-----------------------------------------------------------------------------
(* Where the arguments are.                                                *)

(* Bytes are at pos of the payload.                                        *)
Holds(p, pos, w) ==
    /\ pos + Len(w) <= Len(p.payload)
    /\ \A j \in 1 .. Len(w) : p.payload[pos + j] = w[j]

(* An argument is at pos of the payload; a file descriptor is after fd     *)
(* others.                                                                 *)
At(p, pos, fd, kind, v) ==
    /\ Holds(p, pos, Written(kind, v))
    /\ kind = "fd" => fd + 1 <= Len(p.fds) /\ p.fds[fd + 1] = v

Fds(kind) == IF kind = "fd" THEN 1 ELSE 0

(* Where each argument of a packet ends.                                   *)
Ends(p, args, vals, off, foff) ==
    /\ off \in [0 .. Len(vals) -> 0 .. Len(p.payload)]
    /\ foff \in [0 .. Len(vals) -> 0 .. Len(p.fds)]
    /\ off[0] = 0 /\ off[Len(vals)] = Len(p.payload)
    /\ foff[0] = 0 /\ foff[Len(vals)] = Len(p.fds)
    /\ \A i \in 1 .. Len(vals) :
          /\ At(p, off[i - 1], foff[i - 1], args[i], vals[i])
          /\ off[i] = off[i - 1] + Len(Written(args[i], vals[i]))
          /\ foff[i] = foff[i - 1] + Fds(args[i])

Args == UNION { Given(kind) : kind \in Kinds }

(* The arguments of a packet lie one after the other in it, and so far the *)
(* first n of them have been read.                                         *)
Laid(p, args, vals, n, pos, fd) ==
    \E off, foff : /\ Ends(p, args, vals, off, foff)
                   /\ pos = off[n] /\ fd = foff[n]

(* What is in a packet stays where it is as the packet grows.              *)
LEMMA Stays ==
    ASSUME NEW p, p.payload \in Seq(Bytes), p.fds \in Seq(0 .. U32Max),
           NEW q, NEW w \in Seq(Bytes), q.payload = p.payload \o w,
           NEW f \in 0 .. U32Max, q.fds \in {p.fds, Append(p.fds, f)},
           NEW pos \in Nat, NEW fd \in Nat, NEW kind, NEW v,
           Written(kind, v) \in Seq(Bytes), At(p, pos, fd, kind, v)
    PROVE  At(q, pos, fd, kind, v)
<1> DEFINE u == Written(kind, v)
           b == p.payload
           c == q.payload
<1>1. /\ Len(b) \in Nat /\ Len(w) \in Nat /\ Len(u) \in Nat
      /\ Len(c) = Len(b) + Len(w)
      /\ \A j \in 1 .. Len(b) : c[j] = b[j]
    BY Concatenation
<1>2. pos + Len(u) <= Len(b) /\ \A j \in 1 .. Len(u) : b[pos + j] = u[j]
    BY DEF At, Holds
<1> HIDE DEF u, b, c
<1>3. \A j \in 1 .. Len(u) : pos + j \in 1 .. Len(b)
    BY <1>1, <1>2
<1>4. pos + Len(u) <= Len(c) /\ \A j \in 1 .. Len(u) : c[pos + j] = u[j]
  <2>1. pos + Len(u) <= Len(c)
    BY <1>1, <1>2
  <2>2. ASSUME NEW j \in 1 .. Len(u) PROVE c[pos + j] = u[j]
    <3>1. c[pos + j] = b[pos + j]
      BY <1>1, <1>3
    <3> QED
      BY <1>2, <3>1
  <2> QED
    BY <2>1, <2>2
<1>5. ASSUME kind = "fd" PROVE fd + 1 <= Len(q.fds) /\ q.fds[fd + 1] = v
  <2> DEFINE s == p.fds
             t == Append(s, f)
             S == 0 .. U32Max
  <2>1. fd + 1 <= Len(s) /\ s[fd + 1] = v
    BY <1>5 DEF At
  <2>2. s \in Seq(S) /\ f \in S /\ q.fds \in {s, t}
    OBVIOUS
  <2> HIDE DEF s, S
  <2>3. Len(s) \in Nat /\ Len(t) = Len(s) + 1 /\ \A i \in 1 .. Len(s) : t[i] = s[i]
    BY <2>2, Appended
  <2> HIDE DEF t
  <2>4. fd + 1 \in 1 .. Len(s)
    BY <2>1, <2>3
  <2>5. fd + 1 <= Len(t) /\ t[fd + 1] = v
    BY <2>1, <2>3, <2>4
  <2>6. q.fds = s \/ q.fds = t
    BY <2>2
  <2> QED
    BY <2>1, <2>5, <2>6
<1> QED
    BY <1>4, <1>5 DEF At, Holds, u, b, c

-----------------------------------------------------------------------------
(* Reading back.                                                           *)

(* The parts of what is in a packet are in it.                             *)
LEMMA HoldsParts ==
    ASSUME NEW p, NEW pos \in Nat, NEW a \in Seq(Bytes), NEW b \in Seq(Bytes),
           Holds(p, pos, a \o b), Len(p.payload) \in Nat
    PROVE  Holds(p, pos, a) /\ Holds(p, pos + Len(a), b)
<1> DEFINE m == Len(a)
           k == Len(b)
           w == a \o b
           c == p.payload
<1>1. /\ m \in Nat /\ k \in Nat /\ Len(w) = m + k
      /\ \A i \in 1 .. m : w[i] = a[i]
      /\ \A i \in 1 .. k : w[m + i] = b[i]
    BY Concatenation
<1>2. pos + Len(w) <= Len(c) /\ \A j \in 1 .. Len(w) : c[pos + j] = w[j]
    BY DEF Holds
<1>3. Len(c) \in Nat
    OBVIOUS
<1> HIDE DEF m, k, w, c
<1>4. pos + m <= Len(c) /\ (pos + m) + k <= Len(c)
    BY <1>1, <1>2, <1>3
<1>5. ASSUME NEW j \in 1 .. m PROVE c[pos + j] = a[j]
  <2>1. j \in 1 .. Len(w)
    BY <1>1
  <2> QED
    BY <1>1, <1>2, <2>1
<1>6. ASSUME NEW j \in 1 .. k PROVE c[(pos + m) + j] = b[j]
  <2>1. m + j \in 1 .. Len(w) /\ pos + (m + j) = (pos + m) + j
    BY <1>1
  <2>2. c[pos + (m + j)] = w[m + j]
    BY <1>2, <2>1
  <2> QED
    BY <1>1, <2>1, <2>2
<1> QED
    BY <1>4, <1>5, <1>6 DEF Holds, m, k, c

(* A word is read as it is.                                                *)
LEMMA WordHeld ==
    ASSUME NEW p, NEW r, Within(p, r), NEW w \in Seq(Bytes), Len(w) = 4,
           Holds(p, r.payload_pos, w)
    PROVE  InBounds(p, r, 4) /\ Slice(p, r, 0, 4) = w
<1> DEFINE u == Slice(p, r, 0, 4)
           c == p.payload
           x == r.payload_pos
<1>1. InBounds(p, r, 4)
    BY DEF Holds, InBounds
<1>2. u \in Seq(Bytes) /\ Len(u) = 4 /\ \A i \in 1 .. 4 : u[i] = c[x + i]
    BY <1>1, WordFacts
<1>3. \A i \in 1 .. Len(w) : c[x + i] = w[i]
    BY DEF Holds
<1> HIDE DEF u, c, x
<1>4. \A i \in 1 .. Len(u) : u[i] = w[i]
    BY <1>2, <1>3
<1>5. Len(u) = Len(w)
    BY <1>2
<1>6. u \in Seq(Bytes)
    BY <1>2
<1>7. u = w
    BY <1>4, <1>5, <1>6, SameElements
<1> QED
    BY <1>1, <1>7 DEF u

(* An unsigned number comes back, ...                                      *)
LEMMA UintHeld ==
    ASSUME NEW p, NEW r, Within(p, r), NEW n \in 0 .. U32Max,
           Holds(p, r.payload_pos, ToBytes(n))
    PROVE  ReadUint(p, r) = Got(r, 4, n) /\ NextLen(p, r) = n
<1>1. n \in Int
    BY Sizes
<1>2. ToBytes(n) \in Seq(Bytes) /\ Len(ToBytes(n)) = 4
    BY <1>1, ToBytesFacts
<1>3. InBounds(p, r, 4) /\ Slice(p, r, 0, 4) = ToBytes(n)
    BY <1>2, WordHeld
<1>4. Unsigned(ToBytes(n)) = n
    BY UnsignedRecovered
<1> QED
    BY <1>3, <1>4 DEF ReadUint, ReadWord, NextLen

(* ... and a signed one.                                                   *)
LEMMA IntHeld ==
    ASSUME NEW p, NEW r, Within(p, r), NEW n \in Signeds,
           Holds(p, r.payload_pos, ToBytes(n))
    PROVE  ReadInt(p, r) = Got(r, 4, n)
<1>1. n \in Int
  <2>1. U32Max \div 2 \in Int
    BY Sizes
  <2> QED
    BY <2>1 DEF Signeds
<1>2. ToBytes(n) \in Seq(Bytes) /\ Len(ToBytes(n)) = 4
    BY <1>1, ToBytesFacts
<1>3. InBounds(p, r, 4) /\ Slice(p, r, 0, 4) = ToBytes(n)
    BY <1>2, WordHeld
<1>4. Signed(ToBytes(n)) = n
    BY SignedRecovered
<1> QED
    BY <1>3, <1>4 DEF ReadInt, ReadWord

(* A block after its length, whatever the padding.                         *)
LEMMA BlockHeld ==
    ASSUME NEW p, NEW r, Within(p, r), NEW t \in Seq(Bytes), Len(t) <= U32Max,
           NEW w \in Seq(Bytes), Len(w) = Extent(Len(t)),
           \A i \in 1 .. 4 : w[i] = ToBytes(Len(t))[i],
           \A i \in 1 .. Len(t) : w[4 + i] = t[i],
           Holds(p, r.payload_pos, w)
    PROVE  /\ ReadArray(p, r) = Got(r, Len(w), t) /\ NextLen(p, r) = Len(t)
<1> DEFINE n == Len(t)
           h == ToBytes(n)
           x == r.payload_pos
           c == p.payload
           u == Slice(p, r, 4, n)
<1>1. n \in Nat /\ n \in 0 .. U32Max /\ n \in Int
    BY Sizes
<1>2. h \in Seq(Bytes) /\ Len(h) = 4
    BY <1>1, ToBytesFacts
<1>3. /\ Extent(n) \in Nat /\ Extent(n) >= 4 + n /\ Len(w) = Extent(n)
    BY <1>1, ExtentFacts
<1>4. /\ x + Len(w) <= Len(c) /\ \A j \in 1 .. Len(w) : c[x + j] = w[j]
      /\ x \in Nat /\ Len(c) \in Nat
    BY DEF Holds, Within
<1>5. /\ \A i \in 1 .. 4 : w[i] = h[i]
      /\ \A i \in 1 .. n : w[4 + i] = t[i]
    OBVIOUS
<1>6. Holds(p, x, h)
  <2> HIDE DEF h, x, c, n
  <2>1. x + 4 <= Len(c)
    BY <1>1, <1>3, <1>4
  <2>2. \A j \in 1 .. 4 : j \in 1 .. Len(w)
    BY <1>1, <1>3
  <2>3. \A j \in 1 .. 4 : c[x + j] = h[j]
    BY <1>4, <1>5, <2>2
  <2> QED
    BY <1>2, <2>1, <2>3 DEF Holds, c
<1>7. NextLen(p, r) = n
    BY <1>1, <1>6, UintHeld
<1>8. InBounds(p, r, 4) /\ InBounds(p, r, Extent(n)) /\ InBounds(p, r, 4 + n)
  <2> HIDE DEF n, x, c, h
  <2>1. x + 4 <= Len(c) /\ x + Extent(n) <= Len(c) /\ x + (4 + n) <= Len(c)
    BY <1>1, <1>3, <1>4
  <2> QED
    BY <2>1 DEF InBounds, x, c
<1>9. NextExtent(p, r) = Extent(n)
    BY <1>7 DEF NextExtent, Extent
<1>10. ReadArray(p, r) = Got(r, Len(w), u)
    BY <1>3, <1>7, <1>8, <1>9 DEF ReadArray
<1>11. /\ u \in Seq(Bytes) /\ Len(u) = n
       /\ \A i \in 1 .. n : u[i] = c[x + 4 + i]
    BY <1>1, <1>8, SliceFacts
<1>12. u = t
  <2> HIDE DEF u, c, x, h
  <2>1. ASSUME NEW i \in 1 .. n PROVE u[i] = t[i]
    <3> HIDE DEF n
    <3>1. 4 + i \in 1 .. Len(w) /\ x + (4 + i) = x + 4 + i
      BY <1>1, <1>3, <1>4
    <3>2. c[x + (4 + i)] = w[4 + i]
      BY <1>4, <3>1
    <3> QED
      BY <1>5, <1>11, <3>1, <3>2
  <2>2. u \in Seq(Bytes) /\ t \in Seq(Bytes)
    BY <1>11
  <2>3. Len(u) = Len(t) /\ \A i \in 1 .. Len(u) : u[i] = t[i]
    BY <1>11, <2>1
  <2> QED
    BY <2>2, <2>3, SameElements
<1> QED
    BY <1>7, <1>10, <1>12

(* An array comes back.                                                    *)
LEMMA ArrayHeld ==
    ASSUME NEW p, NEW r, Within(p, r), NEW a \in Seq(Bytes), Len(a) <= U32Max,
           Holds(p, r.payload_pos, ArrayBytes(a))
    PROVE  ReadArray(p, r) = Got(r, Len(ArrayBytes(a)), a)
    BY ArrayBytesFacts, BlockHeld

(* A reader that took n bytes of the payload, which mean v.                *)
Took(r, x, n, v) ==
    /\ x.error = "none" /\ x.value = v
    /\ x.payload_pos = r.payload_pos + n /\ x.fd_pos = r.fd_pos

(* What a successful read leaves.                                          *)
LEMMA GotTook ==
    ASSUME NEW r, IsReader(r), r.error = "none", NEW n, NEW v
    PROVE  Took(r, Got(r, n, v), n, v)
    BY GotFields DEF Took

(* Where the only NUL of a terminated string is.                           *)
LEMMA OnlyNul ==
    ASSUME NEW s \in Seq(1 .. Byte - 2)
    PROVE  LET t == Terminated(s) IN
           /\ t \in Seq(Bytes) /\ ~Underflows(t)
           /\ { i \in DOMAIN t : t[i] = 0 } = {Len(t)}
           /\ ~ \E i \in DOMAIN t : t[i] = Byte - 1
           /\ SubSeq(t, 1, Len(t) - 1) = s
<1> DEFINE t == Terminated(s)
           n == Len(s)
           u == SubSeq(t, 1, n)
<1>1. s \in Seq(Bytes) /\ n \in Nat
    BY TextFacts
<1>2. \A i \in 1 .. n : s[i] # 0 /\ s[i] # Byte - 1
    BY TextFacts
<1>3. /\ t \in Seq(Bytes) /\ Len(t) = n + 1 /\ t[n + 1] = 0
      /\ \A i \in 1 .. n : t[i] = s[i]
    BY <1>1, TerminatedFacts
<1> HIDE DEF t, n
<1>4. DOMAIN t = 1 .. n + 1
    BY <1>3
<1>5. 0 # Byte - 1
    BY Sizes
<1>6. \A i \in 1 .. n + 1 : i \in 1 .. n \/ i = n + 1
    BY <1>1
<1>7. \A i \in 1 .. n : t[i] # 0 /\ t[i] # Byte - 1
    BY <1>2, <1>3
<1>8. n + 1 \in 1 .. n + 1 /\ n + 1 \notin 1 .. n
    BY <1>1
<1>9. { i \in DOMAIN t : t[i] = 0 } = {Len(t)}
    BY <1>3, <1>4, <1>6, <1>7, <1>8
<1>10. ~ \E i \in DOMAIN t : t[i] = Byte - 1
    BY <1>3, <1>4, <1>5, <1>6, <1>7
<1>11. t # <<>>
    BY <1>3, <1>1
<1>12. Len(t) - 1 = n
    BY <1>1, <1>3
<1>13. u = s
  <2>1. 0 + n <= Len(t) /\ 0 \in Nat
    BY <1>1, <1>3
  <2>2. /\ SubSeq(t, 0 + 1, 0 + n) \in Seq(Bytes)
        /\ Len(SubSeq(t, 0 + 1, 0 + n)) = n
        /\ \A i \in 1 .. n : SubSeq(t, 0 + 1, 0 + n)[i] = t[0 + i]
    BY <1>1, <1>3, <2>1, Part
  <2>3. 0 + 1 = 1 /\ 0 + n = n /\ \A i \in 1 .. n : 0 + i = i
    BY <1>1
  <2>4. u \in Seq(Bytes) /\ Len(u) = n /\ \A i \in 1 .. n : u[i] = t[i]
    BY <2>2, <2>3
  <2> HIDE DEF u
  <2>5. Len(u) = Len(s) /\ \A i \in 1 .. Len(u) : u[i] = s[i]
    BY <1>3, <2>4 DEF n
  <2>6. u \in Seq(Bytes)
    BY <2>4
  <2> QED
    BY <1>1, <2>5, <2>6, SameElements
<1> QED
    BY <1>3, <1>9, <1>10, <1>11, <1>12, <1>13 DEF t, Underflows

(* A string comes back.                                                    *)
LEMMA StrHeld ==
    ASSUME NEW p, NEW r, Within(p, r), r.error = "none",
           NEW s \in Seq(1 .. Byte - 2), Len(s) + 1 <= U32Max,
           Holds(p, r.payload_pos, StrBytes(s))
    PROVE  Took(r, ReadStr(p, r), Len(StrBytes(s)), s)
<1> DEFINE t == Terminated(s)
           w == StrBytes(s)
           a == Got(r, Len(w), t)
<1>1. s \in Seq(Bytes) /\ Len(s) \in Nat
    BY TextFacts
<1>2. /\ t \in Seq(Bytes) /\ ~Underflows(t)
      /\ { i \in DOMAIN t : t[i] = 0 } = {Len(t)}
      /\ ~ \E i \in DOMAIN t : t[i] = Byte - 1
      /\ SubSeq(t, 1, Len(t) - 1) = s
    BY OnlyNul
<1>3. Len(t) = Len(s) + 1
    BY <1>1, TerminatedFacts
<1>4. /\ w \in Seq(Bytes) /\ Len(w) = Extent(Len(t))
      /\ \A i \in 1 .. 4 : w[i] = ToBytes(Len(t))[i]
      /\ \A i \in 1 .. Len(t) : w[4 + i] = t[i]
    BY <1>1, <1>3, StrBytesFacts
<1>5. Holds(p, r.payload_pos, w)
    OBVIOUS
<1> HIDE DEF t, w
<1>6. ReadArray(p, r) = a
  <2>1. t \in Seq(Bytes) /\ Len(t) <= U32Max
    BY <1>2, <1>3
  <2> QED
    BY <1>4, <1>5, <2>1, BlockHeld
<1>7. IsReader(r)
    BY DEF Within
<1>8. /\ IsReader(a) /\ a.value = t /\ a.error = "none" /\ a.fd_pos = r.fd_pos
      /\ a.payload_pos = r.payload_pos + Len(w)
    BY <1>7, GotFields
<1> HIDE DEF a
<1>9. ReadStr(p, r) = Yield(a, s)
    BY <1>2, <1>6, <1>8 DEF ReadStr
<1> QED
    BY <1>8, <1>9, YieldFields DEF Took, w

(* What stands for a string left out underflows.                           *)
LEMMA NoStringHeld ==
    ASSUME NEW p, NEW r, Within(p, r), r.error = "none",
           Holds(p, r.payload_pos, ToBytes(0))
    PROVE  ReadStr(p, r).error = "underflow"
<1> DEFINE w == ToBytes(0)
           t == << >>
           a == Got(r, Len(w), t)
<1>1. t \in Seq(Bytes) /\ Len(t) = 0 /\ 0 <= U32Max
    BY Sizes
<1>2. w \in Seq(Bytes) /\ Len(w) = 4
    BY ToBytesFacts
<1>3. Extent(0) = 4
    BY DEF Extent, Realign
<1>4. Holds(p, r.payload_pos, w)
    OBVIOUS
<1>5. \A i \in 1 .. 4 : w[i] = ToBytes(0)[i]
    OBVIOUS
<1> HIDE DEF w, t
<1>6. /\ Len(w) = Extent(Len(t)) /\ \A i \in 1 .. Len(t) : w[4 + i] = t[i]
      /\ \A i \in 1 .. 4 : w[i] = ToBytes(Len(t))[i]
    BY <1>1, <1>2, <1>3, <1>5
<1>7. ReadArray(p, r) = a
  <2>1. Len(t) <= U32Max /\ t \in Seq(Bytes) /\ w \in Seq(Bytes)
    BY <1>1, <1>2
  <2> QED
    BY <2>1, <1>4, <1>6, BlockHeld
<1>8. IsReader(r)
    BY DEF Within
<1>9. a.value = t /\ a.error = "none"
    BY <1>8, GotFields
<1> HIDE DEF a
<1>10. Underflows(a.value)
    BY <1>9 DEF Underflows, t
<1>11. ReadStr(p, r) = Fail(r, "underflow")
    BY <1>7, <1>9, <1>10 DEF ReadStr
<1> QED
    BY <1>8, <1>11, FailFields

(* An object id comes back.                                                *)
LEMMA NewIdHeld ==
    ASSUME NEW p, NEW r, Within(p, r), r.error = "none", NEW n \in 1 .. U32Max,
           Holds(p, r.payload_pos, ToBytes(n))
    PROVE  Took(r, ReadNewId(p, r), 4, n)
<1>1. n \in 0 .. U32Max /\ n # 0
    BY Sizes
<1>2. ReadUint(p, r) = Got(r, 4, n)
    BY <1>1, UintHeld
<1>3. IsReader(r)
    BY DEF Within
<1>4. Took(r, Got(r, 4, n), 4, n)
    BY <1>3, GotTook
<1>5. ReadNewId(p, r) = Got(r, 4, n)
    BY <1>1, <1>2, <1>4 DEF ReadNewId, Took
<1> QED
    BY <1>4, <1>5

(* What is in a packet that can be sent is short enough for its length to  *)
(* be given.                                                               *)
LEMMA Fits ==
    ASSUME NEW p, Len(p.payload) \in Nat, Len(p.payload) <= U16Max,
           NEW pos \in Nat, NEW n \in Nat, NEW w, Len(w) = Extent(n),
           Holds(p, pos, w)
    PROVE  n <= U32Max
<1> DEFINE l == Len(p.payload)
           e == Extent(n)
           c == U32Max
           d == U16Max
<1>1. pos + e <= l
    BY DEF Holds
<1>2. e \in Nat /\ e >= 4 + n
    BY ExtentFacts
<1>3. l \in Nat /\ l <= d
    OBVIOUS
<1>4. d \in Nat /\ c \in Nat /\ d <= c
  <2> DEFINE s == Byte * Byte
  <2>1. U16Max = s - 1 /\ U32Max = s * s - 1 /\ s \in Nat /\ s > 0 /\ s * s \in Nat
    BY Sizes
  <2> HIDE DEF s
  <2>2. s <= s * s
    BY <2>1
  <2> QED
    BY <2>1, <2>2
<1> HIDE DEF l, e, c, d
<1>5. n <= c
    BY <1>1, <1>2, <1>3, <1>4
<1> QED
    BY <1>5 DEF c

(* A file descriptor comes back.                                           *)
LEMMA FdHeld ==
    ASSUME NEW p, NEW r, Within(p, r), r.error = "none",
           r.fd_pos + 1 <= Len(p.fds)
    PROVE  LET x == ReadFd(p, r) IN
           /\ x.error = "none" /\ x.value = p.fds[r.fd_pos + 1]
           /\ x.payload_pos = r.payload_pos /\ x.fd_pos = r.fd_pos + 1
<1> DEFINE m == r.fd_pos + 1
           x == [r EXCEPT !.fd_pos = m]
           v == p.fds[m]
<1>1. r.fd_pos \in Nat /\ Len(p.fds) \in Nat
    BY DEF Within
<1>2. r.fd_pos < Len(p.fds)
    BY <1>1
<1>3. ReadFd(p, r) = Yield(x, v)
    BY <1>2 DEF ReadFd
<1> HIDE DEF m, v
<1>4. PICK a, b, c, d : r = [payload_pos |-> a, fd_pos |-> b, value |-> c,
                             error |-> d]
    BY DEF Within, IsReader
<1>5. x = [payload_pos |-> a, fd_pos |-> m, value |-> c, error |-> d]
    BY <1>4
<1> HIDE DEF x
<1>6. /\ IsReader(x) /\ x.payload_pos = r.payload_pos /\ x.fd_pos = m
      /\ x.error = "none"
    BY <1>4, <1>5 DEF IsReader
<1> QED
    BY <1>3, <1>6, YieldFields DEF m, v

(* A new object comes back.                                                *)
LEMMA ObjectHeld ==
    ASSUME NEW p, NEW r, Within(p, r), r.error = "none",
           Len(p.payload) <= U16Max, NEW o \in Given("new_object"),
           Holds(p, r.payload_pos, ObjectBytes(o))
    PROVE  Took(r, ReadNewObject(p, r), Len(ObjectBytes(o)), o)
<1> DEFINE s == o.interface
           n == o.version
           i == o.object_id
           a == StrBytes(s)
           b == ToBytes(n)
           c == ToBytes(i)
           x == r.payload_pos
           r1 == ReadStr(p, r)
           r2 == ReadUint(p, r1)
           r3 == ReadNewId(p, r2)
<1>1. /\ s \in Seq(1 .. Byte - 2) /\ n \in 0 .. U32Max /\ i \in 1 .. U32Max
      /\ o = [interface |-> s, version |-> n, object_id |-> i]
    BY DEF Given, Arguments
<1>2. n \in Int /\ i \in Int
    BY <1>1, Sizes
<1>3. ReadNewObject(p, r) =
          IF r1.error # "none" THEN r1 ELSE IF r2.error # "none" THEN r2
          ELSE IF r3.error # "none" THEN r3
          ELSE Yield(r3, [interface |-> r1.value, version |-> r2.value,
                          object_id |-> r3.value])
    BY DEF ReadNewObject
<1>4. ObjectBytes(o) = (a \o b) \o c
    BY DEF ObjectBytes
<1>5. x \in Nat /\ Len(p.payload) \in Nat
    BY DEF Within
<1> HIDE DEF s, n, i
<1>6. s \in Seq(Bytes) /\ Len(s) + 1 \in Nat
    BY <1>1, TextFacts
<1>7. a \in Seq(Bytes) /\ Len(a) = Extent(Len(s) + 1) /\ Len(a) \in Nat
    BY <1>6, StrBytesFacts
<1>8. /\ b \in Seq(Bytes) /\ Len(b) = 4 /\ c \in Seq(Bytes) /\ Len(c) = 4
    BY <1>2, ToBytesFacts
<1> HIDE DEF a
<1>9. a \o b \in Seq(Bytes) /\ Len(a \o b) = Len(a) + 4
      /\ Len((a \o b) \o c) = Len(a) + 4 + 4
  <2> HIDE DEF b, c
  <2>1. a \o b \in Seq(Bytes) /\ Len(a \o b) = Len(a) + Len(b)
    BY <1>7, <1>8, Concatenation
  <2> DEFINE d == a \o b
  <2> HIDE DEF d
  <2>2. Len(d \o c) = Len(d) + Len(c)
    BY <1>8, <2>1, Concatenation DEF d
  <2> QED
    BY <1>8, <2>1, <2>2 DEF d
<1>10. Holds(p, x, a) /\ Holds(p, x + Len(a), b) /\ Holds(p, x + (Len(a) + 4), c)
  <2> HIDE DEF b, c
  <2> DEFINE d == a \o b
  <2>1. d \in Seq(Bytes) /\ Holds(p, x, d \o c) /\ Len(d) = Len(a) + 4
    BY <1>4, <1>9
  <2> HIDE DEF d, x
  <2>2. Holds(p, x, d) /\ Holds(p, x + Len(d), c)
    BY <1>5, <1>8, <2>1, HoldsParts
  <2>3. Holds(p, x, a \o b)
    BY <2>2 DEF d
  <2>4. Holds(p, x, a) /\ Holds(p, x + Len(a), b)
    BY <1>5, <1>7, <1>8, <2>3, HoldsParts
  <2> QED
    BY <2>1, <2>2, <2>4
<1>11. Len(s) + 1 <= U32Max
    BY <1>5, <1>6, <1>7, <1>10, Fits
<1>12. Took(r, r1, Len(a), s)
    BY <1>1, <1>10, <1>11, StrHeld DEF a
<1>13. Within(p, r1) /\ r1.error = "none"
    BY <1>12, ReadStrFacts DEF Reads, Took
<1> HIDE DEF b, c, r1
<1>14. r1.payload_pos = x + Len(a) /\ r1.fd_pos = r.fd_pos /\ r1.value = s
    BY <1>12 DEF Took
<1>15. r2 = Got(r1, 4, n)
    BY <1>1, <1>10, <1>13, <1>14, UintHeld DEF b
<1>16. /\ r2.error = "none" /\ r2.value = n /\ r2.fd_pos = r1.fd_pos
       /\ r2.payload_pos = r1.payload_pos + 4
    BY <1>13, <1>15, GotFields DEF Within
<1>17. Within(p, r2)
    BY <1>13, ReadUintFacts DEF Reads
<1> HIDE DEF r2
<1>18. r2.payload_pos = x + (Len(a) + 4)
    BY <1>5, <1>7, <1>14, <1>16
<1>19. Took(r2, r3, 4, i)
    BY <1>1, <1>10, <1>16, <1>17, <1>18, NewIdHeld DEF c
<1>20. IsReader(r3)
    BY <1>16, <1>17, ReadNewIdFacts DEF Reads, Within
<1> HIDE DEF r3
<1>21. /\ r3.error = "none" /\ r3.value = i /\ r3.fd_pos = r2.fd_pos
       /\ r3.payload_pos = r2.payload_pos + 4
    BY <1>19 DEF Took
<1>22. ReadNewObject(p, r) = Yield(r3, o)
    BY <1>1, <1>3, <1>13, <1>14, <1>16, <1>21
<1>23. /\ ReadNewObject(p, r).error = "none" /\ ReadNewObject(p, r).value = o
       /\ ReadNewObject(p, r).payload_pos = r3.payload_pos
       /\ ReadNewObject(p, r).fd_pos = r3.fd_pos
    BY <1>20, <1>21, <1>22, YieldFields
<1>24. r3.payload_pos = x + Len(ObjectBytes(o)) /\ r3.fd_pos = r.fd_pos
  <2>1. Len(ObjectBytes(o)) = Len(a) + 4 + 4
    BY <1>4, <1>9
  <2>2. r3.payload_pos = x + Len(ObjectBytes(o))
    <3> DEFINE l == Len(a)
               k == Len(ObjectBytes(o))
    <3>1. l \in Nat /\ k = l + 4 + 4 /\ x \in Nat
      BY <1>5, <1>7, <2>1
    <3>2. r3.payload_pos = x + (l + 4) + 4
      BY <1>18, <1>21
    <3> HIDE DEF l, k, x
    <3> QED
      BY <3>1, <3>2 DEF k, x
  <2>3. r3.fd_pos = r.fd_pos
    BY <1>14, <1>16, <1>21
  <2> QED
    BY <2>2, <2>3
<1> QED
    BY <1>23, <1>24 DEF Took

(* What a reader yields for an argument: of a number with fraction, its    *)
(* inner form.                                                             *)
Image(kind, v) == IF kind = "fixed" THEN v * Byte ELSE v

(* No whole number that can be written loses its top byte.                 *)
LEMMA FixedImage ==
    ASSUME NEW v \in Given("fixed")
    PROVE  /\ v \in Int /\ v * Byte \in Signeds /\ FixedTryFrom(v) = v * Byte
           /\ FixedTryInto(v * Byte) = v
<1>1. v \in Int /\ v * Byte \in Signeds
    BY DEF Given, Arguments, Signeds
<1>2. FixedTryFrom(v) = v * Byte
  <2> DEFINE n == v * Byte
  <2>1. n \in Signeds
    BY <1>1
  <2> HIDE DEF n
  <2>2. Signed(ToBytes(n)) = n
    BY <2>1, SignedRecovered
  <2> QED
    BY <2>2 DEF n, FixedTryFrom
<1>3. (v * Byte) \div Byte = v
  <2>1. Byte \in Nat \ {0} /\ 0 \in 0 .. Byte - 1
    BY Sizes
  <2>2. (Byte * v + 0) \div Byte = v
    BY <1>1, <2>1, DivModUnique
  <2>3. Byte * v + 0 = v * Byte
    BY <1>1, <2>1
  <2> QED
    BY <2>2, <2>3
<1> QED
    BY <1>1, <1>2, <1>3 DEF FixedTryInto

(* What reading an argument that is in the packet results in.              *)
Back(r, x, kind, v) ==
    IF kind = "string" /\ v = NoString THEN x.error = "underflow"
    ELSE /\ x.error = "none" /\ x.value = Image(kind, v)
         /\ x.payload_pos = r.payload_pos + Len(Written(kind, v))
         /\ x.fd_pos = r.fd_pos + Fds(kind)

(* Whatever its kind, an argument that was written is read back.           *)
LEMMA ReadBack ==
    ASSUME NEW p, NEW r, Within(p, r), r.error = "none",
           Len(p.payload) <= U16Max, NEW kind \in Kinds, NEW v \in Given(kind),
           At(p, r.payload_pos, r.fd_pos, kind, v)
    PROVE  Back(r, ReadArg(p, r, kind), kind, v)
<1> DEFINE x == ReadArg(p, r, kind)
           w == Written(kind, v)
<1>1. Holds(p, r.payload_pos, w)
    BY DEF At
<1>2. r.payload_pos \in Nat /\ r.fd_pos \in Nat /\ Len(p.payload) \in Nat
    BY DEF Within
<1>3. r.payload_pos + 0 = r.payload_pos /\ r.fd_pos + 0 = r.fd_pos
    BY <1>2
<1>4. ASSUME NEW n, Took(r, x, Len(w), n), kind # "fd", n = Image(kind, v),
             ~ (kind = "string" /\ v = NoString)
      PROVE  Back(r, x, kind, v)
    BY <1>3, <1>4 DEF Took, Back, Fds
<1>5. CASE kind = "string"
  <2>1. x = ReadStr(p, r)
    BY <1>5 DEF ReadArg
  <2>2. CASE v = NoString
    <3>1. w = ToBytes(0)
      BY <1>5, <2>2 DEF Written
    <3>2. ReadStr(p, r).error = "underflow"
      BY <1>1, <3>1, NoStringHeld
    <3> QED
      BY <1>5, <2>1, <2>2, <3>2 DEF Back
  <2>3. CASE v # NoString
    <3>1. w = StrBytes(v) /\ v \in Seq(1 .. Byte - 2)
      BY <1>5, <2>3 DEF Written, Given, Arguments
    <3>2. v \in Seq(Bytes) /\ Len(v) + 1 \in Nat
      BY <3>1, TextFacts
    <3>3. Len(w) = Extent(Len(v) + 1)
      BY <3>1, <3>2, StrBytesFacts
    <3>4. Len(v) + 1 <= U32Max
      BY <1>1, <1>2, <3>2, <3>3, Fits
    <3>5. Took(r, x, Len(w), v)
      BY <1>1, <2>1, <3>1, <3>4, StrHeld
    <3> QED
      BY <1>4, <1>5, <2>3, <3>5 DEF Image
  <2> QED
    BY <2>2, <2>3
<1>6. CASE kind = "array"
  <2>1. x = ReadArray(p, r) /\ w = ArrayBytes(v)
    BY <1>6 DEF ReadArg, Written
  <2>2. v \in Seq(Bytes) /\ Len(v) \in Nat
    BY <1>6 DEF Given, Arguments, Bytes
  <2>3. Len(w) = Extent(Len(v))
    BY <2>1, <2>2, ArrayBytesFacts
  <2>4. Len(v) <= U32Max
    BY <1>1, <1>2, <2>2, <2>3, Fits
  <2>5. x = Got(r, Len(w), v)
    BY <1>1, <2>1, <2>2, <2>4, ArrayHeld
  <2>6. Took(r, x, Len(w), v)
    BY <2>5, GotTook DEF Within
  <2> QED
    BY <1>4, <1>6, <2>6 DEF Image
<1>7. CASE kind = "new_object"
  <2>1. x = ReadNewObject(p, r) /\ w = ObjectBytes(v)
    BY <1>7 DEF ReadArg, Written
  <2>2. v \in Given("new_object")
    BY <1>7
  <2>3. Took(r, x, Len(w), v)
    BY <1>1, <2>1, <2>2, ObjectHeld
  <2> QED
    BY <1>4, <1>7, <2>3 DEF Image
<1>8. CASE kind = "fd"
  <2>1. x = ReadFd(p, r) /\ w = <<>>
    BY <1>8 DEF ReadArg, Written
  <2>2. r.fd_pos + 1 <= Len(p.fds) /\ p.fds[r.fd_pos + 1] = v
    BY <1>8 DEF At
  <2>3. /\ x.error = "none" /\ x.value = v /\ x.payload_pos = r.payload_pos
        /\ x.fd_pos = r.fd_pos + 1
    BY <2>1, <2>2, FdHeld
  <2>4. Len(w) = 0
    BY <2>1
  <2> HIDE DEF x, w
  <2>5. Fds(kind) = 1 /\ Image(kind, v) = v /\ kind # "string"
    BY <1>8 DEF Fds, Image
  <2>6. x.payload_pos = r.payload_pos + Len(w)
    BY <1>3, <2>3, <2>4
  <2>7. x.fd_pos = r.fd_pos + Fds(kind) /\ x.value = Image(kind, v)
    BY <2>3, <2>5
  <2>8. x.payload_pos = r.payload_pos + Len(Written(kind, v))
    BY <2>6 DEF w
  <2> QED
    BY <2>3, <2>5, <2>7, <2>8 DEF Back, x
<1>9. CASE kind = "fixed"
  <2> DEFINE n == v * Byte
  <2>1. v \in Given("fixed")
    BY <1>9
  <2>2. n \in Signeds /\ FixedTryFrom(v) = n
    BY <2>1, FixedImage
  <2>3. x = ReadInt(p, r) /\ w = ToBytes(n)
    BY <1>9, <2>2 DEF ReadArg, Written
  <2>4. n \in Int
    BY <2>1, FixedImage, Sizes
  <2> HIDE DEF n
  <2>5. x = Got(r, 4, n)
    BY <1>1, <2>2, <2>3, IntHeld
  <2>6. Len(w) = 4
    BY <2>3, <2>4, ToBytesFacts
  <2>7. Took(r, x, Len(w), n)
    BY <2>5, <2>6, GotTook DEF Within
  <2> QED
    BY <1>4, <1>9, <2>7 DEF Image, n
<1>10. CASE kind = "int"
  <2>1. v \in Signeds /\ v \in Int
    BY <1>10, Sizes DEF Given, Arguments, Signeds
  <2>2. x = ReadInt(p, r) /\ w = ToBytes(v)
    BY <1>10 DEF ReadArg, Written
  <2>3. x = Got(r, 4, v)
    BY <1>1, <2>1, <2>2, IntHeld
  <2>4. Len(w) = 4
    BY <2>1, <2>2, ToBytesFacts
  <2>5. Took(r, x, Len(w), v)
    BY <2>3, <2>4, GotTook DEF Within
  <2> QED
    BY <1>4, <1>10, <2>5 DEF Image
<1>11. CASE kind \in {"uint", "object"}
  <2>1. v \in 0 .. U32Max
    BY <1>11 DEF Given, Arguments
  <2>2. x = ReadUint(p, r) /\ w = ToBytes(v)
    BY <1>11 DEF ReadArg, Written
  <2>3. x = Got(r, 4, v)
    BY <1>1, <2>1, <2>2, UintHeld
  <2>4. v \in Int
    BY <2>1, Sizes
  <2>5. Len(w) = 4
    BY <2>2, <2>4, ToBytesFacts
  <2>6. Took(r, x, Len(w), v)
    BY <2>3, <2>5, GotTook DEF Within
  <2> QED
    BY <1>4, <1>11, <2>6 DEF Image
<1>12. CASE kind = "new_id"
  <2>1. v \in 1 .. U32Max
    BY <1>12 DEF Given, Arguments
  <2>2. x = ReadNewId(p, r) /\ w = ToBytes(v)
    BY <1>12 DEF ReadArg, Written
  <2>3. v \in Int
    BY <2>1, Sizes
  <2>4. Len(w) = 4
    BY <2>2, <2>3, ToBytesFacts
  <2>5. Took(r, x, Len(w), v)
    BY <1>1, <2>1, <2>2, <2>4, NewIdHeld
  <2> QED
    BY <1>4, <1>12, <2>5 DEF Image
<1> QED
    BY <1>5, <1>6, <1>7, <1>8, <1>9, <1>10, <1>11, <1>12 DEF Kinds, ArgTypes

(* Some of the arguments of a packet.                                      *)
Fitting(args, vals) ==
    /\ args \in Seq(Kinds) /\ vals \in Seq(Args) /\ Len(vals) <= Len(args)
    /\ \A i \in 1 .. Len(vals) : vals[i] \in Given(args[i])

(* A packet without arguments.                                             *)
LEMMA LaidNone ==
    ASSUME NEW p, p.payload = <<>>, p.fds = <<>>, NEW args
    PROVE  Laid(p, args, <<>>, 0, 0, 0)
<1> DEFINE off == [i \in 0 .. 0 |-> 0]
<1>1. /\ off \in [0 .. 0 -> 0 .. 0] /\ off[0] = 0
      /\ Len(<<>>) = 0 /\ \A i \in 1 .. 0 : FALSE
    OBVIOUS
<1> HIDE DEF off
<1>2. Ends(p, args, <<>>, off, off)
    BY <1>1 DEF Ends
<1> QED
    BY <1>1, <1>2 DEF Laid

(* The argument to be read next is where the reader is, ...                *)
LEMMA LaidNext ==
    ASSUME NEW p, NEW args, NEW vals, Len(vals) \in Nat, NEW n \in Nat,
           n + 1 <= Len(vals), NEW pos, NEW fd,
           Laid(p, args, vals, n, pos, fd)
    PROVE  /\ At(p, pos, fd, args[n + 1], vals[n + 1])
           /\ Laid(p, args, vals, n + 1,
                   pos + Len(Written(args[n + 1], vals[n + 1])),
                   fd + Fds(args[n + 1]))
<1>1. PICK off, foff : /\ Ends(p, args, vals, off, foff)
                       /\ pos = off[n] /\ fd = foff[n]
    BY DEF Laid
<1>2. n + 1 \in 1 .. Len(vals) /\ (n + 1) - 1 = n
    OBVIOUS
<1>3. /\ At(p, off[(n + 1) - 1], foff[(n + 1) - 1], args[n + 1], vals[n + 1])
      /\ off[n + 1] = off[(n + 1) - 1] + Len(Written(args[n + 1], vals[n + 1]))
      /\ foff[n + 1] = foff[(n + 1) - 1] + Fds(args[n + 1])
    BY <1>1, <1>2 DEF Ends
<1> QED
    BY <1>1, <1>2, <1>3 DEF Laid

(* ... and after the last there is no more.                                *)
LEMMA LaidEnd ==
    ASSUME NEW p, NEW args, NEW vals, NEW pos, NEW fd,
           Laid(p, args, vals, Len(vals), pos, fd)
    PROVE  pos = Len(p.payload) /\ fd = Len(p.fds)
    BY DEF Laid, Ends

(* They are in a packet of the same contents, too.                         *)
LEMMA LaidSame ==
    ASSUME NEW p, NEW q, q.payload = p.payload, q.fds = p.fds, NEW args,
           NEW vals, NEW n, NEW pos, NEW fd, Laid(p, args, vals, n, pos, fd)
    PROVE  Laid(q, args, vals, n, pos, fd)
<1>1. PICK off, foff : /\ Ends(p, args, vals, off, foff)
                       /\ pos = off[n] /\ fd = foff[n]
    BY DEF Laid
<1>2. ASSUME NEW x, NEW f, NEW kind, NEW v, At(p, x, f, kind, v)
      PROVE  At(q, x, f, kind, v)
    BY <1>2 DEF At, Holds
<1>3. Ends(q, args, vals, off, foff)
    BY <1>1, <1>2 DEF Ends
<1> QED
    BY <1>1, <1>3 DEF Laid

(* Pushing an argument lays it after the others.                           *)
LEMMA LaidMore ==
    ASSUME NEW p, p.payload \in Seq(Bytes), p.fds \in Seq(0 .. U32Max),
           NEW args, NEW vals, Fitting(args, vals),
           NEW kind \in Kinds, NEW v \in Given(kind), NEW q,
           args[Len(vals) + 1] = kind,
           q.payload = p.payload \o Written(kind, v),
           q.fds = IF kind = "fd" THEN Append(p.fds, v) ELSE p.fds,
           Laid(p, args, vals, 0, 0, 0)
    PROVE  Laid(q, args, Append(vals, v), 0, 0, 0)
<1>1. PICK off, foff : Ends(p, args, vals, off, foff)
    BY DEF Laid
<1> DEFINE n == Len(vals)
           w == Written(kind, v)
           b == p.payload
           c == q.payload
           f == p.fds
           g == q.fds
           more == Append(vals, v)
           new == [i \in 0 .. n + 1 |-> IF i = n + 1 THEN Len(c) ELSE off[i]]
           fnew == [i \in 0 .. n + 1 |-> IF i = n + 1 THEN Len(g) ELSE foff[i]]
<1>2. n \in Nat /\ vals \in Seq(Args) /\ v \in Args
    BY DEF Fitting, Args
<1>3. /\ more \in Seq(Args) /\ Len(more) = n + 1 /\ more[n + 1] = v
      /\ \A i \in 1 .. n : more[i] = vals[i]
    BY <1>2, Appended
<1>4. w \in Seq(Bytes)
    BY WrittenFacts
<1>5. /\ Len(b) \in Nat /\ Len(w) \in Nat /\ Len(c) = Len(b) + Len(w)
      /\ \A i \in 1 .. Len(w) : c[Len(b) + i] = w[i]
    BY <1>4, Concatenation
<1>6. kind = "fd" => v \in 0 .. U32Max
    BY DEF Given, Arguments
<1>7. /\ Len(f) \in Nat /\ Len(g) = Len(f) + Fds(kind) /\ Fds(kind) \in {0, 1}
      /\ kind = "fd" => g[Len(f) + 1] = v
  <2>1. CASE kind = "fd"
    <3>1. g = Append(f, v) /\ f \in Seq(0 .. U32Max) /\ v \in 0 .. U32Max
      BY <1>6, <2>1
    <3> HIDE DEF f, g
    <3> QED
      BY <2>1, <3>1, Appended DEF Fds
  <2>2. CASE kind # "fd"
    BY <2>2 DEF Fds
  <2> QED
    BY <2>1, <2>2
<1>8. \A pos, fd \in Nat, i \in 1 .. n :
          At(p, pos, fd, args[i], vals[i]) => At(q, pos, fd, args[i], vals[i])
  <2> SUFFICES ASSUME NEW pos \in Nat, NEW fd \in Nat, NEW i \in 1 .. n,
                      At(p, pos, fd, args[i], vals[i])
               PROVE  At(q, pos, fd, args[i], vals[i])
    OBVIOUS
  <2>1. args[i] \in Kinds /\ vals[i] \in Given(args[i])
    BY <1>2 DEF Fitting
  <2>2. Written(args[i], vals[i]) \in Seq(Bytes)
    BY <2>1, WrittenFacts
  <2>3. PICK h \in 0 .. U32Max : q.fds \in {p.fds, Append(p.fds, h)}
    <3>1. 0 \in 0 .. U32Max
      BY Sizes
    <3> QED
      BY <1>6, <3>1
  <2> QED
    BY <1>4, <2>2, <2>3, Stays
<1>9. /\ off \in [0 .. n -> 0 .. Len(b)] /\ off[0] = 0 /\ off[n] = Len(b)
      /\ foff \in [0 .. n -> 0 .. Len(f)] /\ foff[0] = 0 /\ foff[n] = Len(f)
    BY <1>1 DEF Ends
<1>10. \A i \in 1 .. n :
          /\ At(p, off[i - 1], foff[i - 1], args[i], vals[i])
          /\ off[i] = off[i - 1] + Len(Written(args[i], vals[i]))
          /\ foff[i] = foff[i - 1] + Fds(args[i])
    BY <1>1 DEF Ends
<1> HIDE DEF n, w, b, c, f, g, more
<1>11. /\ new \in [0 .. n + 1 -> 0 .. Len(c)] /\ new[n + 1] = Len(c)
       /\ \A i \in 0 .. n : new[i] = off[i]
  <2>1. n + 1 \in 0 .. n + 1 /\ \A i \in 0 .. n : i \in 0 .. n + 1 /\ i # n + 1
    BY <1>2
  <2>2. ASSUME NEW i \in 0 .. n + 1
        PROVE  (IF i = n + 1 THEN Len(c) ELSE off[i]) \in 0 .. Len(c)
    <3>1. CASE i = n + 1
      BY <1>5, <3>1
    <3>2. CASE i # n + 1
      <4>1. i \in 0 .. n
        BY <1>2, <3>2
      <4>2. off[i] \in 0 .. Len(b)
        BY <1>9, <4>1
      <4> QED
        BY <1>5, <3>2, <4>2
    <3> QED
      BY <3>1, <3>2
  <2> QED
    BY <2>1, <2>2
<1>12. /\ fnew \in [0 .. n + 1 -> 0 .. Len(g)] /\ fnew[n + 1] = Len(g)
       /\ \A i \in 0 .. n : fnew[i] = foff[i]
  <2>1. n + 1 \in 0 .. n + 1 /\ \A i \in 0 .. n : i \in 0 .. n + 1 /\ i # n + 1
    BY <1>2
  <2>2. ASSUME NEW i \in 0 .. n + 1
        PROVE  (IF i = n + 1 THEN Len(g) ELSE foff[i]) \in 0 .. Len(g)
    <3>1. CASE i = n + 1
      BY <1>7, <3>1
    <3>2. CASE i # n + 1
      <4>1. i \in 0 .. n
        BY <1>2, <3>2
      <4>2. foff[i] \in 0 .. Len(f)
        BY <1>9, <4>1
      <4> QED
        BY <1>7, <3>2, <4>2
    <3> QED
      BY <3>1, <3>2
  <2> QED
    BY <2>1, <2>2
<1> HIDE DEF new, fnew
<1>13. 0 \in 0 .. n /\ n \in 0 .. n
    BY <1>2
<1>14. new[0] = 0 /\ fnew[0] = 0
    BY <1>9, <1>11, <1>12, <1>13
<1>15. ASSUME NEW i \in 1 .. n + 1
       PROVE  /\ At(q, new[i - 1], fnew[i - 1], args[i], more[i])
              /\ new[i] = new[i - 1] + Len(Written(args[i], more[i]))
              /\ fnew[i] = fnew[i - 1] + Fds(args[i])
  <2>1. CASE i = n + 1
    <3>1. i - 1 = n /\ args[i] = kind /\ more[i] = v
      BY <1>2, <1>3, <2>1 DEF n
    <3>2. new[i - 1] = Len(b) /\ fnew[i - 1] = Len(f)
      BY <1>9, <1>11, <1>12, <1>13, <3>1
    <3>3. Holds(q, Len(b), w)
      <4>1. Len(b) + Len(w) <= Len(c)
        <5>1. Len(b) \in Nat /\ Len(w) \in Nat /\ Len(c) = Len(b) + Len(w)
          BY <1>5
        <5> QED
          BY <5>1
      <4>2. \A j \in 1 .. Len(w) : c[Len(b) + j] = w[j]
        BY <1>5, Zenon
      <4> QED
        BY <4>1, <4>2, Zenon DEF Holds, c
    <3>4. kind = "fd" => Len(f) + 1 <= Len(q.fds) /\ q.fds[Len(f) + 1] = v
      BY <1>7 DEF Fds, g
    <3>5. At(q, Len(b), Len(f), kind, v)
      BY <3>3, <3>4 DEF At, w
    <3>6. new[i] = Len(b) + Len(Written(kind, v)) /\ fnew[i] = Len(f) + Fds(kind)
      BY <1>5, <1>7, <1>11, <1>12, <2>1 DEF w
    <3> QED
      BY <3>1, <3>2, <3>5, <3>6
  <2>2. CASE i # n + 1
    <3>1. i \in 1 .. n /\ i \in 0 .. n /\ i - 1 \in 0 .. n
      BY <1>2, <2>2
    <3>2. more[i] = vals[i]
      BY <1>3, <3>1
    <3>3. /\ new[i] = off[i] /\ new[i - 1] = off[i - 1]
          /\ fnew[i] = foff[i] /\ fnew[i - 1] = foff[i - 1]
      BY <1>11, <1>12, <3>1
    <3>4. off[i - 1] \in Nat /\ foff[i - 1] \in Nat
      <4>1. off[i - 1] \in 0 .. Len(b) /\ foff[i - 1] \in 0 .. Len(f)
        BY <1>9, <3>1
      <4> QED
        BY <4>1, <1>5, <1>7
    <3>5. At(q, off[i - 1], foff[i - 1], args[i], vals[i])
      BY <1>8, <1>10, <3>1, <3>4
    <3> QED
      BY <1>10, <3>1, <3>2, <3>3, <3>5
  <2> QED
    BY <2>1, <2>2
<1>16. Ends(q, args, more, new, fnew)
    BY <1>3, <1>11, <1>12, <1>14, <1>15 DEF Ends, c, g
<1> QED
    BY <1>14, <1>16 DEF Laid, more

-----------------------------------------------------------------------------
(* The header.                                                             *)

(* What the header of a packet of l bytes says.                            *)
Says(bytes, l, opcode) == SizeAndOpcode(bytes) = l * (Byte * Byte) + opcode

(* The length and the opcode of a packet not too long fit the word.        *)
LEMMA HeaderFits ==
    ASSUME NEW l \in Nat, l <= U16Max, NEW opcode \in 0 .. Byte - 1
    PROVE  l * (Byte * Byte) + opcode \in 0 .. U32Max
<1> DEFINE s == Byte * Byte
<1>1. s \in Nat /\ s >= 16 * Byte /\ U16Max = s - 1 /\ U32Max = s * s - 1
      /\ Byte \in Nat
    BY Sizes
<1> HIDE DEF s
<1>2. opcode \in 0 .. s - 1
    BY <1>1
<1>3. l \in 0 .. s - 1
    BY <1>1
<1>4. s \in Nat \ {0}
    BY <1>1, Sizes
<1>5. opcode + s * l \in 0 .. s * s - 1
    BY <1>1, <1>2, <1>3, <1>4, OneMoreDigit
<1>6. opcode + s * l = l * s + opcode
    BY <1>1, <1>2, <1>3
<1>7. l * s + opcode \in 0 .. U32Max
    BY <1>1, <1>5, <1>6
<1> QED
    BY <1>7 DEF s

(* It says where the packet ends, and which procedure it calls.            *)
LEMMA HeaderRead ==
    ASSUME NEW bytes, NEW l \in Nat, NEW opcode \in 0 .. Byte - 1,
           Says(bytes, l, opcode)
    PROVE  /\ PacketSize(bytes) = l
           /\ SizeAndOpcode(bytes) % (Byte * Byte) = opcode
           /\ SizeAndOpcode(bytes) % Byte = opcode
<1> DEFINE s == Byte * Byte
           n == SizeAndOpcode(bytes)
<1>1. n = l * s + opcode
    BY DEF Says
<1>2. s \in Nat \ {0} /\ s >= 16 * Byte /\ Byte \in Nat \ {0} /\ s = Byte * Byte
    BY Sizes
<1> HIDE DEF s, n
<1>3. opcode \in 0 .. s - 1 /\ l \in Int
    BY <1>2
<1>4. (s * l + opcode) \div s = l /\ (s * l + opcode) % s = opcode
    BY <1>2, <1>3, DivModUnique
<1>5. s * l + opcode = n
    BY <1>1, <1>2, <1>3
<1>6. (Byte * (Byte * l) + opcode) % Byte = opcode
  <2>1. Byte * l \in Int
    BY <1>2, <1>3
  <2> QED
    BY <1>2, <2>1, DivModUnique
<1>7. Byte * (Byte * l) + opcode = n
    BY <1>2, <1>3, <1>5
<1> QED
    BY <1>4, <1>5, <1>6, <1>7 DEF PacketSize, s, n

(* Four bytes.                                                             *)
Word(b) == b \in Seq(Bytes) /\ Len(b) = 4

(* Three sequences, one after the other.                                   *)
Joins(w, a, b, c) == w = (a \o b) \o c

(* Where the opcode is, in a packet and in another that starts alike.      *)
LEMMA HeaderPart ==
    ASSUME NEW a, Word(a), NEW b, Word(b), NEW c \in Seq(Bytes),
           NEW w, Joins(w, a, b, c)
    PROVE  /\ w \in Seq(Bytes) /\ Len(w) = 8 + Len(c)
           /\ SubSeq(w, 5, 8) = b /\ SubSeq(w, 9, Len(w)) = c
<1> DEFINE h == a \o b
<1>1. /\ h \in Seq(Bytes) /\ Len(h) = 8
      /\ \A i \in 1 .. 4 : h[i] = a[i]
      /\ \A i \in 1 .. 4 : h[4 + i] = b[i]
  <2>1. a \in Seq(Bytes) /\ b \in Seq(Bytes)
    BY DEF Word
  <2>2. /\ h \in Seq(Bytes) /\ Len(h) = Len(a) + Len(b)
        /\ \A i \in 1 .. Len(a) : h[i] = a[i]
        /\ \A i \in 1 .. Len(b) : h[Len(a) + i] = b[i]
    BY <2>1, Concatenation
  <2> HIDE DEF h
  <2> QED
    BY <2>2 DEF Word
<1> HIDE DEF h
<1>1a. h \in Seq(Bytes)
    BY <1>1
<1>2. /\ w \in Seq(Bytes) /\ Len(w) = Len(h) + Len(c)
      /\ \A i \in 1 .. Len(h) : w[i] = h[i]
      /\ \A i \in 1 .. Len(c) : w[Len(h) + i] = c[i]
  <2>1. w = h \o c
    BY DEF h, Joins
  <2> QED
    BY <1>1a, <2>1, Concatenation
<1>3. Len(c) \in Nat /\ Len(w) = 8 + Len(c)
    BY <1>1, <1>2
<1>4. /\ \A i \in 1 .. 8 : w[i] = h[i]
      /\ \A i \in 1 .. Len(c) : w[8 + i] = c[i]
    BY <1>1, <1>2
<1>5. SubSeq(w, 5, 8) = b
  <2> DEFINE u == SubSeq(w, 5, 8)
  <2>1. /\ SubSeq(w, 4 + 1, 4 + 4) \in Seq(Bytes)
        /\ Len(SubSeq(w, 4 + 1, 4 + 4)) = 4
        /\ \A i \in 1 .. 4 : SubSeq(w, 4 + 1, 4 + 4)[i] = w[4 + i]
    <3>1. 4 + 4 <= Len(w) /\ 4 \in Nat /\ w \in Seq(Bytes)
      BY <1>2, <1>3
    <3> QED
      BY <3>1, Part
  <2>2. 4 + 1 = 5 /\ 4 + 4 = 8
    OBVIOUS
  <2>3. u \in Seq(Bytes) /\ Len(u) = 4 /\ \A i \in 1 .. 4 : u[i] = w[4 + i]
    BY <2>1, <2>2
  <2> HIDE DEF u
  <2>4. ASSUME NEW i \in 1 .. 4 PROVE u[i] = b[i]
    <3>1. 4 + i \in 1 .. 8
      OBVIOUS
    <3> QED
      BY <1>1, <1>4, <2>3, <3>1
  <2>5. /\ u \in Seq(Bytes) /\ b \in Seq(Bytes) /\ Len(u) = Len(b)
        /\ \A i \in 1 .. Len(u) : u[i] = b[i]
    BY <2>3, <2>4 DEF Word
  <2>6. u = b
    BY <2>5, SameElements
  <2> QED
    BY <2>6 DEF u
<1>6. SubSeq(w, 9, Len(w)) = c
  <2> DEFINE u == SubSeq(w, 9, Len(w))
             n == Len(c)
  <2>1. /\ SubSeq(w, 8 + 1, 8 + n) \in Seq(Bytes)
        /\ Len(SubSeq(w, 8 + 1, 8 + n)) = n
        /\ \A i \in 1 .. n : SubSeq(w, 8 + 1, 8 + n)[i] = w[8 + i]
    <3>1. 8 + n <= Len(w) /\ 8 \in Nat /\ n \in Nat /\ w \in Seq(Bytes)
      BY <1>2, <1>3
    <3> HIDE DEF n
    <3> QED
      BY <3>1, Part
  <2>2. 8 + 1 = 9 /\ 8 + n = Len(w)
    BY <1>3
  <2>3. u \in Seq(Bytes) /\ Len(u) = n /\ \A i \in 1 .. n : u[i] = w[8 + i]
    BY <2>1, <2>2
  <2> HIDE DEF u
  <2>4. u \in Seq(Bytes) /\ Len(u) = Len(c) /\ \A i \in 1 .. Len(u) : u[i] = c[i]
    BY <1>4, <2>3
  <2>5. u = c
    BY <2>4, SameElements
  <2> QED
    BY <2>5 DEF u
<1> QED
    BY <1>2, <1>3, <1>5, <1>6

(* The header that is written says the truth.                              *)
LEMMA SerializeFacts ==
    ASSUME NEW p, p.object_id \in Int, p.opcode \in 0 .. Byte - 1,
           p.payload \in Seq(Bytes), ~TooLong(p)
    PROVE  LET w == Serialize(p) IN
           /\ w \in Seq(Bytes) /\ Len(w) = 8 + Len(p.payload)
           /\ Len(w) <= U16Max /\ Says(w, Len(w), p.opcode)
           /\ SubSeq(w, 9, Len(w)) = p.payload
<1> DEFINE l == TotalBytes(p)
           m == l * Byte * Byte + p.opcode
           a == ToBytes(p.object_id)
           b == ToBytes(m)
           c == p.payload
           w == Serialize(p)
<1>1. Len(c) \in Nat /\ c \in Seq(Bytes)
    OBVIOUS
<1>2. l = 8 + Len(c)
    BY DEF TotalBytes
<1>3. ~ (l > U16Max)
    BY DEF TooLong
<1>4. Joins(w, a, b, c)
    BY DEF Serialize, Joins
<1> HIDE DEF c, l
<1>5. l \in Nat /\ l <= U16Max
    BY <1>1, <1>2, <1>3, Sizes
<1>6. m = l * (Byte * Byte) + p.opcode
    BY <1>5, Sizes
<1>7. l * (Byte * Byte) + p.opcode \in 0 .. U32Max
    BY <1>5, HeaderFits
<1>8. m \in 0 .. U32Max
    BY <1>6, <1>7
<1> HIDE DEF m
<1>9. m \in Int
    BY <1>8, Sizes
<1>10. Word(a) /\ Word(b)
    BY <1>9, ToBytesFacts DEF Word
<1>11. Unsigned(b) = m
    BY <1>8, UnsignedRecovered
<1> HIDE DEF a, b, w
<1>12. /\ w \in Seq(Bytes) /\ Len(w) = 8 + Len(c) /\ SubSeq(w, 5, 8) = b
       /\ SubSeq(w, 9, Len(w)) = c
  <2>1. c \in Seq(Bytes)
    BY <1>1
  <2> QED
    BY <1>4, <1>10, <2>1, HeaderPart
<1>13. SizeAndOpcode(w) = m
    BY <1>11, <1>12 DEF SizeAndOpcode
<1>14. Says(w, l, p.opcode)
    BY <1>6, <1>13 DEF Says
<1>15. Len(w) = l
    BY <1>2, <1>12
<1> QED
    BY <1>5, <1>12, <1>14, <1>15 DEF c, w

(* Its parts.                                                              *)
LEMMA ParsedFacts ==
    ASSUME NEW bytes \in Seq(Bytes), Len(bytes) >= 8, NEW fds
    PROVE  LET p == Parsed(bytes, fds) IN
           /\ p.opcode = SizeAndOpcode(bytes) % Byte /\ p.fds = fds
           /\ p.payload = SubSeq(bytes, 9, Len(bytes))
           /\ p.payload \in Seq(Bytes) /\ Len(p.payload) = Len(bytes) - 8
<1> DEFINE n == Len(bytes) - 8
<1>1. n \in Nat /\ 8 + n <= Len(bytes) /\ 8 \in Nat /\ 8 + n = Len(bytes)
    OBVIOUS
<1> HIDE DEF n
<1>2. /\ SubSeq(bytes, 8 + 1, 8 + n) \in Seq(Bytes)
      /\ Len(SubSeq(bytes, 8 + 1, 8 + n)) = n
    BY <1>1, Part
<1>3. 8 + 1 = 9
    OBVIOUS
<1>4. /\ SubSeq(bytes, 9, Len(bytes)) \in Seq(Bytes)
      /\ Len(SubSeq(bytes, 9, Len(bytes))) = n
    BY <1>1, <1>2, <1>3
<1> QED
    BY <1>4 DEF Parsed, n

(* A packet that starts alike has the same header.                         *)
LEMMA HeaderKept ==
    ASSUME NEW w \in Seq(Bytes), NEW u \in Seq(Bytes), Len(w) >= 8, Len(u) >= 8,
           \A i \in 1 .. 8 : u[i] = w[i]
    PROVE  SizeAndOpcode(u) = SizeAndOpcode(w)
<1>1. \A s \in Seq(Bytes) : Len(s) >= 8 =>
          /\ SubSeq(s, 5, 8) \in Seq(Bytes) /\ Len(SubSeq(s, 5, 8)) = 4
          /\ \A i \in 1 .. 4 : SubSeq(s, 5, 8)[i] = s[4 + i]
  <2> SUFFICES ASSUME NEW s \in Seq(Bytes), Len(s) >= 8
               PROVE  /\ SubSeq(s, 5, 8) \in Seq(Bytes)
                      /\ Len(SubSeq(s, 5, 8)) = 4
                      /\ \A i \in 1 .. 4 : SubSeq(s, 5, 8)[i] = s[4 + i]
    OBVIOUS
  <2>1. 4 \in Nat /\ 4 + 4 <= Len(s)
    OBVIOUS
  <2>2. /\ SubSeq(s, 4 + 1, 4 + 4) \in Seq(Bytes)
        /\ Len(SubSeq(s, 4 + 1, 4 + 4)) = 4
        /\ \A i \in 1 .. 4 : SubSeq(s, 4 + 1, 4 + 4)[i] = s[4 + i]
    BY <2>1, Part
  <2>3. 4 + 1 = 5 /\ 4 + 4 = 8
    OBVIOUS
  <2> QED
    BY <2>2, <2>3
<1> DEFINE x == SubSeq(w, 5, 8)
           y == SubSeq(u, 5, 8)
<1>2. /\ x \in Seq(Bytes) /\ Len(x) = 4 /\ \A i \in 1 .. 4 : x[i] = w[4 + i]
      /\ y \in Seq(Bytes) /\ Len(y) = 4 /\ \A i \in 1 .. 4 : y[i] = u[4 + i]
    BY <1>1
<1> HIDE DEF x, y
<1>3. ASSUME NEW i \in 1 .. 4 PROVE y[i] = x[i]
  <2>1. 4 + i \in 1 .. 8
    OBVIOUS
  <2>2. u[4 + i] = w[4 + i]
    BY <2>1
  <2> QED
    BY <1>2, <2>2
<1>4. /\ x \in Seq(Bytes) /\ y \in Seq(Bytes) /\ Len(y) = Len(x)
      /\ \A i \in 1 .. Len(y) : y[i] = x[i]
    BY <1>2, <1>3
<1>5. y = x
    BY <1>4, SameElements
<1> QED
    BY <1>5 DEF SizeAndOpcode, x, y

(* What a client reads that has lost its place.                            *)
LEMMA MisreadFacts ==
    ASSUME NEW w \in Seq(Bytes), NEW k \in Nat, 8 + 4 * k <= Len(w)
    PROVE  LET u == SubSeq(w, 1, 8) \o SubSeq(w, 9 + 4 * k, Len(w))
                        \o SubSeq(w, 9, 8 + 4 * k)
           IN  /\ u \in Seq(Bytes) /\ Len(u) = Len(w)
               /\ SizeAndOpcode(u) = SizeAndOpcode(w)
<1> DEFINE m == 8 + 4 * k
           n == Len(w) - m
           h == SubSeq(w, 1, 8)
           d == SubSeq(w, 9 + 4 * k, Len(w))
           e == SubSeq(w, 9, m)
           g == h \o d
           u == g \o e
<1>1. /\ m \in Nat /\ n \in Nat /\ m + n = Len(w) /\ m + n <= Len(w)
      /\ m + 1 = 9 + 4 * k /\ Len(w) >= 8
    OBVIOUS
<1>2. 4 * k \in Nat /\ 8 + 4 * k <= Len(w) /\ 8 \in Nat /\ 0 \in Nat
      /\ 0 + 8 <= Len(w) /\ 0 + 8 = 8 /\ 0 + 1 = 1 /\ 8 + 1 = 9 /\ m = 8 + 4 * k
    OBVIOUS
<1>3. /\ SubSeq(w, m + 1, m + n) \in Seq(Bytes)
      /\ Len(SubSeq(w, m + 1, m + n)) = n
  <2> HIDE DEF m, n
  <2> QED
    BY <1>1, Part
<1>4. d \in Seq(Bytes) /\ Len(d) = n
    BY <1>1, <1>3
<1>5. /\ SubSeq(w, 8 + 1, 8 + 4 * k) \in Seq(Bytes)
      /\ Len(SubSeq(w, 8 + 1, 8 + 4 * k)) = 4 * k
    BY <1>2, Part
<1>6. e \in Seq(Bytes) /\ Len(e) = 4 * k
    BY <1>2, <1>5
<1>7. /\ SubSeq(w, 0 + 1, 0 + 8) \in Seq(Bytes)
      /\ Len(SubSeq(w, 0 + 1, 0 + 8)) = 8
      /\ \A i \in 1 .. 8 : SubSeq(w, 0 + 1, 0 + 8)[i] = w[0 + i]
    BY <1>2, Part
<1>8. \A i \in 1 .. 8 : 0 + i = i
    OBVIOUS
<1>9. h \in Seq(Bytes) /\ Len(h) = 8 /\ \A i \in 1 .. 8 : h[i] = w[i]
    BY <1>2, <1>7, <1>8
<1> HIDE DEF h, d, e
<1>10. h \in Seq(Bytes) /\ d \in Seq(Bytes) /\ e \in Seq(Bytes)
    BY <1>4, <1>6, <1>9
<1>11. /\ g \in Seq(Bytes) /\ Len(g) = Len(h) + Len(d)
       /\ \A i \in 1 .. Len(h) : g[i] = h[i]
    BY <1>10, Concatenation
<1> HIDE DEF g
<1>12. g \in Seq(Bytes)
    BY <1>11
<1>13. /\ u \in Seq(Bytes) /\ Len(u) = Len(g) + Len(e)
       /\ \A i \in 1 .. Len(g) : u[i] = g[i]
    BY <1>10, <1>12, Concatenation
<1> HIDE DEF u
<1>14. Len(u) = Len(w)
  <2>1. n = Len(w) - (8 + 4 * k)
    OBVIOUS
  <2> HIDE DEF n, m
  <2> QED
    BY <1>1, <1>2, <1>4, <1>6, <1>9, <1>11, <1>13, <2>1
<1>14a. Len(g) >= 8 /\ Len(g) \in Nat
  <2> HIDE DEF n, m
  <2> QED
    BY <1>1, <1>4, <1>9, <1>11
<1>15. ASSUME NEW i \in 1 .. 8 PROVE u[i] = w[i]
  <2>1. g[i] = h[i] /\ h[i] = w[i]
    <3>1. i \in 1 .. Len(h)
      BY <1>9
    <3>2. g[i] = h[i]
      BY <1>11, <3>1
    <3> QED
      BY <1>9, <3>2
  <2>2. i \in 1 .. Len(g)
    BY <1>14a
  <2> QED
    BY <1>13, <2>1, <2>2
<1>16. SizeAndOpcode(u) = SizeAndOpcode(w)
    BY <1>1, <1>13, <1>14, <1>15, HeaderKept
<1> QED
    BY <1>13, <1>14, <1>16 DEF u, g, h, d, e

-----------------------------------------------------------------------------
(* The invariant.                                                          *)

Steps == {"write", "too long", "sent", "read", "unknown", "failed", "panicked",
          "handled"}
After == {"sent", "read", "unknown", "failed", "panicked", "handled"}

Readings == UNION { TypeOf(kind) : kind \in Kinds }

(* What was called, what was written of it, and what was read.             *)
CallInv ==
    /\ step \in Steps /\ way \in Ways /\ misread \in BOOLEAN
    /\ message \in Encodings(way)
    /\ Fitting(message.args, values)
    /\ step \in After => Len(values) = Len(message.args)
    /\ step = "unknown" => message.name = "newer"
    /\ decoded \in Seq(Readings) /\ Len(decoded) <= Len(message.args)
    /\ \A i \in 1 .. Len(decoded) : decoded[i] \in TypeOf(message.args[i])
    /\ step = "handled" => Len(decoded) = Len(message.args)

(* The packet and its reader.                                              *)
PacketInv ==
    /\ Within(packet, reader) /\ reader.error \in Errors
    /\ step = "write" =>
          /\ IsPacket(packet) /\ packet.object_id \in Int
          /\ packet.opcode = message.opcode /\ Len(packet.payload) % 4 = 0
          /\ ~misread
    /\ step \in {"write", "sent"} => reader = Read /\ decoded = <<>>
    /\ step = "read" => reader.error = "none" /\ Len(packet.payload) <= U16Max
    /\ step = "panicked" => NextLen(packet, reader) = 0

(* The bytes on the socket.                                                *)
WireInv ==
    /\ wire \in Seq(Bytes)
    /\ step \in After =>
          /\ Len(wire) >= 8 /\ Len(wire) <= U16Max /\ Len(wire) % 4 = 0
          /\ Says(wire, Len(wire), message.opcode)
    /\ step = "sent" =>
          /\ Len(wire) = 8 + Len(packet.payload)
          /\ ~misread => SubSeq(wire, 9, Len(wire)) = packet.payload

(* What a client that kept its place reads, and where it is.               *)
PlaceInv ==
    ~misread =>
        /\ step \notin {"failed", "panicked"} =>
              Laid(packet, message.args, values, Len(decoded),
                   reader.payload_pos, reader.fd_pos)
        /\ \A i \in 1 .. Len(decoded) :
              decoded[i] = Image(message.args[i], values[i])
        /\ step \in {"failed", "panicked"} =>
              \E i \in 1 .. Len(values) :
                  message.args[i] = "string" /\ values[i] = NoString

CodecInv == CallInv /\ PacketInv /\ WireInv /\ PlaceInv

(* A procedure of the bindings, and the only one with its opcode.          *)
LEMMA ProcedureFacts ==
    ASSUME NEW w \in Ways, NEW m \in Encodings(w)
    PROVE  /\ m.opcode \in 0 .. Byte - 1 /\ m.args \in Seq(Kinds)
           /\ m \notin Decodings(w) => m.name = "newer"
           /\ \A d \in Decodings(w) : d.opcode = m.opcode => d = m
    BY BindingsAssumption

(* A new reader.                                                           *)
LEMMA ReadFields ==
    /\ IsReader(Read) /\ Read.payload_pos = 0 /\ Read.fd_pos = 0
    /\ Read.error = "none"
    BY DEF Read, IsReader

(* The initial states.                                                     *)
LEMMA InitInv == Init => CodecInv
<1> SUFFICES ASSUME Init PROVE CodecInv
    OBVIOUS
<1>1. /\ step = "write" /\ way \in Ways /\ message \in Encodings(way)
      /\ values = <<>> /\ decoded = <<>> /\ wire = <<>> /\ misread = FALSE
      /\ packet = New(SomeId, message.opcode) /\ reader = Read
    BY DEF Init
<1>2. message.args \in Seq(Kinds)
    BY <1>1, ProcedureFacts
<1>3. /\ IsPacket(packet) /\ packet.object_id = SomeId
      /\ packet.opcode = message.opcode /\ packet.payload = <<>>
      /\ packet.fds = <<>>
    BY <1>1 DEF New, IsPacket
<1>4. SomeId \in Int
    BY CodecAssumption, Sizes
<1>5. /\ <<>> \in Seq(Args) /\ <<>> \in Seq(Readings) /\ <<>> \in Seq(Bytes)
      /\ <<>> \in Seq(0 .. U32Max) /\ Len(<<>>) = 0 /\ 0 % 4 = 0
    OBVIOUS
<1>6. Len(message.args) \in Nat
    BY <1>2
<1>7. CallInv
  <2>1. Fitting(message.args, values)
    BY <1>1, <1>2, <1>5, <1>6 DEF Fitting
  <2>2. /\ decoded \in Seq(Readings) /\ Len(decoded) <= Len(message.args)
        /\ \A i \in 1 .. Len(decoded) : decoded[i] \in TypeOf(message.args[i])
    BY <1>1, <1>5, <1>6
  <2>3. /\ step \in Steps /\ step \notin After /\ step # "unknown"
        /\ step # "handled" /\ misread \in BOOLEAN
    BY <1>1 DEF Steps, After
  <2> QED
    BY <1>1, <2>1, <2>2, <2>3, Zenon DEF CallInv
<1>8. PacketInv
  <2>1. Within(packet, reader) /\ reader.error \in Errors
    BY <1>1, <1>3, <1>5, ReadFields DEF Within, Errors
  <2> QED
    BY <1>1, <1>3, <1>4, <1>5, <2>1 DEF PacketInv
<1>9. WireInv
    BY <1>1, <1>5 DEF WireInv, After
<1>10. PlaceInv
  <2>1. Laid(packet, message.args, <<>>, 0, 0, 0)
    BY <1>3, LaidNone
  <2> QED
    BY <1>1, <1>5, <2>1, ReadFields DEF PlaceInv
<1> QED
    BY <1>7, <1>8, <1>9, <1>10 DEF CodecInv

(* What is written is an argument of its kind.                             *)
LEMMA OfKindFacts ==
    ASSUME NEW w, NEW m, NEW kind \in Kinds, NEW v \in OfKind(w, m, kind)
    PROVE  v \in Given(kind)
    BY CodecAssumption DEF OfKind, Given

(* An argument is pushed: it is laid after those before it.                *)
LEMMA PushKeeps == CodecInv /\ PushArgument => CodecInv'
<1> SUFFICES ASSUME CodecInv, PushArgument PROVE CodecInv'
    OBVIOUS
<1> DEFINE args == message.args
           n == Len(values)
           kind == args[n + 1]
<1>1. /\ step = "write" /\ n + 1 <= Len(args)
      /\ UNCHANGED << step, way, message, wire, reader, decoded, misread >>
    BY DEF PushArgument
<1>2. PICK v \in OfKind(way, message, kind) :
          values' = Append(values, v) /\ packet' = Pushed(packet, kind, v)
    BY DEF PushArgument, Pushed
<1>3. CallInv /\ PacketInv /\ WireInv /\ PlaceInv
    BY DEF CodecInv
<1>4. /\ Fitting(args, values) /\ args \in Seq(Kinds) /\ values \in Seq(Args)
      /\ n \in Nat
    BY <1>3 DEF CallInv, Fitting
<1>5. kind \in Kinds
  <2>1. n + 1 \in 1 .. Len(args)
    BY <1>1, <1>4
  <2> HIDE DEF args, n
  <2> QED
    BY <1>4, <2>1, ElementOf
<1>6. v \in Given(kind)
    BY <1>5, OfKindFacts
<1> HIDE DEF kind
<1>7. /\ IsPacket(packet) /\ packet.payload \in Seq(Bytes)
      /\ packet.fds \in Seq(0 .. U32Max) /\ packet.object_id \in Int
      /\ packet.opcode = message.opcode /\ Len(packet.payload) % 4 = 0
      /\ reader = Read /\ decoded = <<>> /\ ~misread
    BY <1>1, <1>3 DEF PacketInv, Within
<1>8. /\ IsPacket(packet') /\ packet'.opcode = packet.opcode
      /\ packet'.object_id = packet.object_id
      /\ packet'.payload = packet.payload \o Written(kind, v)
      /\ packet'.fds = IF kind = "fd" THEN Append(packet.fds, v) ELSE packet.fds
    BY <1>2, <1>5, <1>6, <1>7, PushedFacts
<1>9. v \in Args
    BY <1>5, <1>6 DEF Args
<1>10. /\ values' \in Seq(Args) /\ Len(values') = n + 1 /\ values'[n + 1] = v
       /\ \A i \in 1 .. n : values'[i] = values[i]
    BY <1>2, <1>4, <1>9, Appended
<1>11. Fitting(args, values')
  <2>1. ASSUME NEW i \in 1 .. n + 1 PROVE values'[i] \in Given(args[i])
    <3>1. CASE i = n + 1
      BY <1>6, <1>10, <3>1 DEF kind
    <3>2. CASE i # n + 1
      <4>1. i \in 1 .. n
        BY <1>4, <3>2
      <4> QED
        BY <1>4, <1>10, <4>1 DEF Fitting
    <3> QED
      BY <3>1, <3>2
  <2> QED
    BY <1>1, <1>4, <1>10, <2>1 DEF Fitting
<1>12. CallInv'
    BY <1>1, <1>3, <1>11 DEF CallInv, After
<1>13. /\ packet'.payload \in Seq(Bytes) /\ Len(packet'.payload) % 4 = 0
       /\ Len(packet'.payload) \in Nat
  <2> DEFINE b == packet.payload
             w == Written(kind, v)
  <2>1. w \in Seq(Bytes) /\ Len(w) % 4 = 0 /\ b \in Seq(Bytes) /\ Len(b) % 4 = 0
    BY <1>5, <1>6, <1>7, WrittenFacts
  <2> HIDE DEF b, w
  <2>2. b \o w \in Seq(Bytes) /\ Len(b \o w) = Len(b) + Len(w)
    BY <2>1, Concatenation
  <2>3. Len(b) \in Nat /\ Len(w) \in Nat
    BY <2>1
  <2>4. (Len(b) + Len(w)) % 4 = 0 /\ Len(b) + Len(w) \in Nat
    BY <2>1, <2>3
  <2>5. packet'.payload = b \o w
    BY <1>8 DEF b, w
  <2> HIDE <1>8
  <2> QED
    BY <2>2, <2>4, <2>5
<1>14. packet'.fds \in Seq(0 .. U32Max)
  <2>1. CASE kind = "fd"
    <3>1. v \in 0 .. U32Max
      BY <1>6, <2>1 DEF Given, Arguments
    <3> QED
      BY <1>7, <1>8, <2>1, <3>1, Appended
  <2>2. CASE kind # "fd"
    BY <1>7, <1>8, <2>2
  <2> QED
    BY <2>1, <2>2
<1>15. PacketInv'
  <2>1. Within(packet', Read)
    <3>1. Len(packet'.fds) \in Nat
      BY <1>14
    <3>2. 0 \in 0 .. Len(packet'.payload) /\ 0 \in 0 .. Len(packet'.fds)
      BY <1>13, <3>1
    <3> QED
      BY <1>13, <1>14, <3>2, ReadFields DEF Within
  <2> QED
    BY <1>1, <1>7, <1>8, <1>13, <2>1, ReadFields DEF PacketInv, Errors
<1>16. WireInv'
    BY <1>1, <1>3 DEF WireInv, After
<1>17. PlaceInv'
  <2>1. Laid(packet, args, values, 0, 0, 0)
    BY <1>1, <1>3, <1>7, ReadFields DEF PlaceInv
  <2>2. args[Len(values) + 1] = kind
    BY DEF kind
  <2>3. Laid(packet', args, Append(values, v), 0, 0, 0)
    <3> HIDE DEF args, n
    <3> QED
      BY <1>4, <1>5, <1>6, <1>7, <1>8, <2>1, <2>2, LaidMore
  <2>4. /\ reader' = Read /\ decoded' = <<>> /\ step' = "write"
        /\ args = message'.args
    BY <1>1, <1>7
  <2>5. Len(decoded') = 0 /\ reader'.payload_pos = 0 /\ reader'.fd_pos = 0
    BY <2>4, ReadFields
  <2>6. Laid(packet', message'.args, values', Len(decoded'),
             reader'.payload_pos, reader'.fd_pos)
    BY <1>2, <2>3, <2>4, <2>5
  <2>7. \A i \in 1 .. Len(decoded') : FALSE
    BY <2>5
  <2> QED
    BY <2>4, <2>6, <2>7 DEF PlaceInv
<1> QED
    BY <1>12, <1>15, <1>16, <1>17 DEF CodecInv

(* The packet is sent, or is too long.                                     *)
LEMMA SendKeeps == CodecInv /\ SendPacket => CodecInv'
<1> SUFFICES ASSUME CodecInv, SendPacket PROVE CodecInv'
    OBVIOUS
<1>1. /\ step = "write" /\ Len(values) = Len(message.args)
      /\ UNCHANGED << way, message, values, packet, reader, decoded, misread >>
    BY DEF SendPacket
<1>2. CallInv /\ PacketInv /\ WireInv /\ PlaceInv
    BY DEF CodecInv
<1>3. PlaceInv' <=> PlaceInv
  <2>1. step' \notin {"failed", "panicked"} /\ step \notin {"failed", "panicked"}
    BY <1>1 DEF SendPacket
  <2> QED
    BY <1>1, <2>1 DEF PlaceInv
<1>4. step' \in {"too long", "sent"}
    BY DEF SendPacket
<1>5. CallInv'
  <2>1. step' \in Steps /\ step' # "unknown" /\ step' # "handled"
    BY <1>4 DEF Steps
  <2> QED
    BY <1>1, <1>2, <2>1, Zenon DEF CallInv
<1>6. PacketInv'
  <2>1. /\ step' # "write" /\ step' # "read" /\ step' # "panicked"
        /\ reader = Read /\ decoded = <<>>
    BY <1>1, <1>2, <1>4 DEF PacketInv
  <2>2. Within(packet, reader) /\ reader.error \in Errors
    BY <1>2 DEF PacketInv
  <2> QED
    BY <1>1, <2>1, <2>2, Zenon DEF PacketInv
<1>7. WireInv'
  <2>1. CASE TooLong(packet)
    <3>1. step' = "too long" /\ wire' = wire
      BY <2>1 DEF SendPacket
    <3> QED
      BY <1>2, <3>1 DEF WireInv, After
  <2>2. CASE ~TooLong(packet)
    <3>1. step' = "sent" /\ wire' = Serialize(packet)
      BY <2>2 DEF SendPacket
    <3>2. /\ packet.object_id \in Int /\ packet.opcode = message.opcode
          /\ packet.payload \in Seq(Bytes) /\ Len(packet.payload) % 4 = 0
      BY <1>1, <1>2 DEF PacketInv, Within
    <3>3. message.opcode \in 0 .. Byte - 1
      BY <1>2, ProcedureFacts DEF CallInv
    <3>4. /\ wire' \in Seq(Bytes) /\ Len(wire') = 8 + Len(packet.payload)
          /\ Len(wire') <= U16Max /\ Says(wire', Len(wire'), packet.opcode)
          /\ SubSeq(wire', 9, Len(wire')) = packet.payload
      BY <2>2, <3>1, <3>2, <3>3, SerializeFacts
    <3>5. Len(wire') >= 8 /\ Len(wire') % 4 = 0
      <4> DEFINE l == Len(packet.payload)
      <4>1. l \in Nat
        BY <3>2
      <4>2. l % 4 = 0
        BY <3>2, Zenon
      <4> HIDE DEF l
      <4>3. 8 + l >= 8 /\ (8 + l) % 4 = 0
        BY <4>1, <4>2
      <4>4. Len(wire') = 8 + l
        BY <3>4 DEF l
      <4> QED
        BY <4>3, <4>4
    <3> QED
      BY <1>1, <3>1, <3>2, <3>4, <3>5 DEF WireInv
  <2> QED
    BY <2>1, <2>2
<1> QED
    BY <1>2, <1>3, <1>5, <1>6, <1>7 DEF CodecInv

(* The client loses its place: the header stays.                           *)
LEMMA LosePlaceKeeps ==
    ASSUME NEW k \in Misreadings, CodecInv, LosePlace(k)
    PROVE  CodecInv'
<1>1. /\ step = "sent" /\ 4 * k < Len(packet.payload) /\ misread' = TRUE
      /\ UNCHANGED << step, way, message, values, packet, reader, decoded >>
    BY DEF LosePlace
<1>2. wire' = SubSeq(wire, 1, 8) \o SubSeq(wire, 9 + 4 * k, Len(wire))
                  \o SubSeq(wire, 9, 8 + 4 * k)
    BY DEF LosePlace
<1>3. CallInv /\ PacketInv /\ WireInv
    BY DEF CodecInv
<1>4. k \in Nat
    BY CodecAssumption
<1>5. /\ wire \in Seq(Bytes) /\ Len(wire) >= 8 /\ Len(wire) <= U16Max
      /\ Len(wire) % 4 = 0 /\ Says(wire, Len(wire), message.opcode)
      /\ Len(wire) = 8 + Len(packet.payload)
    BY <1>1, <1>3 DEF WireInv, After
<1>6. 8 + 4 * k <= Len(wire)
  <2>1. Len(packet.payload) \in Nat
    BY <1>3 DEF PacketInv, Within
  <2> QED
    BY <1>1, <1>4, <1>5, <2>1
<1>7. /\ wire' \in Seq(Bytes) /\ Len(wire') = Len(wire)
      /\ SizeAndOpcode(wire') = SizeAndOpcode(wire)
    BY <1>2, <1>4, <1>5, <1>6, MisreadFacts
<1>8. WireInv'
  <2>1. Says(wire', Len(wire'), message'.opcode)
    BY <1>1, <1>5, <1>7 DEF Says
  <2> QED
    BY <1>1, <1>5, <1>7, <2>1 DEF WireInv
<1>9. CallInv'
  <2>1. misread' \in BOOLEAN
    BY <1>1
  <2> QED
    BY <1>1, <1>3, <2>1, Zenon DEF CallInv
<1>10. PacketInv'
  <2>1. step # "write"
    BY <1>1
  <2> QED
    BY <1>1, <1>3, <2>1, Zenon DEF PacketInv
<1>11. PlaceInv'
    BY <1>1 DEF PlaceInv
<1> QED
    BY <1>8, <1>9, <1>10, <1>11 DEF CodecInv

(* A packet is received: its opcode is that of the procedure called.       *)
LEMMA ReceiveKeeps == CodecInv /\ ReceivePacket => CodecInv'
<1> SUFFICES ASSUME CodecInv, ReceivePacket PROVE CodecInv'
    OBVIOUS
<1> DEFINE received == Parsed(wire, packet.fds)
           matches  == { m \in Decodings(way) : m.opcode = received.opcode }
<1>1. /\ step = "sent" /\ packet' = received
      /\ UNCHANGED << way, values, wire, reader, decoded, misread >>
    BY DEF ReceivePacket
<1>2. CallInv /\ PacketInv /\ WireInv /\ PlaceInv
    BY DEF CodecInv
<1>3. /\ wire \in Seq(Bytes) /\ Len(wire) >= 8 /\ Len(wire) <= U16Max
      /\ Len(wire) % 4 = 0 /\ Says(wire, Len(wire), message.opcode)
      /\ ~misread => SubSeq(wire, 9, Len(wire)) = packet.payload
    BY <1>1, <1>2 DEF WireInv, After
<1>4. /\ received.opcode = SizeAndOpcode(wire) % Byte
      /\ packet'.fds = packet.fds /\ packet'.payload = SubSeq(wire, 9, Len(wire))
      /\ packet'.payload \in Seq(Bytes) /\ Len(packet'.payload) = Len(wire) - 8
    BY <1>1, <1>3, ParsedFacts
<1>5. /\ way \in Ways /\ message \in Encodings(way)
      /\ message.opcode \in 0 .. Byte - 1
      /\ message \notin Decodings(way) => message.name = "newer"
      /\ \A d \in Decodings(way) : d.opcode = message.opcode => d = message
    BY <1>2, ProcedureFacts DEF CallInv
<1>6. received.opcode = message.opcode
  <2>1. Len(wire) \in Nat
    BY <1>3
  <2>2. SizeAndOpcode(wire) % Byte = message.opcode
    BY <1>3, <1>5, <2>1, HeaderRead
  <2> QED
    BY <1>4, <2>2
<1>7. \/ step' = "unknown" /\ message' = message /\ message.name = "newer"
      \/ step' = "read" /\ message' = message
  <2>1. CASE matches = {}
    <3>1. step' = "unknown" /\ message' = message
      BY <2>1 DEF ReceivePacket
    <3>2. message \notin Decodings(way)
      BY <1>6, <2>1
    <3> QED
      BY <1>5, <3>1, <3>2
  <2>2. CASE matches # {}
    <3>1. step' = "read" /\ message' \in matches
      BY <2>2 DEF ReceivePacket
    <3>2. message' = message
      BY <1>5, <1>6, <3>1
    <3> QED
      BY <3>1, <3>2
  <2> QED
    BY <2>1, <2>2
<1> HIDE DEF received, matches
<1>8. message' = message /\ step' \in {"unknown", "read"}
    BY <1>7
<1>9. reader = Read /\ decoded = <<>>
    BY <1>1, <1>2 DEF PacketInv
<1>10. CallInv'
  <2>1. /\ step' \in Steps /\ step' # "handled" /\ step \in After
        /\ step' = "unknown" => message.name = "newer"
    BY <1>1, <1>7 DEF Steps, After
  <2> QED
    BY <1>1, <1>2, <1>8, <2>1, Zenon DEF CallInv
<1>11. PacketInv'
  <2>1. Within(packet', reader)
    <3>1. packet.fds \in Seq(0 .. U32Max) /\ Len(packet.fds) \in Nat
      BY <1>2 DEF PacketInv, Within
    <3>2. Len(packet'.payload) \in Nat
      BY <1>4
    <3>3. 0 \in 0 .. Len(packet'.payload) /\ 0 \in 0 .. Len(packet'.fds)
      BY <1>4, <3>1, <3>2
    <3> QED
      BY <1>4, <1>9, <3>1, <3>3, ReadFields DEF Within
  <2>2. Len(packet'.payload) <= U16Max
    <3> DEFINE l == Len(wire)
    <3>1. l \in Nat /\ l <= U16Max /\ U16Max \in Nat
      BY <1>3, Sizes
    <3> HIDE DEF l
    <3>2. l - 8 <= U16Max
      BY <3>1
    <3> QED
      BY <1>4, <3>2 DEF l
  <2>3. /\ step' # "write" /\ step' # "sent" /\ step' # "panicked"
        /\ reader.error = "none" /\ reader.error \in Errors
    BY <1>8, <1>9, ReadFields DEF Errors
  <2> QED
    BY <1>1, <2>1, <2>2, <2>3, Zenon DEF PacketInv
<1>12. WireInv'
  <2>1. step' # "sent" /\ step \in After
    BY <1>1, <1>8 DEF After
  <2> QED
    BY <1>1, <1>3, <1>8, <2>1, Zenon DEF WireInv
<1>13. PlaceInv'
  <2> SUFFICES ASSUME ~misread' PROVE PlaceInv'
    BY DEF PlaceInv
  <2>1. packet'.payload = packet.payload /\ packet'.fds = packet.fds
    BY <1>1, <1>3, <1>4
  <2>2. Laid(packet, message.args, values, Len(decoded), reader.payload_pos,
             reader.fd_pos)
    BY <1>1, <1>2 DEF PlaceInv
  <2>3. Laid(packet', message.args, values, Len(decoded), reader.payload_pos,
             reader.fd_pos)
    BY <2>1, <2>2, LaidSame
  <2>4. Len(decoded) = 0 /\ \A i \in 1 .. Len(decoded) : FALSE
    BY <1>9
  <2>5. step' \notin {"failed", "panicked"}
    BY <1>8
  <2> QED
    BY <1>1, <1>8, <2>3, <2>4, <2>5, Zenon DEF PlaceInv
<1> QED
    BY <1>10, <1>11, <1>12, <1>13 DEF CodecInv

(* An argument is read: where it was laid, unless the place was lost.      *)
LEMMA ReadKeeps == CodecInv /\ ReadArgument => CodecInv'
<1> SUFFICES ASSUME CodecInv, ReadArgument PROVE CodecInv'
    OBVIOUS
<1> DEFINE args == message.args
           n == Len(decoded)
           kind == args[n + 1]
           next == ReadArg(packet, reader, kind)
<1>1. /\ step = "read" /\ n + 1 <= Len(args) /\ reader' = next
      /\ UNCHANGED << way, message, values, packet, wire, misread >>
    BY DEF ReadArgument
<1>2. \/ /\ next.error = "none" /\ step' = "read"
         /\ decoded' = Append(decoded, next.value)
      \/ /\ next.error # "none" /\ decoded' = decoded
         /\ step' \in {"panicked", "failed"}
         /\ step' = "panicked" => next.error = "underflow"
    BY <1>1 DEF ReadArgument
<1>3. CallInv /\ PacketInv /\ WireInv /\ PlaceInv
    BY DEF CodecInv
<1>4. /\ args \in Seq(Kinds) /\ Fitting(args, values)
      /\ decoded \in Seq(Readings) /\ n \in Nat
      /\ \A i \in 1 .. n : decoded[i] \in TypeOf(args[i])
      /\ Len(values) = Len(args)
    BY <1>1, <1>3 DEF CallInv, Fitting, After
<1>5. n + 1 \in 1 .. Len(args) /\ n + 1 \in 1 .. Len(values)
    BY <1>1, <1>4
<1>6. kind \in Kinds
  <2> HIDE DEF args, n
  <2> QED
    BY <1>4, <1>5, ElementOf
<1>7. /\ Within(packet, reader) /\ reader.error = "none"
      /\ Len(packet.payload) <= U16Max
    BY <1>1, <1>3 DEF PacketInv
<1> HIDE DEF kind
<1>8. Reads(packet, next, TypeOf(kind))
    BY <1>6, <1>7, ReadArgFacts
<1> HIDE DEF next
<1>9. /\ Within(packet, next) /\ next.error \in Errors
      /\ next.error = "none" => next.value \in TypeOf(kind)
      /\ next.error = "underflow" => NextLen(packet, next) = 0
    BY <1>8 DEF Reads
<1>10. ASSUME next.error = "none"
       PROVE  /\ decoded' \in Seq(Readings) /\ Len(decoded') = n + 1
              /\ \A i \in 1 .. n : decoded'[i] = decoded[i]
              /\ decoded'[n + 1] = next.value
  <2>1. next.value \in Readings
    BY <1>6, <1>9, <1>10 DEF Readings
  <2>2. decoded' = Append(decoded, next.value)
    BY <1>2, <1>10
  <2> QED
    BY <1>4, <2>1, <2>2, Appended
<1>11. CallInv'
  <2>1. /\ decoded' \in Seq(Readings) /\ Len(decoded') <= Len(args)
        /\ \A i \in 1 .. Len(decoded') : decoded'[i] \in TypeOf(args[i])
    <3>1. CASE next.error = "none"
      <4>1. ASSUME NEW i \in 1 .. n + 1 PROVE decoded'[i] \in TypeOf(args[i])
        <5>1. CASE i = n + 1
          BY <1>9, <1>10, <3>1, <5>1 DEF kind
        <5>2. CASE i # n + 1
          <6>1. i \in 1 .. n
            BY <1>4, <5>2
          <6> QED
            BY <1>4, <1>10, <3>1, <6>1
        <5> QED
          BY <5>1, <5>2
      <4> QED
        BY <1>1, <1>10, <3>1, <4>1
    <3>2. CASE next.error # "none"
      <4>1. decoded' = decoded
        BY <1>2, <3>2
      <4>2. n <= Len(args)
        BY <1>1, <1>4
      <4> QED
        BY <1>4, <4>1, <4>2
    <3> QED
      BY <3>1, <3>2
  <2>2. /\ step' \in Steps /\ step' # "unknown" /\ step' # "handled"
        /\ step \in After
    BY <1>1, <1>2 DEF Steps, After
  <2> QED
    BY <1>1, <1>3, <2>1, <2>2, Zenon DEF CallInv
<1>12. PacketInv'
  <2>1. step' # "write" /\ step' # "sent"
    BY <1>2
  <2>2. step' = "read" => reader'.error = "none"
    BY <1>1, <1>2
  <2>3. step' = "panicked" => NextLen(packet', reader') = 0
    BY <1>1, <1>2, <1>9
  <2>4. Within(packet', reader') /\ reader'.error \in Errors
    BY <1>1, <1>9
  <2> QED
    BY <1>1, <1>7, <2>1, <2>2, <2>3, <2>4, Zenon DEF PacketInv
<1>13. WireInv'
  <2>1. step' # "sent" /\ step \in After
    BY <1>1, <1>2 DEF After
  <2> QED
    BY <1>1, <1>3, <2>1, Zenon DEF WireInv
<1>14. PlaceInv'
  <2> SUFFICES ASSUME ~misread' PROVE PlaceInv'
    BY DEF PlaceInv
  <2> DEFINE v == values[n + 1]
             w == Written(kind, v)
             here == reader.payload_pos
             fd == reader.fd_pos
  <2>1. ~misread
    BY <1>1
  <2>2. Laid(packet, args, values, n, here, fd)
    BY <1>1, <1>3, <2>1 DEF PlaceInv
  <2>3. \A i \in 1 .. n : decoded[i] = Image(args[i], values[i])
    BY <1>3, <2>1 DEF PlaceInv
  <2>4. v \in Given(kind)
    BY <1>4, <1>5 DEF Fitting, kind
  <2>5. /\ At(packet, here, fd, kind, v)
        /\ Laid(packet, args, values, n + 1, here + Len(w), fd + Fds(kind))
    <3>1. Len(values) \in Nat /\ n + 1 <= Len(values)
      BY <1>1, <1>4 DEF Fitting
    <3> HIDE DEF n, args, here, fd
    <3> QED
      BY <1>4, <2>2, <3>1, LaidNext DEF kind
  <2>6. Back(reader, next, kind, v)
    BY <1>6, <1>7, <2>4, <2>5, ReadBack DEF next
  <2> HIDE DEF v, w, here, fd
  <2>7. CASE kind = "string" /\ v = NoString
    <3>1. next.error = "underflow"
      BY <2>6, <2>7 DEF Back
    <3>2. step' \in {"panicked", "failed"} /\ decoded' = decoded
      BY <1>2, <3>1
    <3>3. \E i \in 1 .. Len(values) : args[i] = "string" /\ values[i] = NoString
      BY <1>5, <2>7 DEF kind, v
    <3> QED
      BY <1>1, <2>3, <3>2, <3>3 DEF PlaceInv
  <2>8. CASE ~ (kind = "string" /\ v = NoString)
    <3>1. /\ next.error = "none" /\ next.value = Image(kind, v)
          /\ next.payload_pos = here + Len(w) /\ next.fd_pos = fd + Fds(kind)
      BY <2>6, <2>8 DEF Back, here, fd, w
    <3>2. step' = "read" /\ Len(decoded') = n + 1
      BY <1>2, <1>10, <3>1
    <3>3. ASSUME NEW i \in 1 .. n + 1
          PROVE  decoded'[i] = Image(args[i], values[i])
      <4>1. CASE i = n + 1
        BY <1>10, <3>1, <4>1 DEF kind, v
      <4>2. CASE i # n + 1
        <5>1. i \in 1 .. n
          BY <1>4, <4>2
        <5> QED
          BY <1>10, <2>3, <3>1, <5>1
      <4> QED
        BY <4>1, <4>2
    <3>4. Laid(packet', args, values', Len(decoded'), reader'.payload_pos,
               reader'.fd_pos)
      BY <1>1, <2>5, <3>1, <3>2
    <3> QED
      BY <1>1, <3>2, <3>3, <3>4 DEF PlaceInv
  <2> QED
    BY <2>7, <2>8
<1> QED
    BY <1>11, <1>12, <1>13, <1>14 DEF CodecInv

(* Reading is finished: nothing is left over, unless the place was lost.   *)
LEMMA FinishKeeps == CodecInv /\ FinishPacket => CodecInv'
<1> SUFFICES ASSUME CodecInv, FinishPacket PROVE CodecInv'
    OBVIOUS
<1>1. /\ step = "read" /\ Len(decoded) = Len(message.args)
      /\ step' = IF AllRead(packet, reader) THEN "handled" ELSE "failed"
      /\ UNCHANGED << way, message, values, packet, wire, reader, decoded,
                      misread >>
    BY DEF FinishPacket
<1>2. CallInv /\ PacketInv /\ WireInv /\ PlaceInv
    BY DEF CodecInv
<1>3. step' \in {"handled", "failed"} /\ step \in After
    BY <1>1 DEF After
<1>4. CallInv'
  <2>1. step' \in Steps /\ step' # "unknown"
    BY <1>3 DEF Steps
  <2> QED
    BY <1>1, <1>2, <1>3, <2>1, Zenon DEF CallInv
<1>5. PacketInv'
  <2>1. step' # "write" /\ step' # "sent" /\ step' # "read" /\ step' # "panicked"
    BY <1>3
  <2> QED
    BY <1>1, <1>2, <2>1, Zenon DEF PacketInv
<1>6. WireInv'
  <2>1. step' # "sent"
    BY <1>3
  <2> QED
    BY <1>1, <1>2, <1>3, <2>1, Zenon DEF WireInv
<1>7. PlaceInv'
  <2> SUFFICES ASSUME ~misread' PROVE PlaceInv'
    BY DEF PlaceInv
  <2>1. /\ Laid(packet, message.args, values, Len(decoded), reader.payload_pos,
                reader.fd_pos)
        /\ \A i \in 1 .. Len(decoded) :
               decoded[i] = Image(message.args[i], values[i])
    BY <1>1, <1>2 DEF PlaceInv
  <2>2. Len(decoded) = Len(values)
    BY <1>1, <1>2, <1>3 DEF CallInv
  <2>3. reader.payload_pos = Len(packet.payload) /\ reader.fd_pos = Len(packet.fds)
    BY <2>1, <2>2, LaidEnd
  <2>4. Len(packet.payload) \in Nat /\ Len(packet.fds) \in Nat
    BY <1>2 DEF PacketInv, Within
  <2>5. AllRead(packet, reader)
    BY <2>3, <2>4 DEF AllRead
  <2>6. step' = "handled"
    BY <1>1, <2>5
  <2> QED
    BY <1>1, <2>1, <2>6 DEF PlaceInv
<1> QED
    BY <1>4, <1>5, <1>6, <1>7 DEF CodecInv

(* Each step keeps the invariant.                                          *)
LEMMA NextKeeps == CodecInv /\ [Next]_vars => CodecInv'
<1> SUFFICES ASSUME CodecInv, [Next]_vars PROVE CodecInv'
    OBVIOUS
<1>1. CASE PushArgument
    BY <1>1, PushKeeps
<1>2. CASE SendPacket
    BY <1>2, SendKeeps
<1>3. CASE \E k \in Misreadings : LosePlace(k)
    BY <1>3, LosePlaceKeeps
<1>4. CASE ReceivePacket
    BY <1>4, ReceiveKeeps
<1>5. CASE ReadArgument
    BY <1>5, ReadKeeps
<1>6. CASE FinishPacket
    BY <1>6, FinishKeeps
<1>7. CASE UNCHANGED vars
  <2>1. UNCHANGED << step, way, message, values, packet, wire, reader, decoded,
                     misread >>
    BY <1>7 DEF vars
  <2>2. CallInv' /\ WireInv'
    BY <2>1 DEF CodecInv, CallInv, WireInv
  <2>3. PacketInv'
    BY <2>1 DEF CodecInv, PacketInv
  <2>4. PlaceInv'
    BY <2>1 DEF CodecInv, PlaceInv
  <2> QED
    BY <2>2, <2>3, <2>4 DEF CodecInv
<1> QED
    BY <1>1, <1>2, <1>3, <1>4, <1>5, <1>6, <1>7 DEF Next

(* The invariant holds.                                                    *)
LEMMA SpecInv == Spec => []CodecInv
    BY InitInv, NextKeeps, PTL DEF Spec

-----------------------------------------------------------------------------
(* What it implies.                                                        *)

(* Whatever the packet holds, each argument that PacketReader's read       *)
(* functions return has the type of the argument asked for: 32 bits, no    *)
(* object id of 0, bytes in strings and arrays.                            *)
THEOREM CodecTypes == Spec => []CodecTypeOK
<1>1. CodecInv => CodecTypeOK
  <2> SUFFICES ASSUME CodecInv PROVE CodecTypeOK
    OBVIOUS
  <2>1. CallInv /\ PacketInv /\ WireInv
    BY DEF CodecInv
  <2>2. /\ packet.payload \in Seq(0 .. Byte - 1) /\ wire \in Seq(0 .. Byte - 1)
    BY <2>1 DEF PacketInv, WireInv, Within, Bytes
  <2>3. \A i \in DOMAIN decoded : decoded[i] \in TypeOf(message.args[i])
    BY <2>1 DEF CallInv
  <2> QED
    BY <2>1, <2>2, <2>3 DEF CodecTypeOK, CallInv, Steps, PacketInv, Errors
<1> QED
    BY <1>1, SpecInv, PTL

(* Even in a packet read out of place, PacketReader takes nothing from     *)
(* beyond the payload or the file descriptors, and only the length of an   *)
(* empty string makes read_str panic.                                      *)
THEOREM ReadingInBounds == Spec => []ReaderInBounds
<1>1. CodecInv => ReaderInBounds
  <2> SUFFICES ASSUME CodecInv PROVE ReaderInBounds
    OBVIOUS
  <2>1. PacketInv
    BY DEF CodecInv
  <2>2. /\ reader.payload_pos \in 0 .. Len(packet.payload)
        /\ reader.fd_pos \in 0 .. Len(packet.fds)
        /\ Len(packet.payload) \in Nat /\ Len(packet.fds) \in Nat
    BY <2>1 DEF PacketInv, Within
  <2> QED
    BY <2>1, <2>2 DEF ReaderInBounds, PacketInv
<1> QED
    BY <1>1, SpecInv, PTL

(* Whatever arguments were pushed, send_packet either refuses the packet   *)
(* or writes a header from which recv_packet finds its end.                *)
THEOREM PacketsDelimited == Spec => []Delimited
<1>1. CodecInv => Delimited
  <2> SUFFICES ASSUME CodecInv, step = "sent"
               PROVE  PacketSize(wire) = Len(wire) /\ Len(wire) % 4 = 0
    BY DEF Delimited
  <2>1. /\ Len(wire) % 4 = 0 /\ Len(wire) \in Nat
        /\ Says(wire, Len(wire), message.opcode)
    BY DEF CodecInv, WireInv, After
  <2>2. message.opcode \in 0 .. Byte - 1
    BY ProcedureFacts DEF CodecInv, CallInv
  <2> QED
    BY <2>1, <2>2, HeaderRead
<1> QED
    BY <1>1, SpecInv, PTL

(* Through either encoder and either decoder of an interface, the handler  *)
(* of the procedure that was called gets the arguments it was called with. *)
THEOREM ArgumentsComeBack == Spec => []RoundTrip
<1>1. CodecInv => RoundTrip
  <2> SUFFICES ASSUME CodecInv, step = "handled", ~misread
      PROVE  /\ \E m \in Encodings(way) :
                    /\ m.name = message.name
                    /\ m.opcode = SizeAndOpcode(wire) % (Byte * Byte)
             /\ Len(decoded) = Len(values)
             /\ \A i \in DOMAIN decoded :
                    IF message.args[i] = "fixed"
                    THEN FixedTryInto(decoded[i]) = values[i]
                    ELSE decoded[i] = values[i]
    BY DEF RoundTrip
  <2>1. CallInv /\ WireInv /\ PlaceInv
    BY DEF CodecInv
  <2>2. message.opcode \in 0 .. Byte - 1 /\ message \in Encodings(way)
    BY <2>1, ProcedureFacts DEF CallInv
  <2>3. Says(wire, Len(wire), message.opcode) /\ Len(wire) \in Nat
    BY <2>1 DEF WireInv, After
  <2>4. message.opcode = SizeAndOpcode(wire) % (Byte * Byte)
    BY <2>2, <2>3, HeaderRead
  <2>5. Len(decoded) = Len(values) /\ DOMAIN decoded = 1 .. Len(decoded)
    BY <2>1 DEF CallInv, After
  <2>6. ASSUME NEW i \in 1 .. Len(decoded)
        PROVE  IF message.args[i] = "fixed"
               THEN FixedTryInto(decoded[i]) = values[i]
               ELSE decoded[i] = values[i]
    <3>1. decoded[i] = Image(message.args[i], values[i])
      BY <2>1, <2>6 DEF PlaceInv
    <3>2. values[i] \in Given(message.args[i])
      BY <2>1, <2>5 DEF CallInv, Fitting
    <3>3. CASE message.args[i] = "fixed"
      <4>1. values[i] \in Given("fixed")
        BY <3>2, <3>3
      <4>2. FixedTryInto(values[i] * Byte) = values[i]
        BY <4>1, FixedImage
      <4> QED
        BY <3>1, <3>3, <4>2 DEF Image
    <3>4. CASE message.args[i] # "fixed"
      BY <3>1, <3>4 DEF Image
    <3> QED
      BY <3>3, <3>4
  <2> QED
    BY <2>2, <2>4, <2>5, <2>6
<1> QED
    BY <1>1, SpecInv, PTL

(* A client that has kept its place takes every packet, but for a string   *)
(* that was left out and an event newer than the bindings.                 *)
THEOREM PacketsAccepted == Spec => []WellFormedAccepted
<1>1. CodecInv => WellFormedAccepted
  <2> SUFFICES ASSUME CodecInv, ~misread PROVE WellFormedAccepted
    BY DEF WellFormedAccepted
  <2>1. CallInv /\ PlaceInv
    BY DEF CodecInv
  <2>2. step = "unknown" => message.name = "newer"
    BY <2>1 DEF CallInv
  <2>3. DOMAIN values = 1 .. Len(values)
    BY <2>1 DEF CallInv, Fitting
  <2>4. step \in {"failed", "panicked"} =>
            \E i \in DOMAIN values :
                message.args[i] = "string" /\ values[i] = NoString
    BY <2>1, <2>3 DEF PlaceInv
  <2> QED
    BY <2>2, <2>4 DEF WellFormedAccepted
<1> QED
    BY <1>1, SpecInv, PTL

=============================================================================
