--------------------------- MODULE CosemApduProofs ---------------------------
(***************************************************************************)
(* What CosemApdu promises, for requests, answers, sizes and parameters of *)
(* any content.                                                            *)
(*                                                                         *)
(* The lengths of write_size are read back from their bytes, form by form, *)
(* and with them every packed value; a request is thirteen bytes, each in  *)
(* its place, and the value.  The invariant Made says from what the bytes  *)
(* on the line were made, and the properties of requests and answers       *)
(* follow from it.                                                         *)
(*                                                                         *)
(* An AARQ is laid out as three to seven fields.  The invariant Reading    *)
(* says that the meter stands at the start of one of them or at the end,   *)
(* and has read every one that is due before it.  It holds as long as no   *)
(* length is cut to its byte in a way that leads the meter astray: for     *)
(* challenges of up to 253 bytes, and up to 194 for the length of the      *)
(* whole to be right as well.                                              *)
(***************************************************************************)
EXTENDS CosemApdu, SequenceTheorems, TLAPS

-----------------------------------------------------------------------------
(* Lengths.                                                                *)

(* The four bytes of a number that has no more.                            *)
LEMMA FourBytes ==
  ASSUME NEW size, Writable(size)
  PROVE  /\ Byte3(size) \in Byte /\ Byte2(size) \in Byte
         /\ Byte1(size) \in Byte /\ Byte0(size) \in Byte
         /\ 256 * (256 * (256 * Byte3(size) + Byte2(size)) + Byte1(size)) + Byte0(size) = size
         /\ size < 16777216 => Byte3(size) = 0
         /\ size < 65536 => Byte2(size) = 0
<1>. DEFINE d3 == Byte3(size)
            d2 == Byte2(size)
            d1 == Byte1(size)
            d0 == Byte0(size)
            q1 == size \div 256
            q2 == size \div 65536
<1>1. size \in Nat /\ d3 <= 255
  BY DEF Writable, Byte3
<1>2. q1 \in Nat /\ d0 \in 0..255 /\ size = 256 * q1 + d0
  BY <1>1, SMT DEF Byte0
<1>3. q2 \in Nat /\ d1 \in 0..255 /\ q1 = 256 * q2 + d1
  BY <1>1, SMT DEF Byte1
<1>4. d3 \in Nat /\ d2 \in 0..255 /\ q2 = 256 * d3 + d2
  BY <1>1, SMT DEF Byte2, Byte3
<1>5. d3 \in Byte /\ d2 \in Byte /\ d1 \in Byte /\ d0 \in Byte
  <2>. HIDE DEF d3, d2, d1, d0, q1, q2
  <2>. QED BY <1>1, <1>2, <1>3, <1>4 DEF Byte
<1>6. 256 * (256 * (256 * d3 + d2) + d1) + d0 = size
  <2>. HIDE DEF d3, d2, d1, d0, q1, q2
  <2>. QED BY <1>1, <1>2, <1>3, <1>4
<1>7. size < 16777216 => d3 = 0
  BY <1>1, SMT DEF Byte3
<1>8. size < 65536 => d2 = 0
  BY <1>1, SMT DEF Byte2
<1>. QED BY <1>5, <1>6, <1>7, <1>8

(* What the reader makes of up to four bytes.                              *)
LEMMA BigEndianIs ==
  ASSUME NEW t \in Seq(Byte)
  PROVE  /\ Len(t) = 1 => BigEndian(t) = t[1]
         /\ Len(t) = 2 => BigEndian(t) = 256 * t[1] + t[2]
         /\ Len(t) = 3 => BigEndian(t) = 256 * (256 * t[1] + t[2]) + t[3]
         /\ Len(t) = 4 => BigEndian(t) = 256 * (256 * (256 * t[1] + t[2]) + t[3]) + t[4]
<1>1. \A i \in 1..Len(t) : t[i] \in Byte
  BY ElementOfSeq
<1>2. \A b \in Byte : 256 * 0 + b = b
  BY DEF Byte
<1>3. CASE Len(t) = 1
  <2>1. BigEndian(t) = 256 * 0 + t[1]
    BY <1>3 DEF BigEndian
  <2>. QED BY <1>1, <1>2, <1>3, <2>1
<1>4. CASE Len(t) = 2
  <2>1. BigEndian(t) = 256 * (256 * 0 + t[1]) + t[2]
    BY <1>4 DEF BigEndian
  <2>. QED BY <1>1, <1>2, <1>4, <2>1
<1>5. CASE Len(t) = 3
  <2>1. BigEndian(t) = 256 * (256 * (256 * 0 + t[1]) + t[2]) + t[3]
    BY <1>5 DEF BigEndian
  <2>. QED BY <1>1, <1>2, <1>5, <2>1
<1>6. CASE Len(t) = 4
  <2>1. BigEndian(t) = 256 * (256 * (256 * (256 * 0 + t[1]) + t[2]) + t[3]) + t[4]
    BY <1>6 DEF BigEndian
  <2>. QED BY <1>1, <1>2, <1>6, <2>1
<1>. QED BY <1>3, <1>4, <1>5, <1>6

(* write_size, form by form.                                               *)
LEMMA SizeIs ==
  ASSUME NEW size \in Nat
  PROVE  /\ size <= 128 => write_size(size) = <<size>>
         /\ size > 128 /\ size <= 255 => write_size(size) = <<129, size>>
         /\ size > 255 /\ size <= 65535 => write_size(size) = <<130, Byte1(size), Byte0(size)>>
         /\ size > 65535 /\ size <= 16777215
              => write_size(size) = <<131, Byte2(size), Byte1(size), Byte0(size)>>
         /\ size > 16777215
              => write_size(size) = <<132, Byte3(size), Byte2(size), Byte1(size), Byte0(size)>>
<1>1. CASE size <= 128
  BY <1>1 DEF write_size
<1>2. CASE size > 128 /\ size <= 255
  BY <1>2 DEF write_size
<1>3. CASE size > 255 /\ size <= 65535
  BY <1>3 DEF write_size
<1>4. CASE size > 65535 /\ size <= 16777215
  BY <1>4 DEF write_size
<1>5. CASE size > 16777215
  BY <1>5 DEF write_size
<1>. QED BY <1>1, <1>2, <1>3, <1>4, <1>5

(* What write_size writes are bytes, five at most.                         *)
LEMMA SizeIsBytes ==
  ASSUME NEW size, Writable(size)
  PROVE  write_size(size) \in Seq(Byte) /\ Len(write_size(size)) \in 1..5
<1>1. size \in Nat
  BY DEF Writable
<1>2. Byte3(size) \in Byte /\ Byte2(size) \in Byte /\ Byte1(size) \in Byte /\ Byte0(size) \in Byte
  BY FourBytes
<1>3. 129 \in Byte /\ 130 \in Byte /\ 131 \in Byte /\ 132 \in Byte /\ (size <= 255 => size \in Byte)
  BY <1>1 DEF Byte
<1>4. CASE size <= 128
  <2>1. write_size(size) = <<size>> /\ size <= 255
    BY <1>1, <1>4, SizeIs
  <2>. QED BY <1>3, <2>1
<1>5. CASE size > 128 /\ size <= 255
  <2>1. write_size(size) = <<129, size>>
    BY <1>1, <1>5, SizeIs
  <2>. QED BY <1>3, <1>5, <2>1
<1>6. CASE size > 255 /\ size <= 65535
  <2>1. write_size(size) = <<130, Byte1(size), Byte0(size)>>
    BY <1>1, <1>6, SizeIs
  <2>. QED BY <1>2, <1>3, <2>1
<1>7. CASE size > 65535 /\ size <= 16777215
  <2>1. write_size(size) = <<131, Byte2(size), Byte1(size), Byte0(size)>>
    BY <1>1, <1>7, SizeIs
  <2>. QED BY <1>2, <1>3, <2>1
<1>8. CASE size > 16777215
  <2>1. write_size(size) = <<132, Byte3(size), Byte2(size), Byte1(size), Byte0(size)>>
    BY <1>1, <1>8, SizeIs
  <2>. QED BY <1>2, <1>3, <2>1
<1>. QED BY <1>1, <1>4, <1>5, <1>6, <1>7, <1>8, SMT

(* The reader finds a length at the start of the bytes it was written to.  *)
LEMMA SizeRead ==
  ASSUME NEW size, Writable(size), NEW b \in Seq(Byte),
         Len(write_size(size)) <= Len(b),
         \A i \in 1..Len(write_size(size)) : b[i] = write_size(size)[i]
  PROVE  SizeBytes(b) = Len(write_size(size)) /\ ReadSize(b) = size
<1>1. size \in Nat
  BY DEF Writable
<1>2. /\ Byte3(size) \in Byte /\ Byte2(size) \in Byte /\ Byte1(size) \in Byte /\ Byte0(size) \in Byte
      /\ 256 * (256 * (256 * Byte3(size) + Byte2(size)) + Byte1(size)) + Byte0(size) = size
      /\ size < 16777216 => Byte3(size) = 0
      /\ size < 65536 => Byte2(size) = 0
  BY FourBytes
<1>. DEFINE t == SubSeq(b, 2, SizeBytes(b))
<1>3. \A i \in 1..Len(b) : b[i] \in Byte
  BY ElementOfSeq
<1>4. ASSUME NEW k \in 1..4, SizeBytes(b) = k + 1, k + 1 <= Len(b)
      PROVE  t \in Seq(Byte) /\ Len(t) = k /\ \A i \in 1..k, j \in Nat : j = i + 1 => t[i] = b[j]
  <2>1. k + 1 \in Int /\ 2 \in Int /\ 2 <= k + 1 /\ (k + 1) - 2 + 1 = k
    OBVIOUS
  <2>2. \A i \in 2..(k + 1) : b[i] \in Byte
    BY <1>3, <1>4
  <2>. DEFINE u == SubSeq(b, 2, k + 1)
  <2>3. /\ u \in Seq(Byte) /\ Len(u) = IF 2 <= k + 1 THEN (k + 1) - 2 + 1 ELSE 0
        /\ \A i \in 1..((k + 1) - 2 + 1) : u[i] = b[(2 + i) - 1]
    BY ONLY <2>1, <2>2, SubSeqProperties
  <2>4. t = u
    BY <1>4
  <2>. HIDE DEF u
  <2>5. \A i \in 1..k, j \in Nat : j = i + 1 => t[i] = b[j]
    <3>1. \A i \in 1..k, j \in Nat : j = i + 1 => (2 + i) - 1 = j /\ i \in 1..((k + 1) - 2 + 1)
      OBVIOUS
    <3>. QED BY ONLY <2>3, <2>4, <3>1
  <2>. QED BY <2>1, <2>3, <2>4, <2>5
<1>5. CASE size <= 128
  <2>1. write_size(size) = <<size>>
    BY <1>1, <1>5, SizeIs
  <2>2. Len(write_size(size)) = 1 /\ b[1] = size
    BY <2>1
  <2>. QED BY <1>5, <2>2 DEF SizeBytes, ReadSize
<1>. DEFINE n == Len(write_size(size))
<1>6. ASSUME n \in 2..5, b[1] = 127 + n
      PROVE  SizeBytes(b) = n /\ ReadSize(b) = BigEndian(t) /\ t \in Seq(Byte) /\ Len(t) = n - 1
             /\ \A i \in 1..(n - 1), j \in Nat : j = i + 1 => t[i] = write_size(size)[j]
  <2>. HIDE DEF n
  <2>1. ~(b[1] <= 128) /\ b[1] - 127 = n
    BY <1>6
  <2>2. SizeBytes(b) = n
    BY <2>1 DEF SizeBytes
  <2>3. ReadSize(b) = BigEndian(t)
    BY <2>1 DEF ReadSize
  <2>4. n - 1 \in 1..4 /\ (n - 1) + 1 = n /\ n <= Len(b)
    BY <1>6 DEF n
  <2>5. t \in Seq(Byte) /\ Len(t) = n - 1 /\ \A i \in 1..(n - 1), j \in Nat : j = i + 1 => t[i] = b[j]
    <3>. HIDE DEF t
    <3>. QED BY <1>4, <2>2, <2>4
  <2>6. \A i \in 1..(n - 1), j \in Nat : j = i + 1 => j \in 1..n
    BY <1>6
  <2>7. \A j \in 1..n : b[j] = write_size(size)[j]
    BY DEF n
  <2>. HIDE DEF t
  <2>. QED BY <2>2, <2>3, <2>5, <2>6, <2>7
<1>. HIDE DEF t
<1>7. CASE size > 128 /\ size <= 255
  <2>1. write_size(size) = <<129, size>>
    BY <1>1, <1>7, SizeIs
  <2>2. n = 2 /\ b[1] = 127 + n
    BY <2>1
  <2>3. /\ SizeBytes(b) = n /\ ReadSize(b) = BigEndian(t) /\ t \in Seq(Byte) /\ Len(t) = n - 1
        /\ \A i \in 1..(n - 1), j \in Nat : j = i + 1 => t[i] = write_size(size)[j]
    BY <1>6, <2>2
  <2>4. write_size(size)[2] = size
    BY <2>1
  <2>5. Len(t) = 1 /\ 1 \in 1..(n - 1) /\ 2 = 1 + 1
    BY <2>2, <2>3
  <2>6. t[1] = size
    BY <2>3, <2>4, <2>5
  <2>. QED BY <2>3, <2>5, <2>6, BigEndianIs
<1>8. CASE size > 255 /\ size <= 65535
  <2>1. write_size(size) = <<130, Byte1(size), Byte0(size)>>
    BY <1>1, <1>8, SizeIs
  <2>2. n = 3 /\ b[1] = 127 + n
    BY <2>1
  <2>3. /\ SizeBytes(b) = n /\ ReadSize(b) = BigEndian(t) /\ t \in Seq(Byte) /\ Len(t) = n - 1
        /\ \A i \in 1..(n - 1), j \in Nat : j = i + 1 => t[i] = write_size(size)[j]
    BY <1>6, <2>2
  <2>4. write_size(size)[2] = Byte1(size) /\ write_size(size)[3] = Byte0(size)
    BY <2>1
  <2>5. Len(t) = 2 /\ 1 \in 1..(n - 1) /\ 2 = 1 + 1 /\ 2 \in 1..(n - 1) /\ 3 = 2 + 1
    BY <2>2, <2>3
  <2>6. t[1] = Byte1(size) /\ t[2] = Byte0(size)
    BY <2>3, <2>4, <2>5
  <2>7. 256 * Byte1(size) + Byte0(size) = size
    <3>1. Byte3(size) = 0 /\ Byte2(size) = 0
      BY <1>1, <1>2, <1>8, SMT
    <3>2. \A d1, d0 \in Byte : 256 * (256 * (256 * 0 + 0) + d1) + d0 = 256 * d1 + d0
      BY ONLY DEF Byte
    <3>. QED BY ONLY <1>2, <3>1, <3>2, SMT
  <2>. QED BY <2>3, <2>5, <2>6, <2>7, BigEndianIs, SMT
<1>9. CASE size > 65535 /\ size <= 16777215
  <2>1. write_size(size) = <<131, Byte2(size), Byte1(size), Byte0(size)>>
    BY <1>1, <1>9, SizeIs
  <2>2. n = 4 /\ b[1] = 127 + n
    BY <2>1
  <2>3. /\ SizeBytes(b) = n /\ ReadSize(b) = BigEndian(t) /\ t \in Seq(Byte) /\ Len(t) = n - 1
        /\ \A i \in 1..(n - 1), j \in Nat : j = i + 1 => t[i] = write_size(size)[j]
    BY <1>6, <2>2
  <2>4. write_size(size)[2] = Byte2(size) /\ write_size(size)[3] = Byte1(size) /\ write_size(size)[4] = Byte0(size)
    BY <2>1
  <2>5. Len(t) = 3 /\ 1 \in 1..(n - 1) /\ 2 = 1 + 1 /\ 2 \in 1..(n - 1) /\ 3 = 2 + 1 /\ 3 \in 1..(n - 1) /\ 4 = 3 + 1
    BY <2>2, <2>3
  <2>6. t[1] = Byte2(size) /\ t[2] = Byte1(size) /\ t[3] = Byte0(size)
    BY <2>3, <2>4, <2>5
  <2>7. 256 * (256 * Byte2(size) + Byte1(size)) + Byte0(size) = size
    <3>1. Byte3(size) = 0
      BY <1>1, <1>2, <1>9, SMT
    <3>2. \A d2, d1, d0 \in Byte :
            256 * (256 * (256 * 0 + d2) + d1) + d0 = 256 * (256 * d2 + d1) + d0
      BY ONLY DEF Byte
    <3>. QED BY ONLY <1>2, <3>1, <3>2, SMT
  <2>. QED BY <2>3, <2>5, <2>6, <2>7, BigEndianIs, SMT
<1>10. CASE size > 16777215
  <2>1. write_size(size) = <<132, Byte3(size), Byte2(size), Byte1(size), Byte0(size)>>
    BY <1>1, <1>10, SizeIs
  <2>2. n = 5 /\ b[1] = 127 + n
    BY <2>1
  <2>3. /\ SizeBytes(b) = n /\ ReadSize(b) = BigEndian(t) /\ t \in Seq(Byte) /\ Len(t) = n - 1
        /\ \A i \in 1..(n - 1), j \in Nat : j = i + 1 => t[i] = write_size(size)[j]
    BY <1>6, <2>2
  <2>4. write_size(size)[2] = Byte3(size) /\ write_size(size)[3] = Byte2(size) /\ write_size(size)[4] = Byte1(size) /\ write_size(size)[5] = Byte0(size)
    BY <2>1
  <2>5. Len(t) = 4 /\ 1 \in 1..(n - 1) /\ 2 = 1 + 1 /\ 2 \in 1..(n - 1) /\ 3 = 2 + 1 /\ 3 \in 1..(n - 1) /\ 4 = 3 + 1 /\ 4 \in 1..(n - 1) /\ 5 = 4 + 1
    BY <2>2, <2>3
  <2>6. t[1] = Byte3(size) /\ t[2] = Byte2(size) /\ t[3] = Byte1(size) /\ t[4] = Byte0(size)
    BY <2>3, <2>4, <2>5
  <2>. QED BY <1>2, <2>3, <2>5, <2>6, BigEndianIs, SMT
<1>. QED BY <1>1, <1>5, <1>7, <1>8, <1>9, <1>10, SMT

-----------------------------------------------------------------------------
(* Requests: the three are one, with a presence byte of their own.         *)

(* What a concatenation of bytes is, place by place.                       *)
LEMMA ConcatIs ==
  ASSUME NEW x \in Seq(Byte), NEW y \in Seq(Byte)
  PROVE  /\ x \o y \in Seq(Byte)
         /\ Len(x \o y) = Len(x) + Len(y)
         /\ \A i \in 1..Len(x) : (x \o y)[i] = x[i]
         /\ \A i \in 1..Len(y), k \in Nat : k = i + Len(x) => (x \o y)[k] = y[i]
<1>. DEFINE z == x \o y
<1>1. Len(x) \in Nat /\ Len(y) \in Nat
  OBVIOUS
<1>2. z \in Seq(Byte) /\ Len(z) = Len(x) + Len(y)
  BY ConcatProperties
<1>3. \A k \in 1..(Len(x) + Len(y)) : z[k] = IF k <= Len(x) THEN x[k] ELSE y[k - Len(x)]
  BY ConcatProperties
<1>. HIDE DEF z
<1>4. \A i \in 1..Len(x) : z[i] = x[i]
  BY <1>1, <1>3
<1>5. ASSUME NEW i \in 1..Len(y), NEW k \in Nat, k = i + Len(x) PROVE z[k] = y[i]
  <2>1. k \in 1..(Len(x) + Len(y)) /\ ~(k <= Len(x)) /\ k - Len(x) = i
    BY <1>1, <1>5
  <2>. QED BY <1>3, <2>1
<1>. QED BY <1>2, <1>4, <1>5 DEF z

(* What stands behind x is all there is behind it.                         *)
LEMMA Rest ==
  ASSUME NEW x \in Seq(Byte), NEW y \in Seq(Byte)
  PROVE  SubSeq(x \o y, Len(x) + 1, Len(x) + Len(y)) = y
<1>. DEFINE m == Len(x) + 1
            n == Len(x) + Len(y)
            z == x \o y
            u == SubSeq(z, m, n)
<1>1. Len(x) \in Nat /\ Len(y) \in Nat /\ m \in Int /\ n \in Int /\ m \in Nat
  OBVIOUS
<1>2. /\ z \in Seq(Byte) /\ Len(z) = Len(x) + Len(y)
      /\ \A i \in 1..Len(y), k \in Nat : k = i + Len(x) => z[k] = y[i]
  BY ConcatIs
<1>. HIDE DEF z
<1>3. \A i \in m..n : z[i] \in Byte
  <2>1. \A i \in m..n : i \in 1..Len(z)
    BY <1>1, <1>2
  <2>. QED BY <1>2, <2>1, ElementOfSeq
<1>4. /\ u \in Seq(Byte) /\ Len(u) = IF m <= n THEN n - m + 1 ELSE 0
      /\ \A i \in 1..(n - m + 1) : u[i] = z[m + i - 1]
  BY ONLY <1>1, <1>3, SubSeqProperties
<1>5. Len(u) = Len(y)
  BY <1>1, <1>4
<1>6. ASSUME NEW i \in 1..Len(y) PROVE u[i] = y[i]
  <2>1. i \in 1..(n - m + 1) /\ m + i - 1 = i + Len(x) /\ m + i - 1 \in Nat
    BY <1>1
  <2>. QED BY <1>2, <1>4, <2>1
<1>7. u = y
  <2>. HIDE DEF u
  <2>. QED BY ONLY <1>4, <1>5, <1>6, y \in Seq(Byte), SeqEqual
<1>. QED BY <1>7 DEF z

(* The three requests are this one.                                        *)
HeadOf(req, tag, p) == <<tag, 1>> \o Descriptor(req) \o <<p>>

RequestOf(req, tag, p) == HeadOf(req, tag, p) \o req.data

(* The two bytes of a class.                                               *)
LEMMA HalfBytes ==
  ASSUME NEW c \in Half
  PROVE  c \div 256 \in Byte /\ c % 256 \in Byte /\ 256 * (c \div 256) + (c % 256) = c
<1>1. c \in Nat /\ c <= 65535
  BY SMT DEF Half
<1>2. c \div 256 >= 0 /\ c \div 256 <= 255 /\ c \div 256 \in Int
  BY <1>1, SMT
<1>3. c % 256 >= 0 /\ c % 256 <= 255 /\ c % 256 \in Int
  BY <1>1, SMT
<1>4. 256 * (c \div 256) + (c % 256) = c
  BY <1>1, SMT
<1>5. \A x \in Int : x >= 0 /\ x <= 255 => x \in Byte
  BY DEF Byte
<1>. QED BY ONLY <1>2, <1>3, <1>4, <1>5, Zenon

(* A request that can be written, and what the meter finds in its head.    *)
Proper(req) ==
  /\ req.class_id \in Half /\ req.index \in Byte /\ req.data \in Seq(Byte)
  /\ req.logical_name \in Seq(Byte) /\ Len(req.logical_name) = 6

HeadForm(h, req, tag, p) ==
  /\ h \in Seq(Byte) /\ Len(h) = 13 /\ h[1] = tag
  /\ 256 * h[4] + h[5] = req.class_id
  /\ \A i \in 1..6, k \in Nat : k = i + 5 => h[k] = req.logical_name[i]
  /\ h[12] = req.index /\ h[13] = p

RequestForm(r, req, tag, p) ==
  /\ r \in Seq(Byte) /\ Len(r) = 13 + Len(req.data) /\ r[1] = tag
  /\ ClassRead(r) = req.class_id
  /\ \A i \in 1..6 : NameRead(r)[i] = req.logical_name[i]
  /\ IndexRead(r) = req.index /\ r[13] = p
  /\ DataRead(r) = req.data

(* The descriptor and what goes before and behind it: 13 bytes.            *)
LEMMA HeadIs ==
  ASSUME NEW req, NEW tag \in Byte, NEW p \in Byte, Proper(req)
  PROVE  HeadForm(HeadOf(req, tag, p), req, tag, p)
<1>0. /\ req.class_id \in Half /\ req.index \in Byte
      /\ req.logical_name \in Seq(Byte) /\ Len(req.logical_name) = 6
  BY DEF Proper
<1>. DEFINE hi == req.class_id \div 256
            lo == req.class_id % 256
            a == <<193, hi, lo>>
            b == a \o req.logical_name
            c == <<req.index>>
            d == b \o c
            e == <<tag, 1>>
            f == e \o d
            g == <<p>>
            h == f \o g
<1>1. Descriptor(req) = d
  BY DEF Descriptor
<1>2. hi \in Byte /\ lo \in Byte /\ 256 * hi + lo = req.class_id /\ 193 \in Byte /\ 1 \in Byte
  <2>1. hi \in Byte /\ lo \in Byte /\ 256 * hi + lo = req.class_id
    BY <1>0, HalfBytes
  <2>. QED BY <2>1 DEF Byte
<1>. HIDE DEF hi, lo
<1>3. /\ a \in Seq(Byte) /\ Len(a) = 3 /\ a[2] = hi /\ a[3] = lo
      /\ c \in Seq(Byte) /\ Len(c) = 1 /\ c[1] = req.index
      /\ e \in Seq(Byte) /\ Len(e) = 2 /\ e[1] = tag
      /\ g \in Seq(Byte) /\ Len(g) = 1 /\ g[1] = p
  BY <1>0, <1>2
<1>. HIDE DEF a, c, e, g
<1>4. /\ b \in Seq(Byte) /\ Len(b) = Len(a) + Len(req.logical_name)
      /\ \A i \in 1..Len(a) : b[i] = a[i]
      /\ \A i \in 1..Len(req.logical_name), k \in Nat :
           k = i + Len(a) => b[k] = req.logical_name[i]
  BY <1>0, <1>3, ConcatIs
<1>. HIDE DEF b
<1>5. /\ d \in Seq(Byte) /\ Len(d) = Len(b) + Len(c)
      /\ \A i \in 1..Len(b) : d[i] = b[i]
      /\ \A i \in 1..Len(c), k \in Nat : k = i + Len(b) => d[k] = c[i]
  BY <1>3, <1>4, ConcatIs
<1>. HIDE DEF d
<1>6. /\ f \in Seq(Byte) /\ Len(f) = Len(e) + Len(d)
      /\ \A i \in 1..Len(e) : f[i] = e[i]
      /\ \A i \in 1..Len(d), k \in Nat : k = i + Len(e) => f[k] = d[i]
  BY <1>3, <1>5, ConcatIs
<1>. HIDE DEF f
<1>7. /\ h \in Seq(Byte) /\ Len(h) = Len(f) + Len(g)
      /\ \A i \in 1..Len(f) : h[i] = f[i]
      /\ \A i \in 1..Len(g), k \in Nat : k = i + Len(f) => h[k] = g[i]
  BY <1>3, <1>6, ConcatIs
<1>8. h = HeadOf(req, tag, p)
  BY <1>1 DEF f, e, g, HeadOf
<1>. HIDE DEF h
<1>9. Len(b) = 9 /\ Len(d) = 10 /\ Len(f) = 12 /\ Len(h) = 13
  BY <1>0, <1>3, <1>4, <1>5, <1>6, <1>7
<1>10. \A i \in 1..9, k \in Nat : k = i + 2 => h[k] = b[i]
  <2>1. \A i \in 1..9, k \in Nat : k = i + 2 => k \in 1..12 /\ i \in 1..10
    OBVIOUS
  <2>2. \A i \in 1..10, k \in Nat : k = i + 2 => f[k] = d[i]
    BY ONLY <1>3, <1>6, <1>9
  <2>3. \A i \in 1..9 : d[i] = b[i]
    BY ONLY <1>5, <1>9
  <2>4. \A k \in 1..12 : h[k] = f[k]
    BY ONLY <1>7, <1>9
  <2>. QED BY ONLY <2>1, <2>2, <2>3, <2>4
<1>11. h[4] = hi /\ h[5] = lo
  <2>1. 2 \in 1..9 /\ 3 \in 1..9 /\ 4 = 2 + 2 /\ 5 = 3 + 2 /\ 2 \in 1..3 /\ 3 \in 1..3 /\ 4 \in Nat /\ 5 \in Nat
    OBVIOUS
  <2>. QED BY ONLY <1>3, <1>4, <1>10, <2>1
<1>12. \A i \in 1..6, k \in Nat : k = i + 5 => h[k] = req.logical_name[i]
  <2>1. \A i \in 1..6, k \in Nat : k = i + 5 => i + 3 \in 1..9 /\ k = (i + 3) + 2 /\ i + 3 \in Nat
    OBVIOUS
  <2>2. \A i \in 1..6, k \in Nat : k = i + 3 => b[k] = req.logical_name[i]
    <3>1. 1..Len(req.logical_name) = 1..6 /\ Len(a) = 3
      BY ONLY <1>0, <1>3
    <3>2. \A i \in 1..Len(req.logical_name), k \in Nat :
            k = i + Len(a) => b[k] = req.logical_name[i]
      BY ONLY <1>4
    <3>. QED BY ONLY <3>1, <3>2, Zenon
  <2>3. \A i \in 1..6 : b[i + 3] = req.logical_name[i]
    BY ONLY <2>1, <2>2
  <2>. QED BY ONLY <1>10, <2>1, <2>3
<1>13. h[12] = req.index
  <2>1. 1 \in 1..1 /\ 10 = 1 + 9 /\ 10 \in 1..10 /\ 12 = 10 + 2 /\ 12 \in 1..12 /\ 10 \in Nat /\ 12 \in Nat
    OBVIOUS
  <2>. QED BY ONLY <1>3, <1>5, <1>6, <1>7, <1>9, <2>1
<1>14. h[13] = p /\ h[1] = tag
  <2>1. 1 \in 1..1 /\ 13 = 1 + 12 /\ 13 \in Nat /\ 1 \in 1..2 /\ 1 \in 1..12
    OBVIOUS
  <2>. QED BY ONLY <1>3, <1>6, <1>7, <1>9, <2>1
<1>15. 256 * h[4] + h[5] = req.class_id
  BY <1>2, <1>11
<1>. QED BY ONLY <1>7, <1>8, <1>9, <1>12, <1>13, <1>14, <1>15 DEF HeadForm

(* A request: the head, and the data behind it.                            *)
LEMMA RequestIs ==
  ASSUME NEW req, NEW tag \in Byte, NEW p \in Byte, Proper(req)
  PROVE  RequestForm(RequestOf(req, tag, p), req, tag, p)
<1>. DEFINE head == HeadOf(req, tag, p)
            r == RequestOf(req, tag, p)
<1>1. /\ head \in Seq(Byte) /\ Len(head) = 13 /\ head[1] = tag
      /\ 256 * head[4] + head[5] = req.class_id
      /\ \A i \in 1..6, k \in Nat : k = i + 5 => head[k] = req.logical_name[i]
      /\ head[12] = req.index /\ head[13] = p
  BY HeadIs DEF HeadForm
<1>8. r = head \o req.data /\ req.data \in Seq(Byte) /\ Len(req.data) \in Nat
  BY DEF RequestOf, Proper
<1>. HIDE DEF head, r
<1>2. /\ r \in Seq(Byte) /\ Len(r) = Len(head) + Len(req.data)
      /\ \A i \in 1..Len(head) : r[i] = head[i]
  BY ONLY <1>8, <1>1, ConcatIs
<1>3. DataRead(r) = req.data
  <2>1. 14 = Len(head) + 1
    BY <1>1
  <2>2. SubSeq(head \o req.data, Len(head) + 1, Len(head) + Len(req.data)) = req.data
    BY ONLY <1>8, <1>1, Rest
  <2>. QED BY ONLY <1>2, <1>8, <2>1, <2>2 DEF DataRead
<1>4. r[1] = tag /\ r[4] = head[4] /\ r[5] = head[5] /\ r[12] = req.index /\ r[13] = p
  <2>1. 1 \in 1..13 /\ 4 \in 1..13 /\ 5 \in 1..13 /\ 12 \in 1..13 /\ 13 \in 1..13
    OBVIOUS
  <2>. QED BY ONLY <1>1, <1>2, <2>1
<1>5. ASSUME NEW i \in 1..6 PROVE NameRead(r)[i] = req.logical_name[i]
  <2>. DEFINE u == SubSeq(r, 6, 11)
  <2>1. \A j \in 6..11 : r[j] \in Byte
    <3>1. \A j \in 6..11 : j \in 1..Len(r)
      <4>1. Len(r) = 13 + Len(req.data)
        BY ONLY <1>1, <1>2
      <4>2. Len(req.data) \in Nat
        BY ONLY <1>8
      <4>. QED BY ONLY <4>1, <4>2
    <3>. QED BY <1>2, <3>1, ElementOfSeq
  <2>2. 6 \in Int /\ 11 \in Int
    OBVIOUS
  <2>3. \A j \in 1..(11 - 6 + 1) : u[j] = r[6 + j - 1]
    BY ONLY <2>1, <2>2, SubSeqProperties
  <2>4. i \in 1..(11 - 6 + 1) /\ 6 + i - 1 = i + 5 /\ i + 5 \in Nat /\ i + 5 \in 1..13
    OBVIOUS
  <2>5. u[i] = r[i + 5] /\ r[i + 5] = head[i + 5] /\ head[i + 5] = req.logical_name[i]
    <3>. HIDE DEF u
    <3>. QED BY ONLY <1>1, <1>2, <1>5, <2>3, <2>4
  <2>. QED BY <2>5 DEF NameRead
<1>6. ClassRead(r) = req.class_id /\ IndexRead(r) = req.index
  BY <1>1, <1>4 DEF ClassRead, IndexRead
<1>7. Len(r) = 13 + Len(req.data)
  BY <1>1, <1>2
<1>. QED BY <1>2, <1>3, <1>4, <1>5, <1>6, <1>7 DEF r, RequestForm

-----------------------------------------------------------------------------
(* Names and packed values.                                                *)

(* A function on the first numbers is a sequence of that length.           *)
LEMMA SixBytes ==
  ASSUME NEW f \in [1..6 -> Byte]
  PROVE  f \in Seq(Byte) /\ Len(f) = 6
<1>1. f \in Seq(Byte)
  <2>1. 6 \in Nat
    OBVIOUS
  <2>. QED BY <2>1, SeqDef
<1>2. 1..Len(f) = 1..6 /\ Len(f) \in Nat
  BY <1>1, LenProperties
<1>. QED BY <1>1, <1>2

(* What stands before, between and behind the dots, but an empty end.      *)
LEMMA TokensAre ==
  ASSUME NEW parts \in Seq(Part), parts # <<>>, Len(Tokens(parts)) = 6
  PROVE  \A i \in 1..6 : i \in 1..Len(parts) /\ Tokens(parts)[i] = parts[i]
<1>1. Len(parts) \in Nat \ {0}
  BY EmptySeq
<1>2. CASE Last(parts) = <<>>
  <2>1. Tokens(parts) = SubSeq(parts, 1, Len(parts) - 1)
    BY <1>2 DEF Tokens, Front
  <2>. DEFINE m == 1
              n == Len(parts) - 1
              u == SubSeq(parts, m, n)
  <2>2. m \in Int /\ n \in Int /\ \A i \in m..n : parts[i] \in Part
    BY <1>1, ElementOfSeq
  <2>3. /\ Len(u) = IF m <= n THEN n - m + 1 ELSE 0
        /\ \A i \in 1..(n - m + 1) : u[i] = parts[m + i - 1]
    BY ONLY <2>2, SubSeqProperties
  <2>4. Len(u) = n
    <3>1. \A k \in Nat \ {0} : (IF 1 <= k - 1 THEN (k - 1) - 1 + 1 ELSE 0) = k - 1
      OBVIOUS
    <3>. QED BY ONLY <1>1, <2>3, <3>1
  <2>5. \A i \in 1..n : i \in 1..(n - m + 1) /\ m + i - 1 = i /\ i \in 1..Len(parts)
    BY <1>1
  <2>6. n = 6 /\ u = Tokens(parts)
    BY <2>1, <2>4
  <2>. HIDE DEF u, m, n
  <2>. QED BY <2>3, <2>5, <2>6
<1>3. CASE Last(parts) # <<>>
  BY <1>3 DEF Tokens
<1>. QED BY <1>2, <1>3

(* A name that is one: six bytes, those of the list or the dotted string.  *)
LEMMA NameIs ==
  ASSUME NEW name \in [from : {"string"}, parts : Seq(Part)]
                        \cup [from : {"list"}, parts : Seq(Byte)],
         name.from = "string" => name.parts # <<>>,
         NameOf(name) # InvalidName
  PROVE  /\ NameOf(name) \in Seq(Byte) /\ Len(NameOf(name)) = 6
         /\ NameUnderstood(name, NameOf(name))
<1>1. CASE name.from = "list"
  <2>1. name.parts \in Seq(Byte)
    BY <1>1
  <2>2. NameOf(name) = FromList(name.parts)
    BY <1>1 DEF NameOf
  <2>3. Len(name.parts) = 6 /\ NameOf(name) = name.parts
    BY <2>2 DEF FromList
  <2>4. DOMAIN name.parts = 1..6
    BY <2>1, <2>3, LenProperties
  <2>. QED BY <1>1, <2>1, <2>3, <2>4 DEF NameUnderstood
<1>2. CASE name.from = "string"
  <2>1. name.parts \in Seq(Part) /\ name.parts # <<>>
    BY <1>2
  <2>. DEFINE parts == name.parts
              tokens == Tokens(parts)
              g == [i \in 1..6 |-> atoi(tokens[i]) % 256]
  <2>2. NameOf(name) = FromString(parts)
    BY <1>2 DEF NameOf
  <2>3. Len(tokens) = 6 /\ NameOf(name) = g
    BY <2>2 DEF FromString
  <2>4. \A i \in 1..6 : i \in 1..Len(parts) /\ tokens[i] = parts[i]
    BY <2>1, <2>3, TokensAre
  <2>5. DOMAIN parts = 1..Len(parts)
    BY <2>1, LenProperties
  <2>6. ASSUME NEW i \in 1..6
        PROVE  g[i] \in Byte /\ SamePart(parts[i], g[i])
    <3>1. g[i] = atoi(parts[i]) % 256
      BY <2>4
    <3>2. parts[i] \in Part
      BY <2>1, <2>4, ElementOfSeq
    <3>. DEFINE part == parts[i]
                byte == g[i]
    <3>. HIDE DEF part, byte, g
    <3>3. part \in Seq(Int) /\ Len(part) <= 1 /\ (part # <<>> => part[1] \in Int)
      <4>1. part \in Seq(Int)
        BY <3>2 DEF Part, part
      <4>2. part # <<>> => Len(part) \in Nat \ {0}
        BY ONLY <4>1, EmptySeq
      <4>3. part # <<>> => 1 \in 1..Len(part)
        BY <4>2
      <4>. QED BY <3>2, <4>1, <4>3, ElementOfSeq DEF Part, part
    <3>4. CASE part = <<>>
      <4>1. byte = 0
        BY <3>1, <3>4 DEF atoi, part, byte
      <4>. QED BY <3>4, <4>1 DEF Byte, SamePart, part, byte
    <3>5. CASE part # <<>>
      <4>. DEFINE n == part[1]
      <4>1. byte = n % 256 /\ n \in Int
        BY <3>1, <3>3, <3>5 DEF atoi, part, byte
      <4>. HIDE DEF n
      <4>2. byte \in 0..255 /\ (n \in 0..255 => byte = n)
        BY ONLY <4>1, SMT
      <4>. QED BY <4>2 DEF Byte, SamePart, part, byte, n
    <3>. QED BY <3>4, <3>5 DEF part, byte
  <2>7. g \in [1..6 -> Byte]
    BY <2>6
  <2>8. g \in Seq(Byte) /\ Len(g) = 6
    <3>. HIDE DEF g
    <3>. QED BY <2>7, SixBytes
  <2>. HIDE DEF g, tokens
  <2>. QED BY <1>2, <2>3, <2>4, <2>5, <2>6, <2>8 DEF NameUnderstood
<1>. QED BY <1>1, <1>2

(* A value that is packed: its tag, the length of its text, and the text.  *)
PackedForm(v, tag, text) ==
  /\ v \in Seq(Byte) /\ v # <<>> /\ v[1] = tag
  /\ Tail(v) = write_size(Len(text)) \o text
  /\ Tail(v) \in Seq(Byte)
  /\ Len(Tail(v)) = Len(write_size(Len(text))) + Len(text)
  /\ Len(v) = 1 + Len(Tail(v))

(* What pack_sized_type packs has this form.                               *)
LEMMA PackedIs ==
  ASSUME NEW text \in Seq(Byte), Writable(Len(text)), NEW tag \in Byte,
         NEW v, v = pack_sized_type(tag, text)
  PROVE  PackedForm(v, tag, text)
<1>. DEFINE s == write_size(Len(text))
            a == <<tag>>
            b == s \o text
<1>1. s \in Seq(Byte) /\ Len(s) \in 1..5
  BY SizeIsBytes
<1>2. a \in Seq(Byte) /\ Len(a) = 1 /\ a[1] = tag /\ Len(text) \in Nat
  OBVIOUS
<1>. HIDE DEF s, a
<1>3. v = (a \o s) \o text
  BY DEF pack_sized_type, s, a
<1>4. v = a \o b
  BY <1>1, <1>2, <1>3, ConcatAssociative
<1>5. b \in Seq(Byte) /\ Len(b) = Len(s) + Len(text)
  BY <1>1, ConcatIs
<1>. HIDE DEF b
<1>6. v \in Seq(Byte) /\ Len(v) = Len(a) + Len(b) /\ \A i \in 1..Len(a) : v[i] = a[i]
  <2>1. /\ a \o b \in Seq(Byte) /\ Len(a \o b) = Len(a) + Len(b)
        /\ \A i \in 1..Len(a) : (a \o b)[i] = a[i]
    BY ONLY <1>2, <1>5, ConcatIs
  <2>. QED BY ONLY <1>4, <2>1
<1>7. v # <<>> /\ v[1] = tag /\ Len(v) = 1 + Len(b)
  BY <1>1, <1>2, <1>5, <1>6, EmptySeq
<1>8. Tail(v) = b
  <2>1. Tail(v) = SubSeq(v, 2, Len(v))
    BY <1>6, <1>7, TailIsSubSeq
  <2>2. SubSeq(a \o b, Len(a) + 1, Len(a) + Len(b)) = b
    BY <1>2, <1>5, Rest
  <2>3. Len(a) + 1 = 2
    BY <1>2
  <2>. QED BY ONLY <1>4, <1>6, <2>1, <2>2, <2>3
<1>. QED BY <1>5, <1>6, <1>7, <1>8 DEF b, s, PackedForm

-----------------------------------------------------------------------------
(* A request as the meter reads it, an answer as the client does.          *)

(* A packed value is read back as it was packed, and nothing is left over. *)
LEMMA PackedRead ==
  ASSUME NEW text \in Seq(Byte), Writable(Len(text)), NEW tag \in Byte,
         NEW v, v = pack_sized_type(tag, text)
  PROVE  LET start == SizeBytes(Tail(v)) + 1
         IN  /\ SubSeq(Tail(v), start, start + ReadSize(Tail(v)) - 1) = text
             /\ Len(Tail(v)) = start + ReadSize(Tail(v)) - 1
<1>. DEFINE s == write_size(Len(text))
            b == Tail(v)
            start == SizeBytes(b) + 1
<1>1. b \in Seq(Byte) /\ b = s \o text /\ Len(b) = Len(s) + Len(text)
  BY PackedIs DEF PackedForm
<1>2. s \in Seq(Byte) /\ Len(s) \in 1..5 /\ Len(text) \in Nat
  BY SizeIsBytes
<1>3. \A i \in 1..Len(s) : b[i] = s[i]
  <2>. HIDE DEF s, b
  <2>. QED BY ONLY <1>1, <1>2, ConcatIs, text \in Seq(Byte)
<1>4. SizeBytes(b) = Len(s) /\ ReadSize(b) = Len(text)
  <2>1. Len(s) <= Len(b)
    BY <1>1, <1>2
  <2>. HIDE DEF b
  <2>. QED BY <1>1, <1>3, <2>1, SizeRead
<1>. HIDE DEF s, b
<1>5. start = Len(s) + 1 /\ start + ReadSize(b) - 1 = Len(s) + Len(text)
  BY ONLY <1>2, <1>4
<1>6. SubSeq(s \o text, Len(s) + 1, Len(s) + Len(text)) = text
  BY <1>2, Rest
<1>7. /\ SubSeq(b, start, start + ReadSize(b) - 1) = text
      /\ Len(b) = start + ReadSize(b) - 1
  BY ONLY <1>1, <1>5, <1>6
<1>. QED BY <1>7 DEF b

(* Every tag is a byte.                                                    *)
LEMMA TagsAreBytes == DataType \subseteq Byte
BY DEF DataType, Byte

(* What a request is built from.                                           *)
LEMMA BuiltIs ==
  ASSUME NEW args \in Requests, NameOf(args.name) # InvalidName
  PROVE  LET req == Built(args)
         IN  /\ req.class_id = args.class_id /\ req.class_id \in Half
             /\ req.logical_name \in Seq(Byte) /\ Len(req.logical_name) = 6
             /\ NameUnderstood(args.name, req.logical_name)
             /\ req.index = args.index /\ req.index \in Byte
             /\ req.data \in Seq(Byte)
             /\ req.data # <<>> => req.data = pack_sized_type(args.value.tag, args.value.text)
             /\ args.value.text \in Seq(Byte) /\ Writable(Len(args.value.text))
             /\ args.value.tag \in Byte
<1>. DEFINE req == Built(args)
<1>1. args \in RequestType /\ Writable(Len(args.value.text))
  BY ApduAssumption
<1>2. /\ args.class_id \in Half /\ args.index \in Byte
      /\ args.name \in [from : {"string"}, parts : Seq(Part)]
                         \cup [from : {"list"}, parts : Seq(Byte)]
      /\ args.value.text \in Seq(Byte) /\ args.value.tag \in DataType
  BY <1>1 DEF RequestType
<1>3. args.name.from = "string" => args.name.parts # <<>>
  BY ApduAssumption
<1>4. /\ req.class_id = args.class_id /\ req.index = args.index
      /\ req.logical_name = NameOf(args.name)
      /\ req.data = from_bytes(args.value.text, args.value.tag)
  BY DEF Built
<1>5. /\ NameOf(args.name) \in Seq(Byte) /\ Len(NameOf(args.name)) = 6
      /\ NameUnderstood(args.name, NameOf(args.name))
  BY ONLY <1>2, <1>3, NameOf(args.name) # InvalidName, NameIs
<1>6. args.value.tag \in Byte
  BY <1>2, TagsAreBytes
<1>7. pack_sized_type(args.value.tag, args.value.text) \in Seq(Byte)
  BY <1>1, <1>2, <1>6, PackedIs DEF PackedForm
<1>8. \/ req.data = <<>>
      \/ req.data = pack_sized_type(args.value.tag, args.value.text)
  BY <1>4 DEF from_bytes
<1>. HIDE DEF req
<1>9. req.data \in Seq(Byte)
  BY <1>7, <1>8, EmptySeq
<1>. QED BY ONLY <1>1, <1>2, <1>4, <1>5, <1>6, <1>8, <1>9 DEF req

(* The three requests, as the meter reads them.                            *)
RequestRead(kind, args, r) ==
  /\ r \in Seq(Byte)
  /\ Readable(kind, r)
  /\ ClassRead(r) = args.class_id
  /\ IndexRead(r) = args.index
  /\ NameUnderstood(args.name, NameRead(r))
  /\ DataRead(r) # <<>> => DataRead(r) = pack_sized_type(args.value.tag, args.value.text)

(* A request whose presence byte is right is read as it was made.          *)
LEMMA RequestOfRead ==
  ASSUME NEW args \in Requests, NameOf(args.name) # InvalidName,
         NEW kind \in {"get", "set", "action"}, NEW p \in {0, 1},
         kind = "set" => p = 0,
         kind # "set" => (p = 0 <=> Built(args).data = <<>>)
  PROVE  RequestRead(kind, args, RequestOf(Built(args), Tag[kind], p))
<1>. DEFINE req == Built(args)
            tag == Tag[kind]
            r == RequestOf(req, tag, p)
<1>1. /\ req.class_id = args.class_id /\ req.class_id \in Half
      /\ req.logical_name \in Seq(Byte) /\ Len(req.logical_name) = 6
      /\ NameUnderstood(args.name, req.logical_name)
      /\ req.index = args.index /\ req.index \in Byte
      /\ req.data \in Seq(Byte)
      /\ req.data # <<>> => req.data = pack_sized_type(args.value.tag, args.value.text)
  BY BuiltIs
<1>2. kind # "set" => (p = 0 <=> req.data = <<>>)
  OBVIOUS
<1>3. tag \in Byte /\ p \in Byte
  <2>1. 192 \in Byte /\ 193 \in Byte /\ 195 \in Byte /\ 0 \in Byte /\ 1 \in Byte
    BY DEF Byte
  <2>2. Tag["get"] = 192 /\ Tag["set"] = 193 /\ Tag["action"] = 195
    BY DEF Tag
  <2>. QED BY <2>1, <2>2
<1>. HIDE DEF req, tag
<1>10. Proper(req)
  BY ONLY <1>1 DEF Proper
<1>4. /\ r \in Seq(Byte) /\ Len(r) = 13 + Len(req.data) /\ r[1] = tag
      /\ ClassRead(r) = req.class_id
      /\ \A i \in 1..6 : NameRead(r)[i] = req.logical_name[i]
      /\ IndexRead(r) = req.index /\ r[13] = p
      /\ DataRead(r) = req.data
  BY ONLY <1>3, <1>10, RequestIs DEF RequestForm
<1>. HIDE DEF r
<1>5. Len(req.data) \in Nat /\ (Len(req.data) = 0 <=> req.data = <<>>)
  BY <1>1, EmptySeq
<1>6. Len(r) >= 13 /\ (Len(r) = 13 <=> req.data = <<>>)
  BY <1>4, <1>5
<1>7. Readable(kind, r)
  BY <1>2, <1>4, <1>6 DEF Readable, tag
<1>8. NameUnderstood(args.name, NameRead(r))
  BY <1>1, <1>4 DEF NameUnderstood
<1>9. RequestRead(kind, args, r)
  BY <1>1, <1>4, <1>7, <1>8 DEF RequestRead
<1>. QED BY <1>9 DEF r, req, tag

(* The presence byte is right in each of the three requests.               *)
LEMMA RequestReadIs ==
  ASSUME NEW args \in Requests, NameOf(args.name) # InvalidName
  PROVE  /\ RequestRead("get", args, serialize_get_request(Built(args)))
         /\ RequestRead("set", args, serialize_set_request(Built(args)))
         /\ RequestRead("action", args, serialize_action_request(Built(args)))
<1>. DEFINE req == Built(args)
            p == Presence(req)
<1>1. p \in {0, 1} /\ (p = 0 <=> req.data = <<>>)
  BY DEF Presence
<1>2. /\ serialize_get_request(req) = RequestOf(req, Tag["get"], p)
      /\ serialize_set_request(req) = RequestOf(req, Tag["set"], 0)
      /\ serialize_action_request(req) = RequestOf(req, Tag["action"], p)
  BY DEF serialize_get_request, serialize_set_request, serialize_action_request,
         RequestOf, HeadOf
<1>. HIDE DEF p
<1>3. RequestRead("get", args, RequestOf(req, Tag["get"], p))
  BY <1>1, RequestOfRead
<1>4. RequestRead("set", args, RequestOf(req, Tag["set"], 0))
  BY RequestOfRead
<1>5. RequestRead("action", args, RequestOf(req, Tag["action"], p))
  BY <1>1, RequestOfRead
<1>. QED BY <1>2, <1>3, <1>4, <1>5

(* An answer, as parse_get_response takes it.                              *)
LEMMA ResponseIs ==
  ASSUME NEW choice \in {0, 1}, NEW data \in Seq(Byte)
  PROVE  LET r == <<196, 1, 193, choice>> \o data
         IN  r \in Seq(Byte) /\ parse_get_response(r) = [result |-> choice, data |-> data]
<1>. DEFINE a == <<196, 1, 193, choice>>
            r == a \o data
<1>2. a \in Seq(Byte) /\ Len(a) = 4 /\ a[1] = 196 /\ a[2] = 1 /\ a[4] = choice
  <2>1. 196 \in Byte /\ 1 \in Byte /\ 193 \in Byte /\ choice \in Byte
    BY DEF Byte
  <2>. QED BY <2>1
<1>. HIDE DEF a
<1>3. /\ r \in Seq(Byte) /\ Len(r) = Len(a) + Len(data)
      /\ \A i \in 1..Len(a) : r[i] = a[i]
  <2>1. a \in Seq(Byte) /\ data \in Seq(Byte)
    BY <1>2
  <2>. QED BY ONLY <2>1, ConcatIs
<1>4. SubSeq(r, 5, Len(r)) = data
  <2>1. SubSeq(r, Len(a) + 1, Len(a) + Len(data)) = data
    BY <1>2, Rest
  <2>2. Len(a) + 1 = 5
    BY <1>2
  <2>. QED BY ONLY <1>3, <2>1, <2>2
<1>. HIDE DEF r
<1>5. r[1] = 196 /\ r[2] = 1 /\ r[4] = choice
  <2>1. 1 \in 1..4 /\ 2 \in 1..4 /\ 4 \in 1..4
    OBVIOUS
  <2>. QED BY ONLY <1>2, <1>3, <2>1
<1>6. ~(Len(r) < 4)
  <2>1. Len(data) \in Nat
    OBVIOUS
  <2>. QED BY ONLY <1>2, <1>3, <2>1
<1>7. parse_get_response(r) = [result |-> r[4], data |-> SubSeq(r, 5, Len(r))]
  BY ONLY <1>5, <1>6 DEF parse_get_response
<1>. QED BY <1>3, <1>4, <1>5, <1>7 DEF r, a

(* The client reads of a meter's answer what the meter meant.              *)
LEMMA AnswerIs ==
  ASSUME NEW answer \in Answers
  PROVE  /\ GetResponse(answer) \in Seq(Byte)
         /\ parse_get_response(GetResponse(answer)).result = answer.choice
         /\ parse_get_response(GetResponse(answer)).data = answer.data
         /\ answer.choice \in {0, 1} /\ answer.data \in Seq(Byte)
<1>1. answer.choice \in {0, 1} /\ answer.data \in Seq(Byte)
  BY ApduAssumption DEF AnswerType
<1>2. /\ GetResponse(answer) \in Seq(Byte)
      /\ parse_get_response(GetResponse(answer))
           = [result |-> answer.choice, data |-> answer.data]
  BY <1>1, ResponseIs DEF GetResponse
<1>. QED BY <1>1, <1>2

-----------------------------------------------------------------------------
(* The fields of an AARQ: what a field is, and what stands where.          *)

(* The bytes x stand in r behind the first o.                              *)
At(r, o, x) ==
  /\ \A i \in 1..Len(x), k \in Nat : k = i + o => r[k] = x[i]
  /\ o + Len(x) <= Len(r)

(* Behind x is y.                                                          *)
LEMMA AtBehind ==
  ASSUME NEW x \in Seq(Byte), NEW y \in Seq(Byte)
  PROVE  At(x \o y, Len(x), y)
<1>. DEFINE z == x \o y
<1>1. /\ Len(z) = Len(x) + Len(y)
      /\ \A i \in 1..Len(y), k \in Nat : k = i + Len(x) => z[k] = y[i]
  BY ConcatIs
<1>2. Len(x) + Len(y) <= Len(z)
  <2>1. Len(x) + Len(y) \in Int
    OBVIOUS
  <2>. QED BY ONLY <1>1, <2>1
<1>. QED BY ONLY <1>1, <1>2 DEF At

(* Where a concatenation stands, its parts do, one behind the other.       *)
LEMMA AtConcat ==
  ASSUME NEW r \in Seq(Byte), NEW o \in Nat, NEW x \in Seq(Byte), NEW y \in Seq(Byte),
         At(r, o, x \o y)
  PROVE  At(r, o, x) /\ At(r, o + Len(x), y)
<1>. DEFINE z == x \o y
<1>1. /\ Len(z) = Len(x) + Len(y)
      /\ \A i \in 1..Len(x) : z[i] = x[i]
      /\ \A i \in 1..Len(y), k \in Nat : k = i + Len(x) => z[k] = y[i]
  BY ConcatIs
<1>2. /\ \A i \in 1..Len(z), k \in Nat : k = i + o => r[k] = z[i]
      /\ o + Len(z) <= Len(r)
  BY DEF At
<1>3. Len(x) \in Nat /\ Len(y) \in Nat /\ Len(r) \in Nat
  OBVIOUS
<1>. HIDE DEF z
<1>4. At(r, o, x)
  <2>1. \A i \in 1..Len(x) : i \in 1..Len(z)
    BY ONLY <1>1, <1>3
  <2>2. \A i \in 1..Len(x), k \in Nat : k = i + o => r[k] = x[i]
    BY ONLY <1>1, <1>2, <2>1
  <2>3. o + Len(x) <= Len(r)
    BY ONLY <1>1, <1>2, <1>3, o \in Nat
  <2>. QED BY <2>2, <2>3 DEF At
<1>5. At(r, o + Len(x), y)
  <2>1. ASSUME NEW i \in 1..Len(y), NEW k \in Nat, k = i + (o + Len(x))
        PROVE  r[k] = y[i]
    <3>1. /\ i + Len(x) \in 1..(Len(x) + Len(y)) /\ i + Len(x) \in Nat
          /\ k = (i + Len(x)) + o
      BY ONLY <1>3, <2>1, o \in Nat
    <3>2. z[i + Len(x)] = y[i]
      BY ONLY <1>1, <3>1, i \in 1..Len(y)
    <3>. QED BY ONLY <1>1, <1>2, <2>1, <3>1, <3>2
  <2>2. (o + Len(x)) + Len(y) <= Len(r)
    BY ONLY <1>1, <1>2, <1>3, o \in Nat
  <2>. QED BY <2>1, <2>2 DEF At
<1>. QED BY <1>4, <1>5

(* A field: a tag, the number of bytes behind it, and for some tags the    *)
(* same once more.                                                         *)
FieldForm(x, number) ==
  /\ x \in Seq(Byte) /\ Len(x) >= 2
  /\ x[1] % 32 = number
  /\ x[2] = Len(x) - 2
  /\ x[1] \in {161, 166, 172, 190} => Len(x) >= 4 /\ x[4] = Len(x) - 4

(* From o to e the meter reads a field with that number.                   *)
Reads(r, o, e, number) ==
  /\ ~(o + 2 > Len(r))
  /\ e = o + 2 + r[o + 2]
  /\ e <= Len(r)
  /\ r[o + 1] \in Byte /\ r[o + 1] % 32 = number
  /\ LET value == SubSeq(r, o + 3, e)
     IN  /\ value \in Seq(Byte)
         /\ r[o + 1] \in {161, 166, 172, 190} => Len(value) >= 2 /\ value[2] = Len(value) - 2

(* Where a field stands, the meter reads it, and comes to its end.         *)
LEMMA FieldReads ==
  ASSUME NEW r \in Seq(Byte), NEW o \in Nat, NEW x, NEW number, NEW e,
         FieldForm(x, number), At(r, o, x), e = o + Len(x)
  PROVE  Reads(r, o, e, number)
<1>1. x \in Seq(Byte) /\ Len(x) \in Nat /\ Len(x) >= 2 /\ Len(r) \in Nat
  BY DEF FieldForm
<1>2. /\ \A i \in 1..Len(x), k \in Nat : k = i + o => r[k] = x[i]
      /\ o + Len(x) <= Len(r)
  BY DEF At
<1>3. r[o + 1] = x[1] /\ r[o + 2] = x[2]
  <2>1. /\ 1 \in 1..Len(x) /\ 2 \in 1..Len(x)
        /\ o + 1 \in Nat /\ o + 2 \in Nat /\ o + 1 = 1 + o /\ o + 2 = 2 + o
    BY ONLY <1>1, o \in Nat
  <2>. QED BY ONLY <1>2, <2>1
<1>4. x[1] \in Byte /\ x[1] % 32 = number /\ x[2] = Len(x) - 2
  <2>1. 1 \in 1..Len(x)
    BY ONLY <1>1
  <2>2. x[1] \in Byte
    BY ONLY <1>1, <2>1, ElementOfSeq
  <2>. QED BY <2>2 DEF FieldForm
<1>5. e = o + 2 + r[o + 2] /\ e <= Len(r) /\ ~(o + 2 > Len(r)) /\ e \in Nat
  <2>1. e = o + Len(x) /\ o \in Nat
    OBVIOUS
  <2>2. r[o + 2] = Len(x) - 2
    BY ONLY <1>3, <1>4
  <2>3. e \in Nat /\ e <= Len(r) /\ o + 2 <= Len(r)
    BY ONLY <1>1, <1>2, <2>1
  <2>4. e = o + 2 + (Len(x) - 2)
    BY ONLY <1>1, <2>1
  <2>5. ~(o + 2 > Len(r))
    BY ONLY <1>1, <2>1, <2>3
  <2>. QED BY ONLY <2>2, <2>3, <2>4, <2>5
<1>. DEFINE value == SubSeq(r, o + 3, e)
<1>6. /\ value \in Seq(Byte) /\ Len(value) = Len(x) - 2
      /\ \A i \in 1..(Len(x) - 2) : value[i] = x[i + 2]
  <2>. DEFINE m == o + 3
  <2>1. m \in Int /\ e \in Int /\ \A i \in m..e : i \in 1..Len(r)
    BY ONLY <1>1, <1>5, o \in Nat
  <2>2. \A i \in m..e : r[i] \in Byte
    BY ONLY <2>1, r \in Seq(Byte), ElementOfSeq
  <2>. HIDE DEF m
  <2>3. LET u == SubSeq(r, m, e)
        IN  /\ u \in Seq(Byte) /\ Len(u) = IF m <= e THEN e - m + 1 ELSE 0
            /\ \A i \in 1..(e - m + 1) : u[i] = r[m + i - 1]
    BY ONLY <2>1, <2>2, SubSeqProperties
  <2>4. e - m + 1 = Len(x) - 2 /\ (IF m <= e THEN e - m + 1 ELSE 0) = Len(x) - 2
    <3>1. \A k, l \in Nat : l >= 2 =>
            /\ (k + l) - (k + 3) + 1 = l - 2
            /\ (IF k + 3 <= k + l THEN (k + l) - (k + 3) + 1 ELSE 0) = l - 2
      OBVIOUS
    <3>. QED BY ONLY <1>1, <3>1, e = o + Len(x), o \in Nat DEF m
  <2>5. ASSUME NEW i \in 1..(Len(x) - 2) PROVE value[i] = x[i + 2]
    <3>1. /\ m + i - 1 = i + o + 2 /\ i + o + 2 = (i + 2) + o
          /\ i + 2 \in 1..Len(x) /\ i + o + 2 \in Nat
      BY ONLY <1>1, <2>5, o \in Nat DEF m
    <3>2. r[i + o + 2] = x[i + 2]
      BY ONLY <1>2, <3>1
    <3>3. SubSeq(r, m, e)[i] = r[i + o + 2]
      BY ONLY <2>3, <2>4, <2>5, <3>1
    <3>. QED BY ONLY <3>2, <3>3 DEF m
  <2>6. value \in Seq(Byte) /\ Len(value) = Len(x) - 2
    BY ONLY <2>3, <2>4 DEF m
  <2>. QED BY ONLY <2>5, <2>6
<1>. HIDE DEF value
<1>7. ASSUME x[1] \in {161, 166, 172, 190} PROVE Len(value) >= 2 /\ value[2] = Len(value) - 2
  <2>1. Len(x) >= 4 /\ x[4] = Len(x) - 4
    BY <1>7 DEF FieldForm
  <2>2. 2 \in 1..(Len(x) - 2) /\ 2 + 2 = 4 /\ (Len(x) - 2) - 2 = Len(x) - 4 /\ Len(x) - 2 >= 2
    BY ONLY <1>1, <2>1
  <2>3. value[2] = x[4]
    BY ONLY <1>6, <2>2
  <2>. QED BY ONLY <1>6, <2>1, <2>2, <2>3
<1>. QED BY ONLY <1>3, <1>4, <1>5, <1>6, <1>7 DEF Reads, value

(* A number of a byte is not cut to a byte.                                *)
LEMMA Uncut == \A k \in Nat : k <= 255 => k % 256 = k
BY SMT

(* A tag with a length, a tag and a length before a value: 166 and 172.    *)
Twice(tag, inner, value) ==
  <<tag, (Len(value) + 2) % 256, inner, Len(value) % 256>> \o value

(* It is a field, and so is what it holds, if the value leaves room for    *)
(* the lengths.                                                            *)
LEMMA ValueForm ==
  ASSUME NEW value \in Seq(Byte), Len(value) <= 253, NEW tag \in {166, 172}, NEW inner \in Byte
  PROVE  /\ FieldForm(Twice(tag, inner, value), tag % 32)
         /\ Len(Twice(tag, inner, value)) = Len(value) + 4
<1>. DEFINE x == Twice(tag, inner, value)
            n == Len(value)
            h == <<tag, (n + 2) % 256, inner, n % 256>>
<1>1. n \in Nat /\ n <= 253
  OBVIOUS
<1>2. (n + 2) % 256 = n + 2 /\ n % 256 = n /\ n \in Byte /\ n + 2 \in Byte /\ tag \in Byte
  <2>. HIDE DEF n
  <2>1. (n + 2) % 256 = n + 2 /\ n % 256 = n
    <3>2. n + 2 \in Nat /\ n + 2 <= 255 /\ n <= 255
      BY <1>1
    <3>. QED BY ONLY <1>1, <3>2, Uncut
  <2>2. n \in Byte /\ n + 2 \in Byte /\ tag \in Byte
    BY <1>1 DEF Byte
  <2>. QED BY <2>1, <2>2
<1>3. h = <<tag, n + 2, inner, n>>
  BY ONLY <1>2
<1>. HIDE DEF n
<1>4. h \in Seq(Byte) /\ Len(h) = 4 /\ h[1] = tag /\ h[2] = n + 2 /\ h[4] = n
  BY <1>2, <1>3
<1>5. x = h \o value
  BY DEF h, n, Twice
<1>. HIDE DEF h, x
<1>6. /\ x \in Seq(Byte) /\ Len(x) = Len(h) + n
      /\ \A i \in 1..Len(h) : x[i] = h[i]
  <2>1. h \in Seq(Byte) /\ value \in Seq(Byte)
    BY ONLY <1>4, value \in Seq(Byte)
  <2>. QED BY ONLY <1>5, <2>1, ConcatIs DEF n
<1>7. x[1] = tag /\ x[2] = n + 2 /\ x[4] = n
  <2>1. 1 \in 1..4 /\ 2 \in 1..4 /\ 4 \in 1..4
    OBVIOUS
  <2>. QED BY ONLY <1>4, <1>6, <2>1
<1>8. Len(x) = n + 4 /\ Len(x) >= 4 /\ Len(x) - 2 = n + 2 /\ Len(x) - 4 = n
  BY ONLY <1>1, <1>4, <1>6
<1>9. FieldForm(x, tag % 32)
  BY ONLY <1>6, <1>7, <1>8 DEF FieldForm
<1>. QED BY <1>8, <1>9 DEF n, x

(* The value behind the requirements and the mechanism.                    *)
ValueOf(p, challenge) == IF p.authentication = LLS THEN p.secret ELSE challenge

(* The fields behind the title.                                            *)
Requirements == <<138, 2, 7, 128>>
Mechanism(p) == <<139, 7, 96, 133, 116, 5, 8, 2, p.authentication>>

(* The parts of the AARQ that have a fixed length are fields.              *)
LEMMA FixedForms ==
  ASSUME NEW p \in CosemParameters
  PROVE  /\ FieldForm(ProtocolVersion, 0) /\ Len(ProtocolVersion) = 4
         /\ FieldForm(ApplicationContextName(p), 1) /\ Len(ApplicationContextName(p)) = 11
         /\ FieldForm(Requirements, 10) /\ Len(Requirements) = 4
         /\ FieldForm(Mechanism(p), 11) /\ Len(Mechanism(p)) = 9
         /\ FieldForm(UserInformation, 30) /\ Len(UserInformation) = 17
<1>1. /\ 0 \in Byte /\ 1 \in Byte /\ 2 \in Byte /\ 3 \in Byte /\ 4 \in Byte /\ 5 \in Byte
      /\ 6 \in Byte /\ 7 \in Byte /\ 8 \in Byte /\ 9 \in Byte /\ 13 \in Byte /\ 15 \in Byte
      /\ 56 \in Byte /\ 95 \in Byte /\ 96 \in Byte /\ 116 \in Byte /\ 128 \in Byte
      /\ 133 \in Byte /\ 138 \in Byte /\ 139 \in Byte /\ 161 \in Byte /\ 184 \in Byte
      /\ 190 \in Byte /\ 255 \in Byte
  BY DEF Byte
<1>2. p.authentication \in Byte
  BY DEF CosemParameters, Mechanisms, Byte
<1>3. /\ 128 % 32 = 0 /\ 161 % 32 = 1 /\ 138 % 32 = 10 /\ 139 % 32 = 11 /\ 190 % 32 = 30
  BY SMT
<1>4. FieldForm(ProtocolVersion, 0) /\ Len(ProtocolVersion) = 4
  <2>1. /\ ProtocolVersion \in Seq(Byte)
        /\ Len(ProtocolVersion) = 4 /\ ProtocolVersion[1] = 128 /\ ProtocolVersion[2] = 2
    BY <1>1 DEF ProtocolVersion
  <2>. QED BY ONLY <1>3, <2>1 DEF FieldForm
<1>5. FieldForm(ApplicationContextName(p), 1) /\ Len(ApplicationContextName(p)) = 11
  <2>. DEFINE last == IF p.security = "NONE" THEN 1 ELSE 3
              x == <<161, 9, 6, 7, 96, 133, 116, 5, 8, 1, last>>
  <2>1. last \in Byte
    BY <1>1
  <2>2. x = ApplicationContextName(p)
    BY DEF ApplicationContextName
  <2>. HIDE DEF last
  <2>3. x \in Seq(Byte) /\ Len(x) = 11 /\ x[1] = 161 /\ x[2] = 9 /\ x[4] = 7
    BY <1>1, <2>1
  <2>. HIDE DEF x
  <2>. QED BY ONLY <1>3, <2>2, <2>3 DEF FieldForm
<1>6. FieldForm(Requirements, 10) /\ Len(Requirements) = 4
  <2>1. /\ Requirements \in Seq(Byte)
        /\ Len(Requirements) = 4 /\ Requirements[1] = 138 /\ Requirements[2] = 2
    BY <1>1 DEF Requirements
  <2>. QED BY ONLY <1>3, <2>1 DEF FieldForm
<1>7. FieldForm(Mechanism(p), 11) /\ Len(Mechanism(p)) = 9
  <2>. DEFINE last == p.authentication
              x == <<139, 7, 96, 133, 116, 5, 8, 2, last>>
  <2>2. x = Mechanism(p)
    BY DEF Mechanism
  <2>1. last \in Byte
    BY <1>2
  <2>. HIDE DEF last
  <2>3. x \in Seq(Byte) /\ Len(x) = 9 /\ x[1] = 139 /\ x[2] = 7
    BY <1>1, <2>1
  <2>. HIDE DEF x
  <2>. QED BY ONLY <1>3, <2>2, <2>3 DEF FieldForm
<1>8. FieldForm(UserInformation, 30) /\ Len(UserInformation) = 17
  <2>1. /\ UserInformation \in Seq(Byte)
        /\ Len(UserInformation) = 17 /\ UserInformation[1] = 190 /\ UserInformation[2] = 15 /\ UserInformation[4] = 13
    BY <1>1 DEF UserInformation
  <2>. QED BY ONLY <1>3, <2>1 DEF FieldForm
<1>. QED BY <1>4, <1>5, <1>6, <1>7, <1>8

(* A length that is cut to a byte is a byte.                               *)
LEMMA CutToByte == \A k \in Nat : k % 256 \in Byte
<1>1. \A k \in Nat : k % 256 \in Int /\ 0 <= k % 256 /\ k % 256 <= 255
  BY SMT
<1>2. \A x \in Int : 0 <= x /\ x <= 255 => x \in Byte
  BY DEF Byte
<1>. QED BY ONLY <1>1, <1>2, Zenon

(* The AARQ behind its tag and its length.                                 *)
Body(p, value) ==
  ProtocolVersion \o ApplicationContextName(p) \o CallingApTitle(p)
    \o Authentication(p, value) \o UserInformation

(* The parts of the AARQ are bytes, and where they begin.                  *)
LEMMA PartsAreBytes ==
  ASSUME NEW p \in CosemParameters, NEW value \in Seq(Byte)
  PROVE  /\ ProtocolVersion \in Seq(Byte) /\ ApplicationContextName(p) \in Seq(Byte)
         /\ CallingApTitle(p) \in Seq(Byte) /\ Authentication(p, value) \in Seq(Byte)
         /\ UserInformation \in Seq(Byte)
         /\ Requirements \in Seq(Byte) /\ Mechanism(p) \in Seq(Byte)
         /\ AuthenticationValue(value) \in Seq(Byte)
         /\ p.system_title \in Seq(Byte) /\ Len(p.system_title) = 8
<1>1. /\ ProtocolVersion \in Seq(Byte) /\ ApplicationContextName(p) \in Seq(Byte)
      /\ UserInformation \in Seq(Byte) /\ Requirements \in Seq(Byte) /\ Mechanism(p) \in Seq(Byte)
  BY FixedForms DEF FieldForm
<1>2. p.system_title \in Seq(Byte) /\ Len(p.system_title) = 8
  BY ApduAssumption DEF CosemParameters
<1>3. 6 \in Byte /\ 128 \in Byte /\ 166 \in Byte /\ 172 \in Byte
  BY DEF Byte
<1>4. ASSUME NEW tag \in Byte, NEW inner \in Byte, NEW v \in Seq(Byte)
      PROVE  <<tag, (Len(v) + 2) % 256, inner, Len(v) % 256>> \o v \in Seq(Byte)
  <2>. DEFINE k1 == (Len(v) + 2) % 256
              k2 == Len(v) % 256
              h == <<tag, k1, inner, k2>>
  <2>1. Len(v) \in Nat /\ Len(v) + 2 \in Nat
    OBVIOUS
  <2>2. k1 \in Byte /\ k2 \in Byte
    BY ONLY <2>1, CutToByte
  <2>. HIDE DEF k1, k2
  <2>3. h \in Seq(Byte)
    BY ONLY <2>2, tag \in Byte, inner \in Byte
  <2>. HIDE DEF h
  <2>4. h \o v \in Seq(Byte)
    BY ONLY <2>3, v \in Seq(Byte), ConcatIs
  <2>. QED BY <2>4 DEF h, k1, k2
<1>5. CallingApTitle(p) \in Seq(Byte)
  <2>. DEFINE v == p.system_title
  <2>1. <<166, (Len(v) + 2) % 256, 6, Len(v) % 256>> \o v \in Seq(Byte)
    BY ONLY <1>2, <1>3, <1>4
  <2>2. \/ CallingApTitle(p) = <<>>
        \/ CallingApTitle(p) = <<166, (Len(v) + 2) % 256, 6, Len(v) % 256>> \o v
    BY ONLY DEF CallingApTitle
  <2>3. <<>> \in Seq(Byte)
    BY EmptySeq
  <2>. QED BY ONLY <2>1, <2>2, <2>3
<1>6. AuthenticationValue(value) \in Seq(Byte)
  BY ONLY <1>3, <1>4, value \in Seq(Byte) DEF AuthenticationValue
<1>7. Authentication(p, value) \in Seq(Byte)
  <2>. DEFINE x == Requirements \o Mechanism(p)
  <2>1. x \in Seq(Byte)
    BY ONLY <1>1, ConcatIs
  <2>. HIDE DEF x
  <2>2. x \o AuthenticationValue(value) \in Seq(Byte)
    BY ONLY <1>6, <2>1, ConcatIs
  <2>3. \/ Authentication(p, value) = <<>>
        \/ Authentication(p, value) = x \o AuthenticationValue(value)
    BY ONLY DEF Authentication, Requirements, Mechanism, x
  <2>4. <<>> \in Seq(Byte)
    BY EmptySeq
  <2>. QED BY ONLY <2>2, <2>3, <2>4
<1>. QED BY <1>1, <1>2, <1>5, <1>6, <1>7

(* Five parts and what goes before them.                                   *)
Whole(h, v, c, t, a, u) == h \o (v \o c \o t \o a \o u)

Placed(r, h, v, c, t, a, u) ==
  /\ r \in Seq(Byte) /\ Len(r) = 2 + Len(v) + Len(c) + Len(t) + Len(a) + Len(u)
  /\ Len(v \o c \o t \o a \o u) = Len(v) + Len(c) + Len(t) + Len(a) + Len(u)
  /\ r[1] = h[1] /\ r[2] = h[2]
  /\ At(r, 2, v)
  /\ At(r, 2 + Len(v), c)
  /\ At(r, 2 + Len(v) + Len(c), t)
  /\ At(r, 2 + Len(v) + Len(c) + Len(t), a)
  /\ At(r, 2 + Len(v) + Len(c) + Len(t) + Len(a), u)

(* Five parts behind one of two bytes, and where each is.                  *)
LEMMA FiveParts ==
  ASSUME NEW v \in Seq(Byte), NEW c \in Seq(Byte), NEW t \in Seq(Byte), NEW a \in Seq(Byte),
         NEW u \in Seq(Byte), NEW h \in Seq(Byte), Len(h) = 2
  PROVE  Placed(Whole(h, v, c, t, a, u), h, v, c, t, a, u)
<1>. DEFINE r == Whole(h, v, c, t, a, u)
            w1 == v \o c
            w2 == w1 \o t
            w3 == w2 \o a
            w4 == w3 \o u
<1>1. /\ Len(v) \in Nat /\ Len(c) \in Nat /\ Len(t) \in Nat /\ Len(a) \in Nat /\ Len(u) \in Nat
  OBVIOUS
<1>2. w1 \in Seq(Byte) /\ Len(w1) = Len(v) + Len(c)
  BY ConcatIs
<1>. HIDE DEF w1
<1>3. w2 \in Seq(Byte) /\ Len(w2) = Len(w1) + Len(t)
  BY <1>2, ConcatIs
<1>. HIDE DEF w2
<1>4. w3 \in Seq(Byte) /\ Len(w3) = Len(w2) + Len(a)
  BY <1>3, ConcatIs
<1>. HIDE DEF w3
<1>5. w4 \in Seq(Byte) /\ Len(w4) = Len(w3) + Len(u)
  BY <1>4, ConcatIs
<1>6. r = h \o w4
  BY DEF w1, w2, w3, Whole
<1>. HIDE DEF w4, r
<1>7. /\ r \in Seq(Byte) /\ Len(r) = Len(h) + Len(w4)
      /\ \A i \in 1..Len(h) : r[i] = h[i]
  <2>1. w4 \in Seq(Byte)
    BY ONLY <1>5
  <2>2. /\ h \o w4 \in Seq(Byte) /\ Len(h \o w4) = Len(h) + Len(w4)
        /\ \A i \in 1..Len(h) : (h \o w4)[i] = h[i]
    BY ONLY <2>1, ConcatIs, h \in Seq(Byte)
  <2>. QED BY ONLY <1>6, <2>2
<1>8. r[1] = h[1] /\ r[2] = h[2]
  BY ONLY <1>7, Len(h) = 2
<1>9. At(r, 2, w4)
  BY ONLY <1>5, <1>6, AtBehind, h \in Seq(Byte), Len(h) = 2
<1>10. At(r, 2, w3) /\ At(r, 2 + Len(w3), u)
  BY ONLY <1>4, <1>7, <1>9, AtConcat, 2 \in Nat, u \in Seq(Byte) DEF w4
<1>11. At(r, 2, w2) /\ At(r, 2 + Len(w2), a)
  BY ONLY <1>3, <1>7, <1>10, AtConcat, 2 \in Nat, a \in Seq(Byte) DEF w3
<1>12. At(r, 2, w1) /\ At(r, 2 + Len(w1), t)
  BY ONLY <1>2, <1>7, <1>11, AtConcat, 2 \in Nat, t \in Seq(Byte) DEF w2
<1>13. At(r, 2, v) /\ At(r, 2 + Len(v), c)
  BY ONLY <1>7, <1>12, AtConcat, 2 \in Nat, v \in Seq(Byte), c \in Seq(Byte) DEF w1
<1>14. /\ Len(w4) = Len(v) + Len(c) + Len(t) + Len(a) + Len(u)
       /\ Len(r) = 2 + Len(v) + Len(c) + Len(t) + Len(a) + Len(u)
       /\ 2 + Len(w1) = 2 + Len(v) + Len(c)
       /\ 2 + Len(w2) = 2 + Len(v) + Len(c) + Len(t)
       /\ 2 + Len(w3) = 2 + Len(v) + Len(c) + Len(t) + Len(a)
  BY ONLY <1>1, <1>2, <1>3, <1>4, <1>5, <1>7, Len(h) = 2
<1>15. w4 = v \o c \o t \o a \o u
  BY DEF w1, w2, w3, w4
<1>. QED BY ONLY <1>7, <1>8, <1>10, <1>11, <1>12, <1>13, <1>14, <1>15 DEF Placed, r

(* The lengths of the optional parts.                                      *)
TitleLen(p) == IF HasTitle(p) THEN 12 ELSE 0

AuthLen(p, value) == IF p.authentication = LOWEST THEN 0 ELSE 17 + Len(value)

(* The fields of an AARQ, and where they are.                              *)
Layout(r, p, t, a) ==
  /\ Reads(r, 2, 6, 0)
  /\ Reads(r, 6, 17, 1)
  /\ HasTitle(p) => Reads(r, 17, 17 + t, 6)
  /\ p.authentication # LOWEST =>
       /\ Reads(r, 17 + t, 21 + t, 10)
       /\ Reads(r, 21 + t, 30 + t, 11)
       /\ Reads(r, 30 + t, 17 + t + a, 12)
  /\ Reads(r, 17 + t + a, 34 + t + a, 30)

(* The title, if there is one, is a field of 12 bytes.                     *)
LEMMA TitleIs ==
  ASSUME NEW p \in CosemParameters
  PROVE  /\ Len(CallingApTitle(p)) = TitleLen(p)
         /\ HasTitle(p) => FieldForm(CallingApTitle(p), 6)
<1>1. p.system_title \in Seq(Byte) /\ Len(p.system_title) = 8
  BY ApduAssumption DEF CosemParameters
<1>2. CASE HasTitle(p)
  <2>1. CallingApTitle(p) = Twice(166, 6, p.system_title)
    BY <1>2 DEF CallingApTitle, Twice
  <2>2. 166 \in {166, 172} /\ 6 \in Byte /\ Len(p.system_title) <= 253
    BY <1>1 DEF Byte
  <2>3. /\ FieldForm(Twice(166, 6, p.system_title), 166 % 32)
        /\ Len(Twice(166, 6, p.system_title)) = Len(p.system_title) + 4
    <3>. DEFINE v == p.system_title
    <3>1. v \in Seq(Byte)
      BY <1>1
    <3>0. Len(v) <= 253 /\ 166 \in {166, 172} /\ 6 \in Byte
      BY ONLY <2>2
    <3>. HIDE DEF v
    <3>2. FieldForm(Twice(166, 6, v), 166 % 32) /\ Len(Twice(166, 6, v)) = Len(v) + 4
      BY ONLY <3>0, <3>1, ValueForm
    <3>. QED BY ONLY <3>2 DEF v
  <2>4. Len(p.system_title) + 4 = 12 /\ 166 % 32 = 6
    BY <1>1, SMT
  <2>. QED BY ONLY <1>2, <2>1, <2>3, <2>4 DEF TitleLen
<1>3. CASE ~HasTitle(p)
  BY <1>3, EmptySeq DEF CallingApTitle, TitleLen
<1>. QED BY <1>2, <1>3

(* The authentication, if there is one, is three fields.                   *)
LEMMA AuthenticationIs ==
  ASSUME NEW p \in CosemParameters, NEW value \in Seq(Byte), Len(value) <= 253
  PROVE  /\ FieldForm(AuthenticationValue(value), 12)
         /\ Len(AuthenticationValue(value)) = Len(value) + 4
         /\ Len(Authentication(p, value)) = AuthLen(p, value)
         /\ p.authentication # LOWEST =>
              Authentication(p, value)
                = Requirements \o Mechanism(p) \o AuthenticationValue(value)
<1>1. FieldForm(AuthenticationValue(value), 12) /\ Len(AuthenticationValue(value)) = Len(value) + 4
  <2>1. 172 \in {166, 172} /\ 128 \in Byte
    BY DEF Byte
  <2>2. 172 % 32 = 12
    BY ONLY SMT
  <2>3. AuthenticationValue(value) = Twice(172, 128, value)
    BY DEF AuthenticationValue, Twice
  <2>4. FieldForm(Twice(172, 128, value), 172 % 32) /\ Len(Twice(172, 128, value)) = Len(value) + 4
    BY ONLY <2>1, ValueForm, value \in Seq(Byte), Len(value) <= 253
  <2>. QED BY ONLY <2>2, <2>3, <2>4
<1>2. CASE p.authentication = LOWEST
  <2>1. Authentication(p, value) = <<>>
    BY <1>2 DEF Authentication
  <2>. QED BY <1>1, <1>2, <2>1, EmptySeq DEF AuthLen
<1>3. CASE p.authentication # LOWEST
  <2>. DEFINE x == Requirements \o Mechanism(p)
  <2>1. Authentication(p, value) = x \o AuthenticationValue(value)
    BY <1>3 DEF Authentication, Requirements, Mechanism
  <2>2. Requirements \in Seq(Byte) /\ Mechanism(p) \in Seq(Byte) /\ AuthenticationValue(value) \in Seq(Byte)
    BY PartsAreBytes
  <2>3. Len(Requirements) = 4 /\ Len(Mechanism(p)) = 9
    BY FixedForms
  <2>4. x \in Seq(Byte) /\ Len(x) = Len(Requirements) + Len(Mechanism(p))
    BY ONLY <2>2, ConcatIs
  <2>. HIDE DEF x
  <2>5. Len(x \o AuthenticationValue(value)) = Len(x) + Len(AuthenticationValue(value))
    BY ONLY <2>2, <2>4, ConcatIs
  <2>6. Len(value) \in Nat
    OBVIOUS
  <2>7. Len(Authentication(p, value)) = 17 + Len(value)
    BY ONLY <1>1, <2>1, <2>3, <2>4, <2>5, <2>6
  <2>. QED BY ONLY <1>1, <1>3, <2>1, <2>7 DEF AuthLen, x
<1>. QED BY <1>2, <1>3

(* The AARQ, its length, and where its fields are.                         *)
LEMMA AarqIs ==
  ASSUME NEW p \in CosemParameters, NEW challenge \in Seq(Byte), Len(challenge) <= 253
  PROVE  LET r == serialize_aarq(p, challenge)
             t == TitleLen(p)
             a == AuthLen(p, ValueOf(p, challenge))
         IN  /\ r \in Seq(Byte) /\ Len(r) = 34 + t + a
             /\ r[2] = (32 + t + a) % 256
             /\ Layout(r, p, t, a)
<1>. DEFINE value == ValueOf(p, challenge)
            V == ProtocolVersion
            C == ApplicationContextName(p)
            T == CallingApTitle(p)
            A == Authentication(p, value)
            U == UserInformation
            h == <<96, Len(Body(p, value)) % 256>>
            r == serialize_aarq(p, challenge)
            t == TitleLen(p)
            a == AuthLen(p, value)
<1>1. value \in Seq(Byte) /\ Len(value) <= 253 /\ Len(value) \in Nat
  <2>1. p.secret \in Seq(Byte) /\ Len(p.secret) = 8
    BY ApduAssumption DEF CosemParameters
  <2>2. value = p.secret \/ value = challenge
    BY DEF ValueOf
  <2>3. ASSUME NEW v \in Seq(Byte), Len(v) <= 253 PROVE Len(v) \in Nat
    OBVIOUS
  <2>4. 8 <= 253
    OBVIOUS
  <2>. HIDE DEF value
  <2>. QED BY ONLY <2>1, <2>2, <2>3, <2>4, challenge \in Seq(Byte), Len(challenge) <= 253
<1>. HIDE DEF value
<1>2. /\ V \in Seq(Byte) /\ C \in Seq(Byte) /\ T \in Seq(Byte) /\ A \in Seq(Byte)
      /\ U \in Seq(Byte)
  BY <1>1, PartsAreBytes
<1>3. /\ FieldForm(V, 0) /\ Len(V) = 4 /\ FieldForm(C, 1) /\ Len(C) = 11
      /\ FieldForm(U, 30) /\ Len(U) = 17
      /\ FieldForm(Requirements, 10) /\ Len(Requirements) = 4
      /\ FieldForm(Mechanism(p), 11) /\ Len(Mechanism(p)) = 9
  BY FixedForms
<1>4. Len(T) = t /\ (HasTitle(p) => FieldForm(T, 6)) /\ t \in {0, 12} /\ (HasTitle(p) => t = 12)
  BY TitleIs DEF TitleLen
<1>5. /\ FieldForm(AuthenticationValue(value), 12)
      /\ Len(AuthenticationValue(value)) = Len(value) + 4
      /\ Len(A) = a /\ a \in Nat
      /\ p.authentication # LOWEST =>
           /\ a = 17 + Len(value)
           /\ A = Requirements \o Mechanism(p) \o AuthenticationValue(value)
  <2>1. a \in Nat /\ (p.authentication # LOWEST => a = 17 + Len(value))
    BY <1>1 DEF AuthLen
  <2>. QED BY <1>1, <2>1, AuthenticationIs
<1>6. r = Whole(h, V, C, T, A, U)
  BY DEF serialize_aarq, Body, ValueOf, value, Whole
<1>7. Body(p, value) = V \o C \o T \o A \o U
  BY DEF Body
<1>8. h \in Seq(Byte) /\ Len(h) = 2 /\ h[2] = Len(Body(p, value)) % 256
  <2>1. Body(p, value) \in Seq(Byte)
    BY ONLY <1>2, <1>7, ConcatIs
  <2>2. Len(Body(p, value)) \in Nat
    BY ONLY <2>1, LenProperties
  <2>. DEFINE k == Len(Body(p, value)) % 256
  <2>3. k \in Byte
    BY ONLY <2>2, CutToByte
  <2>4. 96 \in Byte
    BY DEF Byte
  <2>. HIDE DEF k
  <2>5. <<96, k>> \in Seq(Byte) /\ Len(<<96, k>>) = 2 /\ <<96, k>>[2] = k
    BY ONLY <2>3, <2>4
  <2>. QED BY ONLY <2>5 DEF k
<1>. HIDE DEF V, C, T, A, U, h, r, t, a
<1>9. /\ r \in Seq(Byte) /\ Len(r) = 2 + Len(V) + Len(C) + Len(T) + Len(A) + Len(U)
      /\ Len(V \o C \o T \o A \o U) = Len(V) + Len(C) + Len(T) + Len(A) + Len(U)
      /\ r[2] = h[2]
      /\ At(r, 2, V)
      /\ At(r, 2 + Len(V), C)
      /\ At(r, 2 + Len(V) + Len(C), T)
      /\ At(r, 2 + Len(V) + Len(C) + Len(T), A)
      /\ At(r, 2 + Len(V) + Len(C) + Len(T) + Len(A), U)
  <2>1. Placed(Whole(h, V, C, T, A, U), h, V, C, T, A, U)
    BY ONLY <1>2, <1>8, FiveParts
  <2>. QED BY ONLY <1>6, <2>1 DEF Placed
<1>10. /\ 2 + Len(V) = 6 /\ 2 + Len(V) + Len(C) = 17
       /\ 2 + Len(V) + Len(C) + Len(T) = 17 + t
       /\ 2 + Len(V) + Len(C) + Len(T) + Len(A) = 17 + t + a
       /\ Len(r) = 34 + t + a
       /\ Len(Body(p, value)) = 32 + t + a
  BY ONLY <1>3, <1>4, <1>5, <1>7, <1>9
<1>11. /\ At(r, 2, V) /\ At(r, 6, C) /\ At(r, 17, T) /\ At(r, 17 + t, A)
       /\ At(r, 17 + t + a, U)
  BY ONLY <1>9, <1>10
<1>12. Reads(r, 2, 6, 0) /\ Reads(r, 6, 17, 1)
  <2>1. 2 \in Nat /\ 6 \in Nat /\ 6 = 2 + Len(V) /\ 17 = 6 + Len(C)
    BY ONLY <1>3
  <2>. QED BY ONLY <1>3, <1>9, <1>11, <2>1, FieldReads
<1>13. HasTitle(p) => Reads(r, 17, 17 + t, 6)
  <2>1. 17 \in Nat /\ 17 + t = 17 + Len(T)
    BY ONLY <1>4
  <2>. QED BY ONLY <1>4, <1>9, <1>11, <2>1, FieldReads
<1>14. ASSUME p.authentication # LOWEST
       PROVE  /\ Reads(r, 17 + t, 21 + t, 10)
              /\ Reads(r, 21 + t, 30 + t, 11)
              /\ Reads(r, 30 + t, 17 + t + a, 12)
  <2>. DEFINE R == Requirements
              M == Mechanism(p)
              W == AuthenticationValue(value)
              x == R \o M
  <2>1. R \in Seq(Byte) /\ M \in Seq(Byte) /\ W \in Seq(Byte)
    BY ONLY <1>3, <1>5 DEF FieldForm
  <2>2. x \in Seq(Byte) /\ Len(x) = Len(R) + Len(M)
    BY ONLY <2>1, ConcatIs
  <2>3. A = x \o W
    BY <1>5, <1>14
  <2>. HIDE DEF R, M, W, x
  <2>4. 17 + t \in Nat /\ 21 + t \in Nat /\ 30 + t \in Nat
    BY ONLY <1>4
  <2>5. At(r, 17 + t, x) /\ At(r, 17 + t + Len(x), W)
    BY ONLY <1>9, <1>11, <2>1, <2>2, <2>3, <2>4, AtConcat
  <2>6. At(r, 17 + t, R) /\ At(r, 17 + t + Len(R), M)
    BY ONLY <1>9, <2>1, <2>4, <2>5, AtConcat DEF x
  <2>7. Len(R) = 4 /\ Len(M) = 9 /\ Len(W) = Len(value) + 4
    BY ONLY <1>3, <1>5 DEF R, M, W
  <2>8. /\ 17 + t + Len(R) = 21 + t /\ 17 + t + Len(x) = 30 + t
        /\ 21 + t = 17 + t + Len(R) /\ 30 + t = 21 + t + Len(M)
        /\ 17 + t + a = 30 + t + Len(W)
    <3>1. a = 17 + Len(value)
      BY <1>5, <1>14
    <3>. QED BY ONLY <1>1, <1>4, <2>2, <2>7, <3>1
  <2>9. At(r, 21 + t, M) /\ At(r, 30 + t, W)
    BY ONLY <2>5, <2>6, <2>8
  <2>10. FieldForm(R, 10) /\ FieldForm(M, 11) /\ FieldForm(W, 12)
    BY ONLY <1>3, <1>5 DEF R, M, W
  <2>11. Reads(r, 17 + t, 21 + t, 10)
    BY ONLY <1>9, <2>4, <2>6, <2>8, <2>10, FieldReads
  <2>12. Reads(r, 21 + t, 30 + t, 11)
    BY ONLY <1>9, <2>4, <2>9, <2>8, <2>10, FieldReads
  <2>13. Reads(r, 30 + t, 17 + t + a, 12)
    BY ONLY <1>9, <2>4, <2>9, <2>8, <2>10, FieldReads
  <2>. QED BY <2>11, <2>12, <2>13
<1>15. Reads(r, 17 + t + a, 34 + t + a, 30)
  <2>1. 17 + t + a \in Nat /\ 34 + t + a = 17 + t + a + Len(U)
    BY ONLY <1>3, <1>4, <1>5
  <2>. QED BY ONLY <1>3, <1>9, <1>11, <2>1, FieldReads
<1>16. r[2] = (32 + t + a) % 256
  BY ONLY <1>8, <1>9, <1>10
<1>17. Layout(r, p, t, a)
  BY ONLY <1>12, <1>13, <1>14, <1>15 DEF Layout
<1>. QED BY ONLY <1>9, <1>10, <1>16, <1>17 DEF r, t, a, value

-----------------------------------------------------------------------------
(* What holds of requests, sizes and answers, whatever they are.           *)

(* The three kinds of request.                                             *)
RequestKinds == {"get", "set", "action"}

(* What the bytes are between two actions, and what they were made from.   *)
Made ==
  /\ pc = "size" => meant \in Sizes /\ apdu = write_size(meant)
  /\ pc \in RequestKinds =>
       meant \in Requests /\ NameOf(meant.name) # InvalidName /\ RequestRead(pc, meant, apdu)
  /\ pc \in {"answer", "shown", "crashed"} => meant \in Answers /\ apdu = GetResponse(meant)
  /\ pc = "shown" => \E memory \in Memory : shown = to_string(meant.data, memory)
  /\ pc = "crashed" => LastRead(meant.data) > Len(meant.data)

(* Every action writes what its invariant says.                            *)
LEMMA MadeHolds == Spec => []Made
<1>1. Init => Made
  BY DEF Init, Made, RequestKinds
<1>2. Made /\ [Next]_vars => Made'
  <2>. SUFFICES ASSUME Made, [Next]_vars PROVE Made'
    OBVIOUS
  <2>1. CASE WriteAarq
    BY <2>1 DEF WriteAarq, Made, RequestKinds
  <2>2. CASE ReadField
    BY <2>2 DEF ReadField, Made, RequestKinds
  <2>3. CASE Misname
    BY <2>3 DEF Misname, Made, RequestKinds
  <2>4. CASE WriteRequest
    <3>1. PICK args \in Requests :
            /\ NameOf(args.name) # InvalidName
            /\ meant' = args
            /\ \/ pc' = "get" /\ apdu' = serialize_get_request(Built(args))
               \/ pc' = "set" /\ apdu' = serialize_set_request(Built(args))
               \/ pc' = "action" /\ apdu' = serialize_action_request(Built(args))
      BY <2>4 DEF WriteRequest
    <3>2. RequestRead(pc', args, apdu')
      BY <3>1, RequestReadIs
    <3>. QED BY <3>1, <3>2 DEF Made, RequestKinds
  <2>5. CASE WriteSize
    BY <2>5 DEF WriteSize, Made, RequestKinds
  <2>6. CASE MeterAnswers
    BY <2>6 DEF MeterAnswers, Made, RequestKinds
  <2>7. CASE Show
    <3>1. meant \in Answers /\ apdu = GetResponse(meant)
      BY <2>7 DEF Show, Made
    <3>2. parse_get_response(apdu).data = meant.data
      BY <3>1, AnswerIs
    <3>3. /\ UNCHANGED <<meant, apdu>>
          /\ \/ /\ pc' = "shown"
                /\ \E memory \in Memory : shown' = to_string(meant.data, memory)
             \/ pc' = "crashed" /\ LastRead(meant.data) > Len(meant.data)
      BY <2>7, <3>2 DEF Show
    <3>. QED BY <3>1, <3>3 DEF Made, RequestKinds
  <2>8. CASE Done
    BY <2>8 DEF Done, Made, RequestKinds
  <2>9. CASE UNCHANGED vars
    BY <2>9 DEF vars, Made
  <2>. QED BY <2>1, <2>2, <2>3, <2>4, <2>5, <2>6, <2>7, <2>8, <2>9 DEF Next
<1>. QED BY <1>1, <1>2, PTL DEF Spec

(* Whatever size write_size was given, the reader finds it, and reads as   *)
(* many bytes as were written: the five forms do not overlap.              *)
THEOREM SizeReadableHolds == Spec => []SizeReadable
<1>1. Made => SizeReadable
  <2>. SUFFICES ASSUME Made, pc = "size"
                PROVE  SizeBytes(apdu) = Len(apdu) /\ ReadSize(apdu) = meant
    BY DEF SizeReadable
  <2>1. meant \in Sizes /\ apdu = write_size(meant)
    BY DEF Made
  <2>2. Writable(meant)
    BY <2>1, ApduAssumption
  <2>3. ASSUME NEW size, Writable(size)
        PROVE  SizeBytes(write_size(size)) = Len(write_size(size))
               /\ ReadSize(write_size(size)) = size
    <3>. DEFINE b == write_size(size)
    <3>1. b \in Seq(Byte) /\ Len(b) \in 1..5
      BY <2>3, SizeIsBytes
    <3>2. Len(b) <= Len(b)
      BY ONLY <3>1
    <3>. QED BY ONLY <2>3, <3>1, <3>2, SizeRead
  <2>. QED BY ONLY <2>1, <2>2, <2>3
<1>. QED BY <1>1, MadeHolds, PTL

(* The meter reads from a request the class, the name and the index the    *)
(* application gave, whichever they are.                                   *)
THEOREM RequestUnderstoodHolds == Spec => []RequestUnderstood
<1>1. Made => RequestUnderstood
  BY DEF Made, RequestKinds, RequestUnderstood, RequestRead
<1>. QED BY <1>1, MadeHolds, PTL

(* It finds the tag and the text of the value where it looks for them, and *)
(* nothing behind them, whatever the text and its length.                  *)
THEOREM PackedReadableHolds == Spec => []PackedReadable
<1>1. Made => PackedReadable
  <2>. SUFFICES ASSUME Made, pc \in RequestKinds, DataRead(apdu) # <<>>
                PROVE  LET value == DataRead(apdu)
                           behind == Tail(value)
                           start == SizeBytes(behind) + 1
                       IN  /\ value[1] = meant.value.tag
                           /\ SubSeq(behind, start, start + ReadSize(behind) - 1) = meant.value.text
                           /\ Len(behind) = start + ReadSize(behind) - 1
    BY DEF PackedReadable, RequestKinds
  <2>. DEFINE tag == meant.value.tag
              text == meant.value.text
              v == DataRead(apdu)
              start == SizeBytes(Tail(v)) + 1
  <2>1. meant \in Requests /\ NameOf(meant.name) # InvalidName /\ v = pack_sized_type(tag, text)
    BY DEF Made, RequestRead
  <2>2. tag \in Byte /\ text \in Seq(Byte) /\ Writable(Len(text))
    BY <2>1, BuiltIs
  <2>. HIDE DEF tag, text, v
  <2>3. v[1] = tag
    BY ONLY <2>1, <2>2, PackedIs DEF PackedForm
  <2>4. /\ SubSeq(Tail(v), start, start + ReadSize(Tail(v)) - 1) = text
        /\ Len(Tail(v)) = start + ReadSize(Tail(v)) - 1
    BY ONLY <2>1, <2>2, PackedRead
  <2>. QED BY ONLY <2>3, <2>4 DEF tag, text, v
<1>. QED BY <1>1, MadeHolds, PTL

(* A response is taken for a success just when the meter meant one, and    *)
(* its data are the data the meter sent.                                   *)
THEOREM SuccessIsDataHolds == Spec => []SuccessIsData
<1>1. Made => SuccessIsData
  <2>. SUFFICES ASSUME Made, pc = "answer"
                PROVE  LET response == parse_get_response(apdu)
                       IN  /\ response.result = 0 <=> meant.choice = 0
                           /\ response.result = 0 => response.data = meant.data
    BY DEF SuccessIsData
  <2>1. meant \in Answers /\ apdu = GetResponse(meant)
    BY DEF Made
  <2>2. /\ parse_get_response(apdu).result = meant.choice
        /\ parse_get_response(apdu).data = meant.data
    BY ONLY <2>1, AnswerIs
  <2>. QED BY ONLY <2>2
<1>. QED BY <1>1, MadeHolds, PTL

(* to_string, case by case.                                                *)
LEMMA ShownIs ==
  ASSUME NEW data, Len(data) \in Nat, NEW memory
  PROVE  /\ Len(data) < 2 => to_string(data, memory) = Text(<<>>)
         /\ Len(data) >= 2 /\ Len(data) < 5 /\ data[1] = UINT32 => to_string(data, memory) = Underflow
         /\ Len(data) >= 5 /\ data[1] = UINT32 => to_string(data, memory) = Number(Word(data))
         /\ Len(data) >= 2 /\ data[1] = CHARACTERS =>
              to_string(data, memory) = Text(Characters(data, memory))
         /\ data[1] \notin {UINT32, CHARACTERS} => to_string(data, memory) = Text(<<>>)
<1>. DEFINE n == Len(data)
            x == data[1]
            w == Number(Word(data))
            s == Text(Characters(data, memory))
            e == Text(<<>>)
            short == n < 2
            cut == n < 5
<1>1. to_string(data, memory) =
        CASE short -> e
          [] ~short /\ x = UINT32 -> IF cut THEN Underflow ELSE w
          [] ~short /\ x = CHARACTERS -> s
          [] OTHER -> e
  <2>1. n >= 2 <=> ~short
    OBVIOUS
  <2>. QED BY <2>1 DEF to_string, NumberMisses
<1>2. /\ n >= 2 => ~short
      /\ n < 2 => short
      /\ n < 5 => cut
      /\ n >= 5 => ~short /\ ~cut
  OBVIOUS
<1>3. UINT32 # CHARACTERS
  BY DEF UINT32, CHARACTERS
<1>. HIDE DEF n, x, w, s, e, short, cut
<1>4. /\ short => to_string(data, memory) = e
      /\ ~short /\ cut /\ x = UINT32 => to_string(data, memory) = Underflow
      /\ ~short /\ ~cut /\ x = UINT32 => to_string(data, memory) = w
      /\ ~short /\ x = CHARACTERS => to_string(data, memory) = s
      /\ x \notin {UINT32, CHARACTERS} => to_string(data, memory) = e
  BY ONLY <1>1, <1>3
<1>. QED BY ONLY <1>2, <1>4 DEF n, x, w, s, e

(* A number is shown with all its 32 bits, and a cut one is refused.       *)
THEOREM NumberShownHolds == Spec => []NumberShown
<1>1. ASSUME NEW data \in Seq(Byte), data # <<>>, data[1] = UINT32, NEW memory
      PROVE  to_string(data, memory) =
               CASE Len(data) >= 5 -> Number(<<BigEndian(SubSeq(data, 2, 3)),
                                               BigEndian(SubSeq(data, 4, 5))>>)
                 [] Len(data) \in 2..4 -> Underflow
                 [] OTHER -> Text(<<>>)
  <2>. DEFINE n == Len(data)
  <2>0. n \in Nat
    OBVIOUS
  <2>1. /\ n < 2 => to_string(data, memory) = Text(<<>>)
        /\ n >= 2 /\ n < 5 => to_string(data, memory) = Underflow
        /\ n >= 5 => to_string(data, memory) = Number(Word(data))
    BY ONLY <1>1, <2>0, ShownIs
  <2>. HIDE DEF n
  <2>2. ASSUME n >= 5
        PROVE  Word(data) = <<BigEndian(SubSeq(data, 2, 3)), BigEndian(SubSeq(data, 4, 5))>>
    <3>2. ASSUME NEW k \in {2, 4}
          PROVE  BigEndian(SubSeq(data, k, k + 1)) = 256 * data[k] + data[k + 1]
      <4>. DEFINE u == SubSeq(data, k, k + 1)
      <4>1. \A i \in k..(k + 1) : i \in 1..Len(data)
        BY ONLY <2>0, <2>2, k \in {2, 4} DEF n
      <4>2. \A i \in k..(k + 1) : data[i] \in Byte
        BY ONLY <4>1, data \in Seq(Byte), ElementOfSeq
      <4>3. k \in Int /\ k + 1 \in Int
        OBVIOUS
      <4>4. /\ u \in Seq(Byte) /\ Len(u) = IF k <= k + 1 THEN (k + 1) - k + 1 ELSE 0
            /\ \A i \in 1..((k + 1) - k + 1) : u[i] = data[k + i - 1]
        BY ONLY <4>2, <4>3, SubSeqProperties
      <4>5. /\ (IF k <= k + 1 THEN (k + 1) - k + 1 ELSE 0) = 2
            /\ 1 \in 1..((k + 1) - k + 1) /\ 2 \in 1..((k + 1) - k + 1)
            /\ k + 1 - 1 = k /\ k + 2 - 1 = k + 1
        BY ONLY <4>3
      <4>. HIDE DEF u
      <4>6. Len(u) = 2 /\ u[1] = data[k] /\ u[2] = data[k + 1]
        BY ONLY <4>4, <4>5
      <4>7. BigEndian(u) = 256 * u[1] + u[2]
        BY ONLY <4>4, <4>6, BigEndianIs
      <4>. QED BY ONLY <4>6, <4>7 DEF u
    <3>3. /\ BigEndian(SubSeq(data, 2, 3)) = 256 * data[2] + data[3]
          /\ BigEndian(SubSeq(data, 4, 5)) = 256 * data[4] + data[5]
      <4>1. 2 + 1 = 3 /\ 4 + 1 = 5
        OBVIOUS
      <4>. QED BY ONLY <3>2, <4>1
    <3>. QED BY ONLY <3>3 DEF Word
  <2>3. /\ n \in 2..4 <=> n >= 2 /\ n < 5
        /\ n >= 5 \/ n \in 2..4 \/ n < 2
        /\ n >= 5 => n \notin 2..4
    BY ONLY <2>0
  <2>4. CASE n >= 5
    BY ONLY <2>1, <2>2, <2>3, <2>4 DEF n
  <2>5. CASE n \in 2..4
    BY ONLY <2>1, <2>3, <2>5 DEF n
  <2>6. CASE n < 2
    <3>1. ~(n >= 5) /\ ~(n \in 2..4)
      BY ONLY <2>0, <2>6
    <3>. QED BY ONLY <2>1, <2>6, <3>1 DEF n
  <2>. QED BY ONLY <2>3, <2>4, <2>5, <2>6
<1>2. Made => NumberShown
  <2>. SUFFICES ASSUME Made, pc = "shown", meant.data # <<>>, meant.data[1] = UINT32
                PROVE  shown = CASE Len(meant.data) >= 5 ->
                                      Number(<<BigEndian(SubSeq(meant.data, 2, 3)),
                                               BigEndian(SubSeq(meant.data, 4, 5))>>)
                                 [] Len(meant.data) \in 2..4 -> Underflow
                                 [] OTHER -> Text(<<>>)
    BY DEF NumberShown
  <2>1. PICK memory \in Memory : meant \in Answers /\ shown = to_string(meant.data, memory)
    BY DEF Made
  <2>2. meant.data \in Seq(Byte)
    BY <2>1, AnswerIs
  <2>. DEFINE data == meant.data
  <2>. HIDE DEF data
  <2>3. data \in Seq(Byte) /\ data # <<>> /\ data[1] = UINT32
    BY <2>2 DEF data
  <2>4. to_string(data, memory) =
               CASE Len(data) >= 5 -> Number(<<BigEndian(SubSeq(data, 2, 3)),
                                               BigEndian(SubSeq(data, 4, 5))>>)
                 [] Len(data) \in 2..4 -> Underflow
                 [] OTHER -> Text(<<>>)
    BY ONLY <1>1, <2>3
  <2>. QED BY <2>1, <2>4 DEF data
<1>. QED BY <1>2, MadeHolds, PTL

-----------------------------------------------------------------------------
(* What to_string reads and shows.                                         *)

(* The first byte of a length leads nowhere beyond a string that is what   *)
(* it says: a longer form has at least 128 bytes behind it.                *)
LEMMA WellStatedInside ==
  ASSUME NEW data \in Seq(Byte), Len(data) >= 2, WellStated(Tail(data))
  PROVE  data[2] \in Nat /\ data[2] <= Len(data)
<1>. DEFINE sized == Tail(data)
            n == Len(data)
            x == sized[1]
            b == SizeBytes(sized)
            size == ReadSize(sized)
<1>2. size = Len(sized) - b /\ (b > 1 => Len(sized) - b >= 128)
  BY DEF WellStated
<1>3. b = (IF x <= 128 THEN 1 ELSE x - 127) /\ (x <= 128 => size = x)
  BY DEF SizeBytes, ReadSize
<1>4. n \in Nat /\ data[2] = x /\ Len(sized) = n - 1 /\ x \in Byte
  <2>1. n \in Nat /\ n >= 2
    OBVIOUS
  <2>2. 2 \in 1..n
    BY ONLY <2>1
  <2>3. data[2] \in Byte
    BY ONLY data \in Seq(Byte), <2>2, ElementOfSeq
  <2>4. data[2] = x /\ Len(sized) = n - 1
    BY ONLY data \in Seq(Byte), <2>1
  <2>. QED BY ONLY <2>1, <2>3, <2>4
<1>. HIDE DEF n, x, b, size, sized
<1>5. x \in Nat
  <2>1. \A i \in Byte : i \in Nat
    BY DEF Byte
  <2>. QED BY ONLY <1>4, <2>1
<1>6. x <= n
  <2>1. CASE x <= 128
    BY ONLY <1>2, <1>3, <1>4, <1>5, <2>1
  <2>2. CASE x > 128
    BY ONLY <1>2, <1>3, <1>4, <1>5, <2>2
  <2>. QED BY ONLY <1>5, <2>1, <2>2
<1>. QED BY ONLY <1>4, <1>5, <1>6 DEF n

(* Of everything else to_string reads at most as much as there is.         *)
LEMMA OverrunIs ==
  ASSUME NEW data \in Seq(Byte), ~Misstated(data)
  PROVE  ~(LastRead(data) > Len(data))
<1>. DEFINE n == Len(data)
            x == data[1]
            y == data[2]
            t == IF y > 2 THEN y ELSE 2
            w == IF n < 5 THEN 1 ELSE 5
            short == n < 2
<1>1. n \in Nat
  OBVIOUS
<1>2. n >= 2 /\ x = CHARACTERS => y \in Nat /\ y <= n
  BY WellStatedInside DEF Misstated
<1>3. LastRead(data) =
        CASE short -> 0
          [] ~short /\ x = UINT32 -> w
          [] ~short /\ x = CHARACTERS -> t
          [] OTHER -> 1
  <2>1. n >= 2 <=> ~short
    BY <1>1
  <2>. QED BY <2>1 DEF LastRead, NumberMisses
<1>4. /\ ~short => w \in Int /\ w <= n /\ 1 <= n
      /\ short => 0 <= n
      /\ ~short /\ x = CHARACTERS => t \in Int /\ t <= n
  <2>. HIDE DEF n, x, y
  <2>. QED BY ONLY <1>1, <1>2
<1>5. \/ short /\ LastRead(data) = 0
      \/ ~short /\ (LastRead(data) = w \/ LastRead(data) = 1)
      \/ ~short /\ x = CHARACTERS /\ LastRead(data) = t
  <2>1. UINT32 # CHARACTERS
    BY DEF UINT32, CHARACTERS
  <2>. HIDE DEF w, t, x, short
  <2>. QED BY ONLY <1>3, <2>1
<1>. DEFINE last == LastRead(data)
<1>. HIDE DEF w, t, x, short, last, n
<1>6. last \in Int /\ last <= n
  BY <1>1, <1>4, <1>5 DEF last
<1>7. ~(last > n)
  BY ONLY <1>1, <1>6
<1>. QED BY ONLY <1>7 DEF last, n

(* to_string reads beyond the data of a response, and crashes, only when a *)
(* string of the meter is not what its length says.                        *)
THEOREM OverrunMeansMisstatedHolds == Spec => []OverrunMeansMisstated
<1>1. Made => OverrunMeansMisstated
  <2>1. ASSUME Made, pc \in {"answer", "crashed"}
        PROVE  meant \in Answers /\ apdu = GetResponse(meant) /\ meant.data \in Seq(Byte)
    BY <2>1, AnswerIs DEF Made
  <2>2. ASSUME Made, pc = "answer", parse_get_response(apdu).result = 0
        PROVE  LET data == parse_get_response(apdu).data
               IN  LastRead(data) > Len(data) => Misstated(data)
    <3>1. parse_get_response(apdu).data = meant.data /\ meant.data \in Seq(Byte)
      BY <2>1, <2>2, AnswerIs
    <3>. QED BY ONLY <3>1, OverrunIs
  <2>3. ASSUME Made, pc = "crashed"
        PROVE  Misstated(meant.data)
    <3>1. LastRead(meant.data) > Len(meant.data) /\ meant.data \in Seq(Byte)
      BY <2>1, <2>3 DEF Made
    <3>. QED BY ONLY <3>1, OverrunIs
  <2>. QED BY <2>2, <2>3 DEF OverrunMeansMisstated
<1>. QED BY <1>1, MadeHolds, PTL

(* What is shown is a text, a number or underflow_error.                   *)
ShownForm(s) ==
  \/ s = Underflow
  \/ s.result = "number" /\ s.number \in Half \X Half
  \/ s.result = "text" /\ s.text \in Seq(Byte)

(* Two bytes make a half.                                                  *)
LEMMA HalfOfBytes == \A x, y \in Byte : 256 * x + y \in Half
<1>1. \A x, y \in Byte : 256 * x + y \in Int /\ 256 * x + y >= 0 /\ 256 * x + y <= 65535
  BY DEF Byte
<1>2. ASSUME NEW z \in Int, z >= 0, z <= 65535 PROVE z \in Half
  <2>1. z \notin Half => FALSE
    BY <1>2 DEF Half
  <2>. QED BY ONLY <2>1, Zenon
<1>3. ASSUME NEW x \in Byte, NEW y \in Byte PROVE 256 * x + y \in Half
  <2>. DEFINE z == 256 * x + y
  <2>1. z \in Int /\ z >= 0 /\ z <= 65535
    BY ONLY <1>1, <1>3
  <2>. HIDE DEF z
  <2>2. z \in Half
    BY ONLY <1>2, <2>1
  <2>. QED BY ONLY <2>2 DEF z
<1>. QED BY ONLY <1>3

(* The characters of a string, the meter's and those behind it.            *)
LEMMA CharactersAreBytes ==
  ASSUME NEW data \in Seq(Byte), NEW memory \in Memory, data[2] \in Byte
  PROVE  Characters(data, memory) \in Seq(Byte)
<1>. DEFINE n == data[2]
<1>1. memory \in [1..255 -> Byte]
  <2>1. Memory \subseteq [1..255 -> Byte]
    BY ONLY ApduAssumption, Zenon
  <2>. QED BY ONLY <2>1, memory \in Memory
<1>2. n \in Nat /\ n <= 255
  <2>1. \A b \in Byte : b \in Nat /\ b <= 255
    BY DEF Byte
  <2>. QED BY ONLY <2>1, data[2] \in Byte
<1>3. ASSUME NEW i \in 1..n
      PROVE  (IF i <= Len(data) THEN data[i] ELSE memory[i]) \in Byte
  <2>1. i \in 1..255 /\ Len(data) \in Nat /\ (i <= Len(data) => i \in 1..Len(data))
    BY <1>2
  <2>2. memory[i] \in Byte
    BY ONLY <1>1, <2>1
  <2>3. i <= Len(data) => data[i] \in Byte
    BY ONLY <2>1, data \in Seq(Byte), ElementOfSeq
  <2>. QED BY ONLY <2>2, <2>3
<1>4. [i \in 1..n |-> IF i <= Len(data) THEN data[i] ELSE memory[i]] \in [1..n -> Byte]
  BY ONLY <1>3
<1>5. [1..n -> Byte] \subseteq Seq(Byte)
  BY ONLY <1>2
<1>. QED BY ONLY <1>4, <1>5 DEF Characters

(* Whatever a meter sent and whatever is behind it in memory.              *)
LEMMA ShownFormIs ==
  ASSUME NEW data \in Seq(Byte), NEW memory \in Memory
  PROVE  ShownForm(to_string(data, memory))
<1>1. Len(data) \in Nat
  OBVIOUS
<1>2. ASSUME NEW text \in Seq(Byte) PROVE ShownForm(Text(text))
  BY DEF ShownForm, Text
<1>3. <<>> \in Seq(Byte)
  BY EmptySeq
<1>4. CASE Len(data) < 2
  BY ONLY <1>1, <1>2, <1>3, <1>4, ShownIs
<1>5. CASE Len(data) >= 2 /\ data[1] = UINT32 /\ Len(data) < 5
  <2>1. to_string(data, memory) = Underflow
    BY ONLY <1>1, <1>5, ShownIs
  <2>. QED BY ONLY <2>1 DEF ShownForm
<1>6. CASE data[1] = UINT32 /\ Len(data) >= 5
  <2>1. to_string(data, memory) = Number(Word(data))
    BY ONLY <1>1, <1>6, ShownIs
  <2>2. 2 \in 1..Len(data) /\ 3 \in 1..Len(data) /\ 4 \in 1..Len(data) /\ 5 \in 1..Len(data)
    BY ONLY <1>1, <1>6
  <2>3. data[2] \in Byte /\ data[3] \in Byte /\ data[4] \in Byte /\ data[5] \in Byte
    BY ONLY <2>2, data \in Seq(Byte), ElementOfSeq
  <2>4. 256 * data[2] + data[3] \in Half /\ 256 * data[4] + data[5] \in Half
    BY ONLY <2>3, HalfOfBytes
  <2>5. Word(data) \in Half \X Half
    BY ONLY <2>4 DEF Word
  <2>. QED BY ONLY <2>1, <2>5 DEF ShownForm, Number
<1>7. CASE Len(data) >= 2 /\ data[1] = CHARACTERS
  <2>1. to_string(data, memory) = Text(Characters(data, memory))
    BY ONLY <1>1, <1>7, ShownIs
  <2>2. 2 \in 1..Len(data)
    BY ONLY <1>1, <1>7
  <2>3. data[2] \in Byte
    BY ONLY <2>2, data \in Seq(Byte), ElementOfSeq
  <2>4. Characters(data, memory) \in Seq(Byte)
    BY ONLY <2>3, data \in Seq(Byte), CharactersAreBytes
  <2>. QED BY ONLY <1>2, <2>1, <2>4
<1>8. CASE data[1] \notin {UINT32, CHARACTERS}
  BY ONLY <1>1, <1>2, <1>3, <1>8, ShownIs
<1>9. Len(data) < 2 \/ (Len(data) >= 2 /\ Len(data) < 5) \/ Len(data) >= 5
  BY ONLY <1>1
<1>10. Len(data) >= 5 => Len(data) >= 2
  BY ONLY <1>1
<1>. QED BY ONLY <1>4, <1>5, <1>6, <1>7, <1>8, <1>9, <1>10

(* The fields a meter has read.                                            *)
FieldType == [tag : Byte, value : Seq(Byte)]

(* Every AARQ is bytes, and whatever a meter reads in bytes is a field.    *)
(* The AARQ, its length, and where its fields are.                         *)
LEMMA AarqIsBytes ==
  ASSUME NEW p \in CosemParameters, NEW challenge \in Seq(Byte)
  PROVE  serialize_aarq(p, challenge) \in Seq(Byte)
<1>. DEFINE value == ValueOf(p, challenge)
            k == Len(Body(p, value)) % 256
<1>1. value \in Seq(Byte)
  <2>1. p.secret \in Seq(Byte)
    BY ApduAssumption DEF CosemParameters
  <2>. QED BY <2>1 DEF ValueOf
<1>2. serialize_aarq(p, challenge) = <<96, k>> \o Body(p, value)
  BY DEF serialize_aarq, Body, ValueOf
<1>. HIDE DEF value
<1>3. Body(p, value) \in Seq(Byte)
  <2>. DEFINE v == ProtocolVersion
              c == ApplicationContextName(p)
              t == CallingApTitle(p)
              a == Authentication(p, value)
              u == UserInformation
  <2>1. v \in Seq(Byte) /\ c \in Seq(Byte) /\ t \in Seq(Byte) /\ a \in Seq(Byte) /\ u \in Seq(Byte)
    BY <1>1, PartsAreBytes
  <2>. HIDE DEF v, c, t, a, u
  <2>2. v \o c \o t \o a \o u \in Seq(Byte)
    BY ONLY <2>1, ConcatIs
  <2>. QED BY ONLY <2>2 DEF Body, v, c, t, a, u
<1>4. Len(Body(p, value)) \in Nat
  BY ONLY <1>3, LenProperties
<1>5. k \in Byte
  BY ONLY <1>4, CutToByte
<1>6. 96 \in Byte
  BY DEF Byte
<1>. HIDE DEF k
<1>7. <<96, k>> \in Seq(Byte)
  BY ONLY <1>5, <1>6
<1>. QED BY ONLY <1>2, <1>3, <1>7, ConcatIs

(* What generate_challenger may yield: bytes, as many as were asked for.   *)
LEMMA ChallengesAre ==
  ASSUME NEW size \in ChallengerSizes, NEW challenge \in Challenges(size)
  PROVE  challenge \in Seq(Byte) /\ Len(challenge) = size
<1>1. size \in Nat
  BY ApduAssumption
<1>2. PICK b \in RandomBytes : challenge = [i \in 1..size |-> b]
  BY DEF Challenges
<1>3. b \in Byte
  BY ApduAssumption
<1>. QED BY ONLY <1>1, <1>2, <1>3

(* A field read anywhere within the bytes.                                 *)
LEMMA FieldIs ==
  ASSUME NEW r \in Seq(Byte), NEW o \in Nat, o + 2 <= Len(r)
  PROVE  LET e == o + 2 + r[o + 2]
             f == IF e > Len(r) THEN Len(r) ELSE e
         IN  /\ e \in Nat
             /\ [tag |-> r[o + 1], value |-> SubSeq(r, o + 3, f)] \in FieldType
<1>. DEFINE e == o + 2 + r[o + 2]
            f == IF e > Len(r) THEN Len(r) ELSE e
            m == o + 3
<1>1. Len(r) \in Nat
  OBVIOUS
<1>2. o + 1 \in 1..Len(r) /\ o + 2 \in 1..Len(r)
  BY ONLY <1>1, o \in Nat, o + 2 <= Len(r)
<1>3. r[o + 1] \in Byte /\ r[o + 2] \in Byte
  BY ONLY <1>2, r \in Seq(Byte), ElementOfSeq
<1>4. e \in Nat
  <2>1. \A b \in Byte : b \in Nat
    BY DEF Byte
  <2>2. r[o + 2] \in Nat
    BY ONLY <1>3, <2>1
  <2>. QED BY ONLY <2>2, o \in Nat
<1>. HIDE DEF e
<1>5. m \in Int /\ f \in Int /\ f <= Len(r) /\ \A i \in m..f : i \in 1..Len(r)
  BY ONLY <1>1, <1>4, o \in Nat
<1>6. \A i \in m..f : r[i] \in Byte
  BY ONLY <1>5, r \in Seq(Byte), ElementOfSeq
<1>. HIDE DEF f, m
<1>7. SubSeq(r, m, f) \in Seq(Byte)
  BY ONLY <1>5, <1>6, SubSeqProperties
<1>8. [tag |-> r[o + 1], value |-> SubSeq(r, m, f)] \in FieldType
  BY ONLY <1>3, <1>7 DEF FieldType
<1>. QED BY ONLY <1>4, <1>8 DEF e, f, m

(* The type invariant, with all that it rests on.                          *)
Typed ==
  /\ pc \in {"start", "aarq", "get", "set", "action", "answer", "size", "thrown", "shown",
             "crashed"}
  /\ apdu \in Seq(Byte)
  /\ offset \in Nat
  /\ fields \in Seq(FieldType)
  /\ pc # "aarq" => fields = <<>>
  /\ ShownForm(shown)

(* The state is what it should be, whatever a meter answers.               *)
LEMMA TypedHolds == Spec => []Typed
<1>1. ShownForm(Text(<<>>)) /\ <<>> \in Seq(Byte) /\ <<>> \in Seq(FieldType)
  BY EmptySeq DEF ShownForm, Text
<1>2. Init => Typed
  BY <1>1 DEF Init, Typed
<1>3. Typed /\ Made /\ [Next]_vars => Typed'
  <2>. SUFFICES ASSUME Typed, Made, [Next]_vars PROVE Typed'
    OBVIOUS
  <2>1. CASE WriteAarq
    <3>1. PICK p \in CosemParameters : \E challenge \in Challenges(p.challenger_size) :
            apdu' = serialize_aarq(p, challenge)
      BY <2>1 DEF WriteAarq
    <3>2. PICK challenge \in Challenges(p.challenger_size) : apdu' = serialize_aarq(p, challenge)
      BY <3>1
    <3>3. p.challenger_size \in ChallengerSizes
      BY DEF CosemParameters
    <3>4. challenge \in Seq(Byte)
      BY ONLY <3>2, <3>3, ChallengesAre
    <3>5. apdu' \in Seq(Byte)
      BY ONLY <3>1, <3>2, <3>4, AarqIsBytes
    <3>. QED BY <2>1, <3>5 DEF WriteAarq, Typed
  <2>2. CASE ReadField
    <3>. DEFINE e == offset + 2 + apdu[offset + 2]
                f == IF e > Len(apdu) THEN Len(apdu) ELSE e
                field == [tag |-> apdu[offset + 1], value |-> SubSeq(apdu, offset + 3, f)]
    <3>1. /\ pc = "aarq" /\ pc' = pc /\ apdu' = apdu /\ shown' = shown
          /\ ~(offset + 2 > Len(apdu))
          /\ offset' = e /\ fields' = Append(fields, field)
      BY <2>2 DEF ReadField, AarqRead
    <3>2. apdu \in Seq(Byte) /\ offset \in Nat /\ Len(apdu) \in Nat
      BY DEF Typed
    <3>3. offset + 2 <= Len(apdu)
      BY ONLY <3>1, <3>2
    <3>4. e \in Nat /\ field \in FieldType
      BY ONLY <3>2, <3>3, FieldIs
    <3>. HIDE DEF e, field
    <3>5. fields' \in Seq(FieldType)
      <4>1. fields \in Seq(FieldType)
        BY DEF Typed
      <4>. QED BY ONLY <3>1, <3>4, <4>1
    <3>. QED BY <3>1, <3>4, <3>5 DEF Typed
  <2>3. CASE Misname
    BY <2>3 DEF Misname, Typed
  <2>4. CASE WriteRequest
    <3>1. PICK args \in Requests :
            /\ NameOf(args.name) # InvalidName
            /\ \/ pc' = "get" /\ apdu' = serialize_get_request(Built(args))
               \/ pc' = "set" /\ apdu' = serialize_set_request(Built(args))
               \/ pc' = "action" /\ apdu' = serialize_action_request(Built(args))
      BY <2>4 DEF WriteRequest
    <3>2. apdu' \in Seq(Byte)
      BY <3>1, RequestReadIs DEF RequestRead
    <3>. QED BY <2>4, <3>1, <3>2 DEF WriteRequest, Typed
  <2>5. CASE WriteSize
    <3>1. apdu' \in Seq(Byte)
      BY <2>5, ApduAssumption, SizeIsBytes DEF WriteSize
    <3>. QED BY <2>5, <3>1 DEF WriteSize, Typed
  <2>6. CASE MeterAnswers
    <3>1. apdu' \in Seq(Byte)
      BY <2>6, AnswerIs DEF MeterAnswers
    <3>. QED BY <2>6, <3>1 DEF MeterAnswers, Typed
  <2>7. CASE Show
    <3>1. /\ pc = "answer" /\ parse_get_response(apdu).result = 0
          /\ UNCHANGED <<apdu, offset, fields>>
          /\ \/ /\ \E memory \in Memory :
                     shown' = to_string(parse_get_response(apdu).data, memory)
                /\ pc' = "shown"
             \/ pc' = "crashed" /\ UNCHANGED shown
      BY <2>7 DEF Show
    <3>2. meant \in Answers /\ apdu = GetResponse(meant)
      BY <3>1 DEF Made
    <3>3. parse_get_response(apdu).data = meant.data /\ meant.data \in Seq(Byte)
      BY <3>1, <3>2, AnswerIs
    <3>4. ASSUME NEW memory \in Memory PROVE ShownForm(to_string(meant.data, memory))
      BY ONLY <3>3, ShownFormIs
    <3>5. ShownForm(shown) => ShownForm(shown')
      BY <3>1, <3>3, <3>4
    <3>. QED BY <3>1, <3>5 DEF Typed
  <2>8. CASE Done
    BY <1>1, <2>8 DEF Done, Typed
  <2>9. CASE UNCHANGED vars
    BY <2>9 DEF vars, Typed
  <2>. QED BY <2>1, <2>2, <2>3, <2>4, <2>5, <2>6, <2>7, <2>8, <2>9 DEF Next
<1>. QED BY <1>2, <1>3, MadeHolds, PTL DEF Spec

(* Type correctness: every APDU is bytes, whatever was put into it, and    *)
(* what is shown has its form, also when it comes from beyond an answer.   *)
THEOREM TypeCorrect == Spec => []TypeOK
<1>1. Typed => TypeOK
  <2>. SUFFICES ASSUME Typed PROVE TypeOK
    OBVIOUS
  <2>1. \A i \in DOMAIN fields : fields[i].tag \in Byte /\ fields[i].value \in Seq(Byte)
    <3>1. fields \in Seq(FieldType)
      BY DEF Typed
    <3>2. \A i \in DOMAIN fields : fields[i] \in FieldType
      BY ONLY <3>1
    <3>. QED BY ONLY <3>2 DEF FieldType
  <2>. QED BY <2>1 DEF Typed, TypeOK, ShownForm
<1>. QED BY <1>1, TypedHolds, PTL

-----------------------------------------------------------------------------
(* The meter that reads an AARQ field by field.                            *)

(* The numbers whose presence a meter goes by, and whether the parameters  *)
(* call for the field.                                                     *)
Announced == {6, 10, 11, 12}

Due(p, number) == IF number = 6 THEN HasTitle(p) ELSE p.authentication # LOWEST

(* Where the reader may stand, n the number of the field it comes to; 31   *)
(* at the end.                                                             *)
Standing(o, n, p, t, a) ==
  \/ o = 2 /\ n = 0
  \/ o = 6 /\ n = 1
  \/ HasTitle(p) /\ o = 17 /\ n = 6
  \/ p.authentication # LOWEST /\ o = 17 + t /\ n = 10
  \/ p.authentication # LOWEST /\ o = 21 + t /\ n = 11
  \/ p.authentication # LOWEST /\ o = 30 + t /\ n = 12
  \/ o = 17 + t + a /\ n = 30
  \/ o = 34 + t + a /\ n = 31

(* No field that is due is passed over from n to m.                        *)
Following(p, n, m) ==
  /\ n < m
  /\ \A k \in Announced : (k < m /\ Due(p, k)) <=> (k = n \/ (k < n /\ Due(p, k)))

(* The lengths of the two optional parts.                                  *)
Sized(p, t, a) ==
  /\ t \in Nat /\ a \in Nat
  /\ ~HasTitle(p) => t = 0
  /\ p.authentication = LOWEST => a = 0
  /\ p.authentication # LOWEST => a >= 17

(* They are the lengths TitleLen and AuthLen give.                         *)
LEMMA SizedIs ==
  ASSUME NEW p \in CosemParameters, NEW challenge \in Seq(Byte)
  PROVE  Sized(p, TitleLen(p), AuthLen(p, ValueOf(p, challenge)))
<1>. DEFINE value == ValueOf(p, challenge)
<1>1. Len(value) \in Nat
  <2>1. p.secret \in Seq(Byte)
    BY ApduAssumption DEF CosemParameters
  <2>2. value \in Seq(Byte)
    BY <2>1 DEF ValueOf
  <2>. QED BY ONLY <2>2, LenProperties
<1>. HIDE DEF value
<1>2. Sized(p, TitleLen(p), AuthLen(p, value))
  BY <1>1 DEF Sized, TitleLen, AuthLen
<1>. QED BY ONLY <1>2 DEF value

(* From each place the reader gets to the next.                            *)
LEMMA ReadOn ==
  ASSUME NEW r, NEW p, NEW t, NEW a, NEW o, NEW n,
         Sized(p, t, a), Layout(r, p, t, a), Len(r) = 34 + t + a,
         Standing(o, n, p, t, a), o + 2 <= Len(r)
  PROVE  \E e, m : Reads(r, o, e, n) /\ Standing(e, m, p, t, a) /\ Following(p, n, m)
                   /\ e \in Nat /\ m \in Nat
<1>. DEFINE H == HasTitle(p)
            A == p.authentication # LOWEST
<1>1. t \in Nat /\ a \in Nat /\ (~H => t = 0) /\ (~A => a = 0) /\ (A => a >= 17)
  BY DEF Sized
<1>2. /\ Reads(r, 2, 6, 0) /\ Reads(r, 6, 17, 1)
      /\ H => Reads(r, 17, 17 + t, 6)
      /\ A => /\ Reads(r, 17 + t, 21 + t, 10) /\ Reads(r, 21 + t, 30 + t, 11)
              /\ Reads(r, 30 + t, 17 + t + a, 12)
      /\ Reads(r, 17 + t + a, 34 + t + a, 30)
  BY DEF Layout
<1>3. \A e, m : Standing(e, m, p, t, a) <=>
        \/ e = 2 /\ m = 0
        \/ e = 6 /\ m = 1
        \/ H /\ e = 17 /\ m = 6
        \/ A /\ e = 17 + t /\ m = 10
        \/ A /\ e = 21 + t /\ m = 11
        \/ A /\ e = 30 + t /\ m = 12
        \/ e = 17 + t + a /\ m = 30
        \/ e = 34 + t + a /\ m = 31
  BY DEF Standing
<1>4. \A i, j : Following(p, i, j) <=>
        /\ i < j
        /\ (6 < j /\ H) <=> (6 = i \/ (6 < i /\ H))
        /\ \A k \in {10, 11, 12} : (k < j /\ A) <=> (k = i \/ (k < i /\ A))
  BY DEF Following, Due, Announced
<1>. HIDE DEF H, A
<1>5. /\ Following(p, 0, 1)
      /\ H => Following(p, 1, 6)
      /\ ~H /\ A => Following(p, 1, 10)
      /\ ~H /\ ~A => Following(p, 1, 30)
      /\ H /\ A => Following(p, 6, 10)
      /\ H /\ ~A => Following(p, 6, 30)
      /\ A => Following(p, 10, 11)
      /\ A => Following(p, 11, 12)
      /\ A => Following(p, 12, 30)
      /\ Following(p, 30, 31)
  BY ONLY <1>4
<1>6. /\ 6 \in Nat /\ 17 \in Nat /\ 17 + t \in Nat /\ 21 + t \in Nat /\ 30 + t \in Nat
      /\ 17 + t + a \in Nat /\ 34 + t + a \in Nat
      /\ 1 \in Nat /\ 10 \in Nat /\ 11 \in Nat /\ 12 \in Nat /\ 30 \in Nat /\ 31 \in Nat
      /\ ~H => 17 = 17 + t
      /\ ~A => 17 + t = 17 + t + a
      /\ ~(34 + t + a + 2 <= 34 + t + a)
  BY ONLY <1>1
<1>7. CASE o = 2 /\ n = 0
  BY ONLY <1>2, <1>3, <1>5, <1>6, <1>7
<1>8. CASE o = 6 /\ n = 1
  <2>1. CASE H
    BY ONLY <1>2, <1>3, <1>5, <1>6, <1>8, <2>1
  <2>2. CASE ~H /\ A
    BY ONLY <1>2, <1>3, <1>5, <1>6, <1>8, <2>2
  <2>3. CASE ~H /\ ~A
    BY ONLY <1>2, <1>3, <1>5, <1>6, <1>8, <2>3
  <2>. QED BY ONLY <2>1, <2>2, <2>3
<1>9. CASE H /\ o = 17 /\ n = 6
  <2>1. CASE A
    BY ONLY <1>2, <1>3, <1>5, <1>6, <1>9, <2>1
  <2>2. CASE ~A
    BY ONLY <1>2, <1>3, <1>5, <1>6, <1>9, <2>2
  <2>. QED BY ONLY <2>1, <2>2
<1>10. CASE A /\ o = 17 + t /\ n = 10
  BY ONLY <1>2, <1>3, <1>5, <1>6, <1>10
<1>11. CASE A /\ o = 21 + t /\ n = 11
  BY ONLY <1>2, <1>3, <1>5, <1>6, <1>11
<1>12. CASE A /\ o = 30 + t /\ n = 12
  BY ONLY <1>2, <1>3, <1>5, <1>6, <1>12
<1>13. CASE o = 17 + t + a /\ n = 30
  BY ONLY <1>2, <1>3, <1>5, <1>6, <1>13
<1>14. ~(o = 34 + t + a /\ n = 31)
  BY ONLY <1>6, o + 2 <= Len(r), Len(r) = 34 + t + a
<1>. QED BY ONLY <1>3, <1>7, <1>8, <1>9, <1>10, <1>11, <1>12, <1>13, <1>14,
                 Standing(o, n, p, t, a)

(* The reader stops at the end and nowhere else.                           *)
LEMMA EndIs ==
  ASSUME NEW p, NEW t, NEW a, NEW o, NEW n, Sized(p, t, a), Standing(o, n, p, t, a)
  PROVE  /\ o <= 34 + t + a
         /\ o + 2 > 34 + t + a => o = 34 + t + a
         /\ o = 34 + t + a => n = 31
<1>1. t \in Nat /\ a \in Nat /\ (p.authentication # LOWEST => a >= 17)
  BY DEF Sized
<1>. DEFINE A == p.authentication # LOWEST
<1>2. \/ o = 2 /\ n = 0
      \/ o = 6 /\ n = 1
      \/ o = 17 /\ n = 6
      \/ A /\ o = 17 + t /\ n = 10
      \/ A /\ o = 21 + t /\ n = 11
      \/ A /\ o = 30 + t /\ n = 12
      \/ o = 17 + t + a /\ n = 30
      \/ o = 34 + t + a /\ n = 31
  BY DEF Standing
<1>3. A => a >= 17
  BY <1>1
<1>. HIDE DEF A
<1>. QED BY ONLY <1>1, <1>2, <1>3

(* What has been read before the field of number n.                        *)
Filled(field) ==
  Nested(field) => Len(field.value) >= 2 /\ field.value[2] = Len(field.value) - 2

Has(fs, k) == \E i \in 1..Len(fs) : fs[i].tag % 32 = k

(* The fields read: filled, in order, and the due ones, each of them.      *)
Progress(fs, n, p) ==
  /\ fs \in Seq(FieldType)
  /\ \A i \in 1..Len(fs) : fs[i].tag % 32 < n /\ Filled(fs[i])
  /\ \A i, j \in 1..Len(fs) : i < j => fs[i].tag % 32 < fs[j].tag % 32
  /\ \A k \in Announced : Has(fs, k) <=> (k < n /\ Due(p, k))

(* A field of the number the reader has come to keeps it so.               *)
LEMMA ProgressOn ==
  ASSUME NEW p, NEW fs, NEW n \in Nat, NEW m \in Nat, Progress(fs, n, p), Following(p, n, m),
         NEW field \in FieldType, field.tag % 32 = n, Filled(field)
  PROVE  Progress(Append(fs, field), m, p)
<1>. DEFINE gs == Append(fs, field)
            l == Len(fs)
<1>1. /\ fs \in Seq(FieldType)
      /\ \A i \in 1..l : fs[i].tag % 32 < n /\ Filled(fs[i])
      /\ \A i, j \in 1..l : i < j => fs[i].tag % 32 < fs[j].tag % 32
      /\ \A k \in Announced : Has(fs, k) <=> (k < n /\ Due(p, k))
  BY DEF Progress
<1>2. /\ n < m
      /\ \A k \in Announced : (k < m /\ Due(p, k)) <=> (k = n \/ (k < n /\ Due(p, k)))
  BY DEF Following
<1>3. /\ gs \in Seq(FieldType) /\ l \in Nat /\ Len(gs) = l + 1
      /\ \A i \in 1..l : gs[i] = fs[i]
      /\ gs[l + 1] = field
  BY ONLY <1>1, field \in FieldType
<1>4. \A i \in 1..l : fs[i].tag % 32 \in Int
  <2>1. \A i \in 1..l : fs[i] \in FieldType
    BY ONLY <1>1, ElementOfSeq
  <2>2. \A b \in Byte : b % 32 \in Int
    BY DEF Byte
  <2>. QED BY ONLY <2>1, <2>2 DEF FieldType
<1>. HIDE DEF gs, l
<1>5. \A i \in 1..(l + 1) : i \in 1..l \/ i = l + 1
  BY ONLY <1>3
<1>6. \A i \in 1..l : i \in 1..(l + 1) /\ i < l + 1 /\ ~(l + 1 < i)
  BY ONLY <1>3
<1>7. l + 1 \in 1..(l + 1) /\ ~(l + 1 < l + 1)
  BY ONLY <1>3
<1>. DEFINE N(x) == x.tag % 32
<1>8. /\ \A i \in 1..l : N(fs[i]) \in Int /\ N(fs[i]) < n /\ Filled(fs[i])
      /\ \A i, j \in 1..l : i < j => N(fs[i]) < N(fs[j])
      /\ N(field) = n /\ Filled(field)
  BY ONLY <1>1, <1>4, field.tag % 32 = n, Filled(field)
<1>. HIDE DEF N
<1>9. \A x \in Int : x < n => x < m
  BY ONLY <1>2, n \in Nat, m \in Nat
<1>10. \A i \in 1..Len(gs) : N(gs[i]) < m /\ Filled(gs[i])
  BY ONLY <1>2, <1>3, <1>5, <1>8, <1>9, Zenon
<1>11. \A i, j \in 1..Len(gs) : i < j => N(gs[i]) < N(gs[j])
  <2>. SUFFICES ASSUME NEW i \in 1..Len(gs), NEW j \in 1..Len(gs), i < j
                PROVE  N(gs[i]) < N(gs[j])
    OBVIOUS
  <2>1. i \in 1..l
    BY ONLY <1>3, <1>5, <1>6, <1>7, i < j, i \in 1..Len(gs), j \in 1..Len(gs)
  <2>2. CASE j \in 1..l
    BY ONLY <1>3, <1>8, <2>1, <2>2, i < j
  <2>3. CASE j = l + 1
    BY ONLY <1>3, <1>8, <2>1, <2>3
  <2>. QED BY ONLY <1>3, <1>5, <2>2, <2>3, j \in 1..Len(gs)
<1>12. \A k \in Announced : Has(gs, k) <=> (k < m /\ Due(p, k))
  <2>. SUFFICES ASSUME NEW k \in Announced
                PROVE  Has(gs, k) <=> (k < m /\ Due(p, k))
    OBVIOUS
  <2>1. Has(gs, k) <=> \E i \in 1..Len(gs) : N(gs[i]) = k
    BY DEF Has, N
  <2>2. Has(fs, k) <=> \E i \in 1..l : N(fs[i]) = k
    BY DEF Has, N, l
  <2>3. Has(gs, k) <=> (Has(fs, k) \/ k = n)
    BY ONLY <1>3, <1>5, <1>6, <1>7, <1>8, <2>1, <2>2, Zenon
  <2>. QED BY ONLY <1>1, <1>2, <2>3, k \in Announced
<1>. QED BY ONLY <1>3, <1>10, <1>11, <1>12 DEF Progress, gs, N

(* An AARQ of these parameters that has been read up to the offset.        *)
ReadSoFar(p, r, o, fs, challenge, n) ==
  /\ p \in CosemParameters
  /\ challenge \in Seq(Byte) /\ Len(challenge) \in ChallengerSizes
  /\ r = serialize_aarq(p, challenge)
  /\ o \in Nat /\ n \in Nat
  /\ Standing(o, n, p, TitleLen(p), AuthLen(p, ValueOf(p, challenge)))
  /\ Progress(fs, n, p)

(* While an AARQ is read, it has been read up to the offset.               *)
Reading ==
  /\ pc # "aarq" => fields = <<>>
  /\ pc = "aarq" => \E challenge, n : ReadSoFar(meant, apdu, offset, fields, challenge, n)

(* The longest challenge whose two lengths are bytes: the outer one counts *)
(* two bytes more.                                                         *)
ShortChallenges == \A size \in ChallengerSizes : size <= 253

(* The next field is read as it was written.                               *)
LEMMA ReadsOn ==
  ASSUME ShortChallenges, NEW p, NEW r, NEW o, NEW fs, NEW challenge, NEW n,
         ReadSoFar(p, r, o, fs, challenge, n), ~(o + 2 > Len(r))
  PROVE  LET e == o + 2 + r[o + 2]
             field == [tag |-> r[o + 1],
                       value |-> SubSeq(r, o + 3, IF e > Len(r) THEN Len(r) ELSE e)]
         IN  \E m : ReadSoFar(p, r, e, Append(fs, field), challenge, m)
<1>. DEFINE e == o + 2 + r[o + 2]
            field == [tag |-> r[o + 1],
                      value |-> SubSeq(r, o + 3, IF e > Len(r) THEN Len(r) ELSE e)]
            t == TitleLen(p)
            a == AuthLen(p, ValueOf(p, challenge))
<1>1. /\ p \in CosemParameters
      /\ challenge \in Seq(Byte) /\ Len(challenge) \in ChallengerSizes
      /\ r = serialize_aarq(p, challenge)
      /\ o \in Nat /\ n \in Nat
      /\ Standing(o, n, p, t, a)
      /\ Progress(fs, n, p)
  BY DEF ReadSoFar
<1>2. Len(challenge) <= 253
  BY <1>1 DEF ShortChallenges
<1>3. r \in Seq(Byte) /\ Len(r) = 34 + t + a /\ Layout(r, p, t, a)
  BY ONLY <1>1, <1>2, AarqIs
<1>4. Sized(p, t, a)
  BY ONLY <1>1, SizedIs
<1>. HIDE DEF t, a
<1>5. Len(r) \in Nat /\ o + 2 <= Len(r)
  <2>1. Len(r) \in Nat
    BY ONLY <1>3, LenProperties
  <2>. QED BY ONLY <1>1, <2>1, ~(o + 2 > Len(r))
<1>6. PICK x, m : /\ Reads(r, o, x, n) /\ Standing(x, m, p, t, a) /\ Following(p, n, m)
                  /\ x \in Nat /\ m \in Nat
  BY ONLY <1>1, <1>3, <1>4, <1>5, ReadOn
<1>. DEFINE value == SubSeq(r, o + 3, x)
<1>7. /\ x = e /\ x <= Len(r)
      /\ r[o + 1] \in Byte /\ r[o + 1] % 32 = n
      /\ value \in Seq(Byte)
      /\ r[o + 1] \in {161, 166, 172, 190} => Len(value) >= 2 /\ value[2] = Len(value) - 2
  BY ONLY <1>6 DEF Reads
<1>8. (IF e > Len(r) THEN Len(r) ELSE e) = x
  <2>. HIDE DEF e
  <2>. QED BY ONLY <1>5, <1>6, <1>7
<1>9. field = [tag |-> r[o + 1], value |-> value]
  BY ONLY <1>8
<1>. HIDE DEF e, field, value
<1>10. field \in FieldType /\ field.tag % 32 = n /\ Filled(field)
  <2>1. field.tag = r[o + 1] /\ field.value = value
    BY ONLY <1>9
  <2>2. field \in FieldType
    BY ONLY <1>7, <1>9 DEF FieldType
  <2>3. Filled(field)
    BY ONLY <1>7, <2>1 DEF Filled, Nested
  <2>. QED BY ONLY <1>7, <2>1, <2>2, <2>3
<1>11. Progress(Append(fs, field), m, p)
  BY ONLY <1>1, <1>6, <1>10, ProgressOn
<1>12. ReadSoFar(p, r, x, Append(fs, field), challenge, m)
  BY ONLY <1>1, <1>6, <1>11 DEF ReadSoFar, t, a
<1>. QED BY ONLY <1>7, <1>12 DEF e, field

(* No action but ReadField moves the reader, and that one from field to    *)
(* field.                                                                  *)
LEMMA ReadingHolds ==
  ASSUME ShortChallenges
  PROVE  Spec => []Reading
<1>1. Init => Reading
  BY DEF Init, Reading
<1>2. Reading /\ [Next]_vars => Reading'
  <2>. SUFFICES ASSUME Reading, [Next]_vars PROVE Reading'
    OBVIOUS
  <2>1. CASE WriteAarq
    <3>1. PICK p \in CosemParameters :
            /\ meant' = p
            /\ \E challenge \in Challenges(p.challenger_size) :
                 apdu' = serialize_aarq(p, challenge)
      BY <2>1 DEF WriteAarq
    <3>2. PICK challenge \in Challenges(p.challenger_size) : apdu' = serialize_aarq(p, challenge)
      BY <3>1
    <3>3. p.challenger_size \in ChallengerSizes
      BY DEF CosemParameters
    <3>4. challenge \in Seq(Byte) /\ Len(challenge) = p.challenger_size
      BY ONLY <3>2, <3>3, ChallengesAre
    <3>5. pc' = "aarq" /\ offset' = 2 /\ fields' = <<>>
      BY <2>1 DEF WriteAarq, Reading
    <3>6. Progress(<<>>, 0, p)
      <4>1. <<>> \in Seq(FieldType) /\ Len(<<>>) = 0
        BY EmptySeq
      <4>2. \A i \in 1..Len(<<>>) : FALSE
        OBVIOUS
      <4>3. \A k \in Announced : ~(k < 0)
        BY DEF Announced
      <4>. QED BY ONLY <4>1, <4>2, <4>3 DEF Progress, Has
    <3>7. Standing(2, 0, p, TitleLen(p), AuthLen(p, ValueOf(p, challenge)))
      BY DEF Standing
    <3>8. ReadSoFar(p, apdu', 2, <<>>, challenge, 0)
      <4>1. 0 \in Nat /\ 2 \in Nat
        OBVIOUS
      <4>. QED BY ONLY <3>2, <3>3, <3>4, <3>6, <3>7, <4>1, p \in CosemParameters DEF ReadSoFar
    <3>. QED BY <3>1, <3>5, <3>8 DEF Reading
  <2>2. CASE ReadField
    <3>. DEFINE e == offset + 2 + apdu[offset + 2]
                field == [tag |-> apdu[offset + 1],
                          value |-> SubSeq(apdu, offset + 3, IF e > Len(apdu) THEN Len(apdu) ELSE e)]
    <3>1. /\ pc = "aarq" /\ pc' = pc /\ apdu' = apdu /\ meant' = meant
          /\ ~(offset + 2 > Len(apdu))
          /\ offset' = e /\ fields' = Append(fields, field)
      BY <2>2 DEF ReadField, AarqRead
    <3>2. PICK challenge, n : ReadSoFar(meant, apdu, offset, fields, challenge, n)
      BY <3>1 DEF Reading
    <3>3. PICK m : ReadSoFar(meant, apdu, e, Append(fields, field), challenge, m)
      BY ONLY <3>1, <3>2, ShortChallenges, ReadsOn
    <3>. HIDE DEF e, field
    <3>. QED BY ONLY <3>1, <3>3 DEF Reading
  <2>3. CASE Misname
    BY <2>3 DEF Misname, Reading
  <2>4. CASE WriteRequest
    BY <2>4 DEF WriteRequest, Reading
  <2>5. CASE WriteSize
    BY <2>5 DEF WriteSize, Reading
  <2>6. CASE MeterAnswers
    BY <2>6 DEF MeterAnswers, Reading
  <2>7. CASE Show
    BY <2>7 DEF Show, Reading
  <2>8. CASE Done
    BY <2>8 DEF Done, Reading
  <2>9. CASE UNCHANGED vars
    BY <2>9 DEF vars, Reading
  <2>. QED BY <2>1, <2>2, <2>3, <2>4, <2>5, <2>6, <2>7, <2>8, <2>9 DEF Next
<1>. QED BY <1>1, <1>2, PTL DEF Spec

(* The numbers of the fields a meter reads rise, however long a challenge. *)
THEOREM FieldsInOrderHolds ==
  ASSUME ShortChallenges
  PROVE  Spec => []FieldsInOrder
<1>1. Reading => FieldsInOrder
  <2>. SUFFICES ASSUME Reading PROVE FieldsInOrder
    OBVIOUS
  <2>1. CASE pc # "aarq"
    <3>1. fields = <<>>
      BY <2>1 DEF Reading
    <3>2. DOMAIN fields = {}
      BY <3>1
    <3>. QED BY ONLY <3>2 DEF FieldsInOrder
  <2>2. CASE pc = "aarq"
    <3>1. PICK challenge, n : ReadSoFar(meant, apdu, offset, fields, challenge, n)
      BY <2>2 DEF Reading
    <3>2. Progress(fields, n, meant)
      BY <3>1 DEF ReadSoFar
    <3>3. DOMAIN fields = 1..Len(fields)
      BY <3>2 DEF Progress
    <3>. QED BY ONLY <3>2, <3>3 DEF Progress, FieldsInOrder
  <2>. QED BY <2>1, <2>2
<1>. QED BY <1>1, ReadingHolds, PTL

(* The meter finds the mechanism, what announces it and its value just     *)
(* when there is one, and the title just when somebody needs it.           *)
THEOREM AuthenticationAnnouncedHolds ==
  ASSUME ShortChallenges
  PROVE  Spec => []AuthenticationAnnounced
<1>1. Reading => AuthenticationAnnounced
  <2>. SUFFICES ASSUME Reading, pc = "aarq", offset = Len(apdu)
                PROVE  /\ \A number \in {10, 11, 12} :
                            Present(number) <=> meant.authentication # LOWEST
                       /\ Present(6) <=> meant.security # "NONE"
                                           \/ meant.authentication = HLS_GMAC
    BY DEF AuthenticationAnnounced
  <2>1. PICK challenge, n : ReadSoFar(meant, apdu, offset, fields, challenge, n)
    BY DEF Reading
  <2>. DEFINE t == TitleLen(meant)
              a == AuthLen(meant, ValueOf(meant, challenge))
  <2>2. /\ meant \in CosemParameters
        /\ challenge \in Seq(Byte) /\ Len(challenge) \in ChallengerSizes
        /\ apdu = serialize_aarq(meant, challenge)
        /\ Standing(offset, n, meant, t, a)
        /\ Progress(fields, n, meant)
    BY <2>1 DEF ReadSoFar
  <2>3. Len(challenge) <= 253
    BY <2>2 DEF ShortChallenges
  <2>4. Len(apdu) = 34 + t + a
    BY ONLY <2>2, <2>3, AarqIs
  <2>5. Sized(meant, t, a)
    BY ONLY <2>2, SizedIs
  <2>. HIDE DEF t, a
  <2>6. n = 31
    BY ONLY <2>2, <2>4, <2>5, EndIs, offset = Len(apdu)
  <2>7. \A k \in Announced : Present(k) <=> Due(meant, k)
    <3>1. DOMAIN fields = 1..Len(fields)
      BY <2>2 DEF Progress
    <3>2. \A k \in Announced : k < 31
      BY DEF Announced
    <3>. QED BY ONLY <2>2, <2>6, <3>1, <3>2 DEF Progress, Has, Present
  <2>. QED BY ONLY <2>7 DEF Announced, Due, HasTitle
<1>. QED BY <1>1, ReadingHolds, PTL

(* The longest challenge with which the AARQ, its title and all, is no     *)
(* longer than the one byte of its length can say.                         *)
FittingChallenges == \A size \in ChallengerSizes : size <= 194

(* Every length in the AARQ is that of what it stands before, and no value *)
(* is cut.                                                                 *)
THEOREM LengthsFitHolds ==
  ASSUME FittingChallenges
  PROVE  Spec => []LengthsFit
<1>1. ShortChallenges
  <2>1. ChallengerSizes \subseteq Nat
    BY ApduAssumption
  <2>. QED BY <2>1 DEF FittingChallenges, ShortChallenges
<1>2. Reading => LengthsFit
  <2>. SUFFICES ASSUME Reading, pc = "aarq"
                PROVE  /\ apdu[2] = Len(apdu) - 2
                       /\ offset <= Len(apdu)
                       /\ AarqRead => offset = Len(apdu)
                       /\ \A i \in DOMAIN fields : Nested(fields[i]) =>
                            LET value == fields[i].value
                            IN  Len(value) >= 2 /\ value[2] = Len(value) - 2
    BY DEF LengthsFit
  <2>1. PICK challenge, n : ReadSoFar(meant, apdu, offset, fields, challenge, n)
    BY DEF Reading
  <2>. DEFINE t == TitleLen(meant)
              a == AuthLen(meant, ValueOf(meant, challenge))
  <2>2. /\ meant \in CosemParameters
        /\ challenge \in Seq(Byte) /\ Len(challenge) \in ChallengerSizes
        /\ apdu = serialize_aarq(meant, challenge)
        /\ Standing(offset, n, meant, t, a)
        /\ Progress(fields, n, meant)
    BY <2>1 DEF ReadSoFar
  <2>3. Len(challenge) <= 253 /\ Len(challenge) <= 194
    BY <1>1, <2>2 DEF ShortChallenges, FittingChallenges
  <2>4. Len(apdu) = 34 + t + a /\ apdu[2] = (32 + t + a) % 256
    BY ONLY <2>2, <2>3, AarqIs
  <2>5. Sized(meant, t, a)
    BY ONLY <2>2, SizedIs
  <2>6. t <= 12 /\ a <= 211
    <3>1. meant.secret \in Seq(Byte) /\ Len(meant.secret) = 8
      BY <2>2, ApduAssumption DEF CosemParameters
    <3>2. Len(ValueOf(meant, challenge)) <= 194 /\ Len(ValueOf(meant, challenge)) \in Nat
      <4>1. \/ ValueOf(meant, challenge) = meant.secret
            \/ ValueOf(meant, challenge) = challenge
        BY DEF ValueOf
      <4>2. Len(challenge) \in Nat
        BY <2>2
      <4>3. 8 <= 194 /\ 8 \in Nat
        OBVIOUS
      <4>. QED BY ONLY <2>3, <3>1, <4>1, <4>2, <4>3
    <3>3. \A k \in Nat : k <= 194 => 17 + k <= 211
      OBVIOUS
    <3>4. a = 0 \/ a = 17 + Len(ValueOf(meant, challenge))
      BY DEF AuthLen
    <3>5. t = 0 \/ t = 12
      BY DEF TitleLen
    <3>. HIDE DEF t, a
    <3>. QED BY ONLY <3>2, <3>3, <3>4, <3>5
  <2>. HIDE DEF t, a
  <2>7. t \in Nat /\ a \in Nat
    BY <2>5 DEF Sized
  <2>8. (32 + t + a) % 256 = 32 + t + a
    <3>1. 32 + t + a \in Nat /\ 32 + t + a <= 255
      BY ONLY <2>6, <2>7
    <3>. QED BY ONLY <3>1, Uncut
  <2>9. apdu[2] = Len(apdu) - 2
    <3>. DEFINE k == 32 + t + a
                l == Len(apdu)
    <3>1. k \in Nat /\ l = k + 2
      BY ONLY <2>4, <2>7
    <3>2. apdu[2] = k % 256 /\ k % 256 = k
      BY ONLY <2>4, <2>8
    <3>. HIDE DEF k, l
    <3>3. l - 2 = k
      BY ONLY <3>1
    <3>. QED BY ONLY <3>2, <3>3 DEF l
  <2>10. offset <= Len(apdu) /\ (AarqRead => offset = Len(apdu))
    BY ONLY <2>2, <2>4, <2>5, EndIs DEF AarqRead
  <2>11. \A i \in DOMAIN fields : Filled(fields[i])
    <3>1. DOMAIN fields = 1..Len(fields)
      BY <2>2 DEF Progress
    <3>. QED BY ONLY <2>2, <3>1 DEF Progress
  <2>. QED BY ONLY <2>9, <2>10, <2>11 DEF Filled
<1>. QED BY <1>1, <1>2, ReadingHolds, PTL
=============================================================================
