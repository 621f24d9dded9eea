------------------------- MODULE ChecksequenceProofs -------------------------
(***************************************************************************)
(* What the check sequence of a frame is worth: two contents of the same   *)
(* length that differ in a single byte never have the same one, whatever   *)
(* the length and the bytes.  The argument follows the table of            *)
(* src/hdlc_frame.cpp bit by bit: no two entries have the same high byte,  *)
(* so that from the sequence after a byte the one before can be told, and  *)
(* the byte.  Nothing about the table is assumed; it is computed here from *)
(* the polynomial as module HdlcFrame writes it.                           *)
(***************************************************************************)
EXTENDS HdlcFrame, SequenceTheorems, WellFoundedInduction, TLAPS

(* A byte is a number, and a word.                                         *)
LEMMA ByteNat ==
  ASSUME NEW b \in Byte
  PROVE  b \in Nat /\ b \in Word
<1>1. b \in Nat /\ b <= 255
  BY DEF Byte
<1>. QED BY <1>1 DEF Word

(* A word is a number of 16 bits,                                          *)
LEMMA WordNat ==
  ASSUME NEW t \in Word
  PROVE  t \in Nat /\ t <= 65535
BY SMT DEF Word

(* and every number of 16 bits is a word.                                  *)
LEMMA InWord ==
  ASSUME NEW n \in Nat, n <= 65535
  PROVE  n \in Word
BY SMT DEF Word

(* The bit of weight w of an exclusive or.                                 *)
Differ(a, b, w) == IF (a \div w) % 2 = (b \div w) % 2 THEN 0 ELSE w

Four(a, b, w, v1, v2, v3) ==
  (Differ(a, b, w) + Differ(a, b, v1)) + (Differ(a, b, v2) + Differ(a, b, v3))

(* The low byte and the high byte of an exclusive or.                      *)
LowBits(a, b) == Four(a, b, 1, 2, 4, 8) + Four(a, b, 16, 32, 64, 128)
HighBits(a, b) == Four(a, b, 256, 512, 1024, 2048) + Four(a, b, 4096, 8192, 16384, 32768)

(* A bit of an exclusive or is there or not, and has no direction.         *)
LEMMA DifferIn ==
  ASSUME NEW a \in Nat, NEW b \in Nat, NEW w \in Nat
  PROVE  Differ(a, b, w) \in {0, w} /\ Differ(a, b, w) = Differ(b, a, w)
BY DEF Differ

(* Four bits make a number.                                                *)
LEMMA FourNat ==
  ASSUME NEW a \in Nat, NEW b \in Nat,
         NEW w \in Nat, NEW v1 \in Nat, NEW v2 \in Nat, NEW v3 \in Nat
  PROVE  Four(a, b, w, v1, v2, v3) \in Nat
<1>1. /\ Differ(a, b, w) \in Nat /\ Differ(a, b, v1) \in Nat
      /\ Differ(a, b, v2) \in Nat /\ Differ(a, b, v3) \in Nat
  BY DEF Differ
<1>. QED BY <1>1 DEF Four

(* NibbleXor has, for two nibbles, the exclusive or of their bits.         *)
LEMMA NibbleAt ==
  ASSUME NEW a \in 0..15, NEW b \in 0..15
  PROVE  At(NibbleXor, 16 * a + b) = Four(a, b, 1, 2, 4, 8)
<1>. DEFINE entry(i) == Four((i - 1) \div 16, (i - 1) % 16, 1, 2, 4, 8)
            f == [i \in 1..256 |-> entry(i)]
            j == 16 * a + b + 1
<1>1. \A i \in 1..256 : entry(i) \in Int
  BY DEF Four, Differ
<1>2. NibbleXor = f \o <<>>
  BY DEF NibbleXor, Four, Differ
<1>3. (j - 1) \div 16 = a /\ (j - 1) % 16 = b
  OBVIOUS
<1>. HIDE DEF entry
<1>4. f \in Seq(Int)
  BY <1>1, IsASeq
<1>5. NibbleXor[j] = entry(j)
  BY <1>2, <1>4, ConcatEmptySeq
<1>. QED BY <1>3, <1>5 DEF entry, At

(* The four lowest bits of a number are those of its lowest nibble.        *)
LEMMA LowNibble ==
  ASSUME NEW n \in Nat
  PROVE  /\ n % 16 \in 0..15
         /\ ((n % 16) \div 1) % 2 = (n \div 1) % 2
         /\ ((n % 16) \div 2) % 2 = (n \div 2) % 2
         /\ ((n % 16) \div 4) % 2 = (n \div 4) % 2
         /\ ((n % 16) \div 8) % 2 = (n \div 8) % 2
<1>1. n % 16 \in 0..15
  OBVIOUS
<1>2. ((n % 16) \div 1) % 2 = (n \div 1) % 2
  OBVIOUS
<1>3. ((n % 16) \div 2) % 2 = (n \div 2) % 2
  OBVIOUS
<1>4. ((n % 16) \div 4) % 2 = (n \div 4) % 2
  OBVIOUS
<1>5. ((n % 16) \div 8) % 2 = (n \div 8) % 2
  OBVIOUS
<1>. QED BY <1>1, <1>2, <1>3, <1>4, <1>5

(* The same for two numbers, of which it is given the lowest nibbles.      *)
LEMMA XorNibble ==
  ASSUME NEW m \in Nat, NEW n \in Nat
  PROVE  At(NibbleXor, 16 * (m % 16) + (n % 16)) = Four(m, n, 1, 2, 4, 8)
<1>1. At(NibbleXor, 16 * (m % 16) + (n % 16)) = Four(m % 16, n % 16, 1, 2, 4, 8)
  BY LowNibble, NibbleAt
<1>. QED BY <1>1, LowNibble DEF Four, Differ

(* Bits of a nibble further up, from those of the number shifted down.     *)
LEMMA DivDiv ==
  ASSUME NEW n \in Nat
  PROVE  /\ n \div 1 = n /\ n \div 16 \in Nat /\ n \div 256 \in Nat /\ n \div 4096 \in Nat
         /\ (n \div 16) \div 1 = n \div 16 /\ (n \div 16) \div 2 = n \div 32
         /\ (n \div 16) \div 4 = n \div 64 /\ (n \div 16) \div 8 = n \div 128
         /\ (n \div 256) \div 1 = n \div 256 /\ (n \div 256) \div 2 = n \div 512
         /\ (n \div 256) \div 4 = n \div 1024 /\ (n \div 256) \div 8 = n \div 2048
         /\ (n \div 4096) \div 1 = n \div 4096 /\ (n \div 4096) \div 2 = n \div 8192
         /\ (n \div 4096) \div 4 = n \div 16384 /\ (n \div 4096) \div 8 = n \div 32768
<1>0. n \div 1 = n /\ n \div 16 \in Nat /\ n \div 256 \in Nat /\ n \div 4096 \in Nat
  OBVIOUS
<1>1. \A k \in Nat : k \div 1 = k
  OBVIOUS
<1>2. (n \div 16) \div 2 = n \div 32
  OBVIOUS
<1>3. (n \div 16) \div 4 = n \div 64
  OBVIOUS
<1>4. (n \div 16) \div 8 = n \div 128
  OBVIOUS
<1>5. (n \div 256) \div 2 = n \div 512
  OBVIOUS
<1>6. (n \div 256) \div 4 = n \div 1024
  OBVIOUS
<1>7. (n \div 256) \div 8 = n \div 2048
  OBVIOUS
<1>8. (n \div 4096) \div 2 = n \div 8192
  OBVIOUS
<1>9. (n \div 4096) \div 4 = n \div 16384
  OBVIOUS
<1>10. (n \div 4096) \div 8 = n \div 32768
  OBVIOUS
<1>11. (n \div 16) \div 1 = n \div 16 /\ (n \div 256) \div 1 = n \div 256
       /\ (n \div 4096) \div 1 = n \div 4096
  BY <1>0, <1>1
<1>. QED BY <1>0, <1>2, <1>3, <1>4, <1>5, <1>6, <1>7, <1>8, <1>9, <1>10, <1>11

(* Xor, which looks up nibble by nibble, is the exclusive or of the bits.  *)
LEMMA XorIsBits ==
  ASSUME NEW a \in Nat, NEW b \in Nat
  PROVE  Xor(a, b) = HighBits(a, b) + LowBits(a, b)
<1>. DEFINE part(w) == w * At(NibbleXor, 16 * ((a \div w) % 16) + ((b \div w) % 16))
<1>1. part(1) = Four(a, b, 1, 2, 4, 8) /\ part(1) \in Nat
  <2>1. At(NibbleXor, 16 * ((a \div 1) % 16) + ((b \div 1) % 16)) = Four(a, b, 1, 2, 4, 8)
    BY XorNibble, DivDiv
  <2>2. Four(a, b, 1, 2, 4, 8) \in Nat
    BY FourNat
  <2>. QED BY <2>1, <2>2
<1>2. part(16) = Four(a, b, 16, 32, 64, 128) /\ part(16) \in Nat
  <2>. DEFINE m == a \div 16
              n == b \div 16
  <2>1. m \in Nat /\ n \in Nat
    BY DivDiv
  <2>2. /\ 16 * Differ(m, n, 1) = Differ(a, b, 16)
        /\ 16 * Differ(m, n, 2) = Differ(a, b, 32)
        /\ 16 * Differ(m, n, 4) = Differ(a, b, 64)
        /\ 16 * Differ(m, n, 8) = Differ(a, b, 128)
    BY DivDiv DEF Differ
  <2>. HIDE DEF m, n
  <2>3. At(NibbleXor, 16 * (m % 16) + (n % 16)) = Four(m, n, 1, 2, 4, 8)
    BY <2>1, XorNibble
  <2>4. 16 * Four(m, n, 1, 2, 4, 8) = Four(a, b, 16, 32, 64, 128)
    <3>1. /\ Differ(m, n, 1) \in Nat /\ Differ(m, n, 2) \in Nat
          /\ Differ(m, n, 4) \in Nat /\ Differ(m, n, 8) \in Nat
      BY DEF Differ
    <3>. QED BY <2>2, <3>1 DEF Four
  <2>5. Four(m, n, 1, 2, 4, 8) \in Nat
    BY <2>1, FourNat
  <2>. QED BY <2>3, <2>4, <2>5 DEF m, n
<1>3. part(256) = Four(a, b, 256, 512, 1024, 2048) /\ part(256) \in Nat
  <2>. DEFINE m == a \div 256
              n == b \div 256
  <2>1. m \in Nat /\ n \in Nat
    BY DivDiv
  <2>2. /\ 256 * Differ(m, n, 1) = Differ(a, b, 256)
        /\ 256 * Differ(m, n, 2) = Differ(a, b, 512)
        /\ 256 * Differ(m, n, 4) = Differ(a, b, 1024)
        /\ 256 * Differ(m, n, 8) = Differ(a, b, 2048)
    BY DivDiv DEF Differ
  <2>. HIDE DEF m, n
  <2>3. At(NibbleXor, 16 * (m % 16) + (n % 16)) = Four(m, n, 1, 2, 4, 8)
    BY <2>1, XorNibble
  <2>4. 256 * Four(m, n, 1, 2, 4, 8) = Four(a, b, 256, 512, 1024, 2048)
    <3>1. /\ Differ(m, n, 1) \in Nat /\ Differ(m, n, 2) \in Nat
          /\ Differ(m, n, 4) \in Nat /\ Differ(m, n, 8) \in Nat
      BY DEF Differ
    <3>. QED BY <2>2, <3>1 DEF Four
  <2>5. Four(m, n, 1, 2, 4, 8) \in Nat
    BY <2>1, FourNat
  <2>. QED BY <2>3, <2>4, <2>5 DEF m, n
<1>4. part(4096) = Four(a, b, 4096, 8192, 16384, 32768) /\ part(4096) \in Nat
  <2>. DEFINE m == a \div 4096
              n == b \div 4096
  <2>1. m \in Nat /\ n \in Nat
    BY DivDiv
  <2>2. /\ 4096 * Differ(m, n, 1) = Differ(a, b, 4096)
        /\ 4096 * Differ(m, n, 2) = Differ(a, b, 8192)
        /\ 4096 * Differ(m, n, 4) = Differ(a, b, 16384)
        /\ 4096 * Differ(m, n, 8) = Differ(a, b, 32768)
    BY DivDiv DEF Differ
  <2>. HIDE DEF m, n
  <2>3. At(NibbleXor, 16 * (m % 16) + (n % 16)) = Four(m, n, 1, 2, 4, 8)
    BY <2>1, XorNibble
  <2>4. 4096 * Four(m, n, 1, 2, 4, 8) = Four(a, b, 4096, 8192, 16384, 32768)
    <3>1. /\ Differ(m, n, 1) \in Nat /\ Differ(m, n, 2) \in Nat
          /\ Differ(m, n, 4) \in Nat /\ Differ(m, n, 8) \in Nat
      BY DEF Differ
    <3>. QED BY <2>2, <3>1 DEF Four
  <2>5. Four(m, n, 1, 2, 4, 8) \in Nat
    BY <2>1, FourNat
  <2>. QED BY <2>3, <2>4, <2>5 DEF m, n
<1>5. Xor(a, b) = part(1) + part(16) + part(256) + part(4096)
  BY DEF Xor
<1>. HIDE DEF part
<1>. QED BY <1>1, <1>2, <1>3, <1>4, <1>5 DEF LowBits, HighBits

(* The low byte of an exclusive or is a byte,                              *)
LEMMA LowBounded ==
  ASSUME NEW a \in Nat, NEW b \in Nat
  PROVE  LowBits(a, b) \in 0..255
<1>1. \A w \in Nat : Differ(a, b, w) \in {0, w}
  BY DifferIn
<1>. QED BY <1>1 DEF LowBits, Four

(* and so is the high byte.                                                *)
LEMMA HighBounded ==
  ASSUME NEW a \in Nat, NEW b \in Nat
  PROVE  \E h : h \in 0..255 /\ HighBits(a, b) = 256 * h
<1>. DEFINE bit(w) == IF Differ(a, b, 256 * w) = 0 THEN 0 ELSE 1
            half(w, v1, v2, v3) == (w * bit(w) + v1 * bit(v1)) + (v2 * bit(v2) + v3 * bit(v3))
            h == half(1, 2, 4, 8) + half(16, 32, 64, 128)
<1>1. \A w \in Nat : Differ(a, b, w) \in {0, w}
  BY DifferIn
<1>2. h \in 0..255
  OBVIOUS
<1>3. /\ Differ(a, b, 256) = 256 * bit(1) /\ Differ(a, b, 512) = 512 * bit(2)
      /\ Differ(a, b, 1024) = 1024 * bit(4) /\ Differ(a, b, 2048) = 2048 * bit(8)
      /\ Differ(a, b, 4096) = 4096 * bit(16) /\ Differ(a, b, 8192) = 8192 * bit(32)
      /\ Differ(a, b, 16384) = 16384 * bit(64) /\ Differ(a, b, 32768) = 32768 * bit(128)
  BY <1>1
<1>4. \A w \in Nat : bit(w) \in {0, 1}
  OBVIOUS
<1>. HIDE DEF bit
<1>5. HighBits(a, b) = 256 * h
  BY <1>3, <1>4 DEF HighBits, Four
<1>. HIDE DEF h
<1>. QED BY <1>2, <1>5

(* Lo and Hi take apart what two bytes make.                               *)
LEMMA LoHi ==
  ASSUME NEW h \in 0..255, NEW l \in 0..255
  PROVE  256 * h + l \in Word /\ Lo(256 * h + l) = l /\ Hi(256 * h + l) = h
<1>1. 256 * h + l \in Nat /\ 256 * h + l <= 65535
  OBVIOUS
<1>2. (256 * h + l) % 256 = l
  OBVIOUS
<1>3. (256 * h + l) \div 256 = h
  OBVIOUS
<1>. DEFINE n == 256 * h + l
<1>4. n \in Nat /\ n <= 65535 /\ n % 256 = l /\ n \div 256 = h
  BY <1>1, <1>2, <1>3
<1>. HIDE DEF n
<1>5. n \in Word /\ Lo(n) = l /\ Hi(n) = h
  BY <1>4 DEF Word, Lo, Hi
<1>. QED BY <1>5 DEF n

(* Xor makes a word.                                                       *)
LEMMA XorWord ==
  ASSUME NEW a \in Nat, NEW b \in Nat
  PROVE  Xor(a, b) \in Word
<1>. DEFINE l == LowBits(a, b)
<1>1. PICK h : h \in 0..255 /\ HighBits(a, b) = 256 * h
  BY HighBounded
<1>2. l \in 0..255
  BY LowBounded
<1>3. Xor(a, b) = 256 * h + l
  BY <1>1, XorIsBits
<1>. HIDE DEF l
<1>4. 256 * h + l \in Word /\ Lo(256 * h + l) = l /\ Hi(256 * h + l) = h
  BY <1>1, <1>2, LoHi
<1>. QED BY <1>3, <1>4 DEF l

(* A word is made of its two bytes.                                        *)
LEMMA WordBits ==
  ASSUME NEW n \in Word
  PROVE  Hi(n) \in Byte /\ Lo(n) \in Byte /\ n = 256 * Hi(n) + Lo(n)
BY DEF Byte, Word, Hi, Lo

(* Xor has no direction.                                                   *)
LEMMA XorCommutes ==
  ASSUME NEW a \in Nat, NEW b \in Nat
  PROVE  Xor(a, b) = Xor(b, a)
<1>1. \A w \in Nat : Differ(a, b, w) = Differ(b, a, w)
  BY DifferIn
<1>2. LowBits(a, b) = LowBits(b, a)
  BY <1>1 DEF LowBits, Four
<1>3. HighBits(a, b) = HighBits(b, a)
  BY <1>1 DEF HighBits, Four
<1>. QED BY <1>2, <1>3, XorIsBits

-----------------------------------------------------------------------------
Weights == {1, 2, 4, 8, 16, 32, 64, 128, 256, 512, 1024, 2048, 4096, 8192, 16384, 32768}

Bit(n, w) == (n \div w) % 2

(* The lowest bit of a number, and the rest of it.                         *)
LEMMA LowestBit ==
  ASSUME NEW x \in {0, 1}, NEW m \in Nat
  PROVE  x + 2 * m \in Nat /\ (x + 2 * m) \div 2 = m /\ (x + 2 * m) % 2 = x
<1>1. x + 2 * m \in Nat
  OBVIOUS
<1>2. (x + 2 * m) \div 2 = m
  OBVIOUS
<1>3. (x + 2 * m) % 2 = x
  OBVIOUS
<1>. QED BY <1>1, <1>2, <1>3

(* A bit is zero or one.                                                   *)
LEMMA BitIn ==
  ASSUME NEW n \in Nat, NEW w \in Weights
  PROVE  Bit(n, w) \in {0, 1}
BY DEF Bit, Weights

(* Shifting right by one more place.                                       *)
LEMMA Shifted ==
  ASSUME NEW n \in Nat
  PROVE  /\ (n \div 1) \div 2 = n \div 2 /\ (n \div 2) \div 2 = n \div 4
         /\ (n \div 4) \div 2 = n \div 8
         /\ (n \div 8) \div 2 = n \div 16 /\ (n \div 16) \div 2 = n \div 32
         /\ (n \div 32) \div 2 = n \div 64
         /\ (n \div 64) \div 2 = n \div 128 /\ (n \div 128) \div 2 = n \div 256
         /\ (n \div 256) \div 2 = n \div 512
         /\ (n \div 512) \div 2 = n \div 1024 /\ (n \div 1024) \div 2 = n \div 2048
         /\ (n \div 2048) \div 2 = n \div 4096
         /\ (n \div 4096) \div 2 = n \div 8192 /\ (n \div 8192) \div 2 = n \div 16384
         /\ (n \div 16384) \div 2 = n \div 32768
<1>1. (n \div 1) \div 2 = n \div 2
  OBVIOUS
<1>2. (n \div 2) \div 2 = n \div 4
  OBVIOUS
<1>3. (n \div 4) \div 2 = n \div 8
  OBVIOUS
<1>4. (n \div 8) \div 2 = n \div 16
  OBVIOUS
<1>5. (n \div 16) \div 2 = n \div 32
  OBVIOUS
<1>6. (n \div 32) \div 2 = n \div 64
  OBVIOUS
<1>7. (n \div 64) \div 2 = n \div 128
  OBVIOUS
<1>8. (n \div 128) \div 2 = n \div 256
  OBVIOUS
<1>9. (n \div 256) \div 2 = n \div 512
  OBVIOUS
<1>10. (n \div 512) \div 2 = n \div 1024
  OBVIOUS
<1>11. (n \div 1024) \div 2 = n \div 2048
  OBVIOUS
<1>12. (n \div 2048) \div 2 = n \div 4096
  OBVIOUS
<1>13. (n \div 4096) \div 2 = n \div 8192
  OBVIOUS
<1>14. (n \div 8192) \div 2 = n \div 16384
  OBVIOUS
<1>15. (n \div 16384) \div 2 = n \div 32768
  OBVIOUS
<1>. QED BY <1>1, <1>2, <1>3, <1>4, <1>5, <1>6, <1>7, <1>8,
            <1>9, <1>10, <1>11, <1>12, <1>13, <1>14, <1>15

(* Exclusive or, bit by bit.                                               *)
LEMMA XorBit ==
  ASSUME NEW a \in Nat, NEW b \in Nat, NEW w \in Weights
  PROVE  Bit(Xor(a, b), w) = IF Bit(a, w) = Bit(b, w) THEN 0 ELSE 1
<1>. DEFINE n == Xor(a, b)
            x(v) == IF Bit(a, v) = Bit(b, v) THEN 0 ELSE 1
            n32768 == x(32768) + 2 * 0
            n16384 == x(16384) + 2 * n32768
            n8192 == x(8192) + 2 * n16384
            n4096 == x(4096) + 2 * n8192
            n2048 == x(2048) + 2 * n4096
            n1024 == x(1024) + 2 * n2048
            n512 == x(512) + 2 * n1024
            n256 == x(256) + 2 * n512
            n128 == x(128) + 2 * n256
            n64 == x(64) + 2 * n128
            n32 == x(32) + 2 * n64
            n16 == x(16) + 2 * n32
            n8 == x(8) + 2 * n16
            n4 == x(4) + 2 * n8
            n2 == x(2) + 2 * n4
            n1 == x(1) + 2 * n2
<1>1. \A v : x(v) \in {0, 1}
  OBVIOUS
<1>2. /\ Differ(a, b, 1) = 1 * x(1) /\ Differ(a, b, 2) = 2 * x(2)
      /\ Differ(a, b, 4) = 4 * x(4) /\ Differ(a, b, 8) = 8 * x(8)
      /\ Differ(a, b, 16) = 16 * x(16) /\ Differ(a, b, 32) = 32 * x(32)
      /\ Differ(a, b, 64) = 64 * x(64) /\ Differ(a, b, 128) = 128 * x(128)
      /\ Differ(a, b, 256) = 256 * x(256) /\ Differ(a, b, 512) = 512 * x(512)
      /\ Differ(a, b, 1024) = 1024 * x(1024) /\ Differ(a, b, 2048) = 2048 * x(2048)
      /\ Differ(a, b, 4096) = 4096 * x(4096) /\ Differ(a, b, 8192) = 8192 * x(8192)
      /\ Differ(a, b, 16384) = 16384 * x(16384) /\ Differ(a, b, 32768) = 32768 * x(32768)
  BY DEF Differ, Bit
<1>. HIDE DEF x
<1>3. /\ n32768 \in Nat /\ n32768 \div 2 = 0 /\ n32768 % 2 = x(32768)
      /\ Differ(a, b, 32768) = 32768 * n32768 - 65536 * 0
  <2>1. n32768 \in Nat /\ n32768 \div 2 = 0 /\ n32768 % 2 = x(32768)
    BY <1>1, LowestBit
  <2>2. 32768 * x(32768) = 32768 * n32768 - 65536 * 0
    BY <1>1
  <2>. QED BY <1>2, <2>1, <2>2
<1>. HIDE DEF n32768
<1>4. /\ n16384 \in Nat /\ n16384 \div 2 = n32768 /\ n16384 % 2 = x(16384)
      /\ Differ(a, b, 16384) = 16384 * n16384 - 32768 * n32768
  <2>1. n16384 \in Nat /\ n16384 \div 2 = n32768 /\ n16384 % 2 = x(16384)
    BY <1>1, <1>3, LowestBit
  <2>2. 16384 * x(16384) = 16384 * n16384 - 32768 * n32768
    BY <1>1, <1>3
  <2>. QED BY <1>2, <2>1, <2>2
<1>. HIDE DEF n16384
<1>5. /\ n8192 \in Nat /\ n8192 \div 2 = n16384 /\ n8192 % 2 = x(8192)
      /\ Differ(a, b, 8192) = 8192 * n8192 - 16384 * n16384
  <2>1. n8192 \in Nat /\ n8192 \div 2 = n16384 /\ n8192 % 2 = x(8192)
    BY <1>1, <1>4, LowestBit
  <2>2. 8192 * x(8192) = 8192 * n8192 - 16384 * n16384
    BY <1>1, <1>4
  <2>. QED BY <1>2, <2>1, <2>2
<1>. HIDE DEF n8192
<1>6. /\ n4096 \in Nat /\ n4096 \div 2 = n8192 /\ n4096 % 2 = x(4096)
      /\ Differ(a, b, 4096) = 4096 * n4096 - 8192 * n8192
  <2>1. n4096 \in Nat /\ n4096 \div 2 = n8192 /\ n4096 % 2 = x(4096)
    BY <1>1, <1>5, LowestBit
  <2>2. 4096 * x(4096) = 4096 * n4096 - 8192 * n8192
    BY <1>1, <1>5
  <2>. QED BY <1>2, <2>1, <2>2
<1>. HIDE DEF n4096
<1>7. /\ n2048 \in Nat /\ n2048 \div 2 = n4096 /\ n2048 % 2 = x(2048)
      /\ Differ(a, b, 2048) = 2048 * n2048 - 4096 * n4096
  <2>1. n2048 \in Nat /\ n2048 \div 2 = n4096 /\ n2048 % 2 = x(2048)
    BY <1>1, <1>6, LowestBit
  <2>2. 2048 * x(2048) = 2048 * n2048 - 4096 * n4096
    BY <1>1, <1>6
  <2>. QED BY <1>2, <2>1, <2>2
<1>. HIDE DEF n2048
<1>8. /\ n1024 \in Nat /\ n1024 \div 2 = n2048 /\ n1024 % 2 = x(1024)
      /\ Differ(a, b, 1024) = 1024 * n1024 - 2048 * n2048
  <2>1. n1024 \in Nat /\ n1024 \div 2 = n2048 /\ n1024 % 2 = x(1024)
    BY <1>1, <1>7, LowestBit
  <2>2. 1024 * x(1024) = 1024 * n1024 - 2048 * n2048
    BY <1>1, <1>7
  <2>. QED BY <1>2, <2>1, <2>2
<1>. HIDE DEF n1024
<1>9. /\ n512 \in Nat /\ n512 \div 2 = n1024 /\ n512 % 2 = x(512)
      /\ Differ(a, b, 512) = 512 * n512 - 1024 * n1024
  <2>1. n512 \in Nat /\ n512 \div 2 = n1024 /\ n512 % 2 = x(512)
    BY <1>1, <1>8, LowestBit
  <2>2. 512 * x(512) = 512 * n512 - 1024 * n1024
    BY <1>1, <1>8
  <2>. QED BY <1>2, <2>1, <2>2
<1>. HIDE DEF n512
<1>10. /\ n256 \in Nat /\ n256 \div 2 = n512 /\ n256 % 2 = x(256)
      /\ Differ(a, b, 256) = 256 * n256 - 512 * n512
  <2>1. n256 \in Nat /\ n256 \div 2 = n512 /\ n256 % 2 = x(256)
    BY <1>1, <1>9, LowestBit
  <2>2. 256 * x(256) = 256 * n256 - 512 * n512
    BY <1>1, <1>9
  <2>. QED BY <1>2, <2>1, <2>2
<1>. HIDE DEF n256
<1>11. /\ n128 \in Nat /\ n128 \div 2 = n256 /\ n128 % 2 = x(128)
      /\ Differ(a, b, 128) = 128 * n128 - 256 * n256
  <2>1. n128 \in Nat /\ n128 \div 2 = n256 /\ n128 % 2 = x(128)
    BY <1>1, <1>10, LowestBit
  <2>2. 128 * x(128) = 128 * n128 - 256 * n256
    BY <1>1, <1>10
  <2>. QED BY <1>2, <2>1, <2>2
<1>. HIDE DEF n128
<1>12. /\ n64 \in Nat /\ n64 \div 2 = n128 /\ n64 % 2 = x(64)
      /\ Differ(a, b, 64) = 64 * n64 - 128 * n128
  <2>1. n64 \in Nat /\ n64 \div 2 = n128 /\ n64 % 2 = x(64)
    BY <1>1, <1>11, LowestBit
  <2>2. 64 * x(64) = 64 * n64 - 128 * n128
    BY <1>1, <1>11
  <2>. QED BY <1>2, <2>1, <2>2
<1>. HIDE DEF n64
<1>13. /\ n32 \in Nat /\ n32 \div 2 = n64 /\ n32 % 2 = x(32)
      /\ Differ(a, b, 32) = 32 * n32 - 64 * n64
  <2>1. n32 \in Nat /\ n32 \div 2 = n64 /\ n32 % 2 = x(32)
    BY <1>1, <1>12, LowestBit
  <2>2. 32 * x(32) = 32 * n32 - 64 * n64
    BY <1>1, <1>12
  <2>. QED BY <1>2, <2>1, <2>2
<1>. HIDE DEF n32
<1>14. /\ n16 \in Nat /\ n16 \div 2 = n32 /\ n16 % 2 = x(16)
      /\ Differ(a, b, 16) = 16 * n16 - 32 * n32
  <2>1. n16 \in Nat /\ n16 \div 2 = n32 /\ n16 % 2 = x(16)
    BY <1>1, <1>13, LowestBit
  <2>2. 16 * x(16) = 16 * n16 - 32 * n32
    BY <1>1, <1>13
  <2>. QED BY <1>2, <2>1, <2>2
<1>. HIDE DEF n16
<1>15. /\ n8 \in Nat /\ n8 \div 2 = n16 /\ n8 % 2 = x(8)
      /\ Differ(a, b, 8) = 8 * n8 - 16 * n16
  <2>1. n8 \in Nat /\ n8 \div 2 = n16 /\ n8 % 2 = x(8)
    BY <1>1, <1>14, LowestBit
  <2>2. 8 * x(8) = 8 * n8 - 16 * n16
    BY <1>1, <1>14
  <2>. QED BY <1>2, <2>1, <2>2
<1>. HIDE DEF n8
<1>16. /\ n4 \in Nat /\ n4 \div 2 = n8 /\ n4 % 2 = x(4)
      /\ Differ(a, b, 4) = 4 * n4 - 8 * n8
  <2>1. n4 \in Nat /\ n4 \div 2 = n8 /\ n4 % 2 = x(4)
    BY <1>1, <1>15, LowestBit
  <2>2. 4 * x(4) = 4 * n4 - 8 * n8
    BY <1>1, <1>15
  <2>. QED BY <1>2, <2>1, <2>2
<1>. HIDE DEF n4
<1>17. /\ n2 \in Nat /\ n2 \div 2 = n4 /\ n2 % 2 = x(2)
      /\ Differ(a, b, 2) = 2 * n2 - 4 * n4
  <2>1. n2 \in Nat /\ n2 \div 2 = n4 /\ n2 % 2 = x(2)
    BY <1>1, <1>16, LowestBit
  <2>2. 2 * x(2) = 2 * n2 - 4 * n4
    BY <1>1, <1>16
  <2>. QED BY <1>2, <2>1, <2>2
<1>. HIDE DEF n2
<1>18. /\ n1 \in Nat /\ n1 \div 2 = n2 /\ n1 % 2 = x(1)
      /\ Differ(a, b, 1) = 1 * n1 - 2 * n2
  <2>1. n1 \in Nat /\ n1 \div 2 = n2 /\ n1 % 2 = x(1)
    BY <1>1, <1>17, LowestBit
  <2>2. 1 * x(1) = 1 * n1 - 2 * n2
    BY <1>1, <1>17
  <2>. QED BY <1>2, <2>1, <2>2
<1>. HIDE DEF n1
<1>19. n = n1
  <2>1. n = HighBits(a, b) + LowBits(a, b)
    BY XorIsBits
  <2>2. HighBits(a, b) = 256 * n256
    BY <1>3, <1>4, <1>5, <1>6, <1>7, <1>8, <1>9, <1>10 DEF HighBits, Four
  <2>3. LowBits(a, b) = n1 - 256 * n256
    BY <1>10, <1>11, <1>12, <1>13, <1>14, <1>15, <1>16, <1>17, <1>18 DEF LowBits, Four
  <2>. QED BY <1>10, <1>18, <2>1, <2>2, <2>3
<1>20. n \in Nat /\ n \div 1 = n1
  BY <1>18, <1>19, DivDiv
<1>. HIDE DEF n
<1>21. /\ (n \div 1) \div 2 = n \div 2 /\ (n \div 2) \div 2 = n \div 4
       /\ (n \div 4) \div 2 = n \div 8
       /\ (n \div 8) \div 2 = n \div 16 /\ (n \div 16) \div 2 = n \div 32
       /\ (n \div 32) \div 2 = n \div 64
       /\ (n \div 64) \div 2 = n \div 128 /\ (n \div 128) \div 2 = n \div 256
       /\ (n \div 256) \div 2 = n \div 512
       /\ (n \div 512) \div 2 = n \div 1024 /\ (n \div 1024) \div 2 = n \div 2048
       /\ (n \div 2048) \div 2 = n \div 4096
       /\ (n \div 4096) \div 2 = n \div 8192 /\ (n \div 8192) \div 2 = n \div 16384
       /\ (n \div 16384) \div 2 = n \div 32768
  BY <1>20, Shifted
<1>22. n \div 2 = n2
  BY <1>20, <1>21, <1>18
<1>23. n \div 4 = n4
  BY <1>22, <1>21, <1>17
<1>24. n \div 8 = n8
  BY <1>23, <1>21, <1>16
<1>25. n \div 16 = n16
  BY <1>24, <1>21, <1>15
<1>26. n \div 32 = n32
  BY <1>25, <1>21, <1>14
<1>27. n \div 64 = n64
  BY <1>26, <1>21, <1>13
<1>28. n \div 128 = n128
  BY <1>27, <1>21, <1>12
<1>29. n \div 256 = n256
  BY <1>28, <1>21, <1>11
<1>30. n \div 512 = n512
  BY <1>29, <1>21, <1>10
<1>31. n \div 1024 = n1024
  BY <1>30, <1>21, <1>9
<1>32. n \div 2048 = n2048
  BY <1>31, <1>21, <1>8
<1>33. n \div 4096 = n4096
  BY <1>32, <1>21, <1>7
<1>34. n \div 8192 = n8192
  BY <1>33, <1>21, <1>6
<1>35. n \div 16384 = n16384
  BY <1>34, <1>21, <1>5
<1>36. n \div 32768 = n32768
  BY <1>35, <1>21, <1>4
<1>37. /\ Bit(n, 1) = x(1) /\ Bit(n, 2) = x(2) /\ Bit(n, 4) = x(4) /\ Bit(n, 8) = x(8)
       /\ Bit(n, 16) = x(16) /\ Bit(n, 32) = x(32) /\ Bit(n, 64) = x(64)
       /\ Bit(n, 128) = x(128)
       /\ Bit(n, 256) = x(256) /\ Bit(n, 512) = x(512) /\ Bit(n, 1024) = x(1024)
       /\ Bit(n, 2048) = x(2048)
       /\ Bit(n, 4096) = x(4096) /\ Bit(n, 8192) = x(8192) /\ Bit(n, 16384) = x(16384)
       /\ Bit(n, 32768) = x(32768)
  BY <1>3, <1>4, <1>5, <1>6, <1>7, <1>8, <1>9, <1>10,
     <1>11, <1>12, <1>13, <1>14, <1>15, <1>16, <1>17, <1>18,
     <1>20, <1>22, <1>23, <1>24, <1>25, <1>26, <1>27, <1>28,
     <1>29, <1>30, <1>31, <1>32, <1>33, <1>34, <1>35, <1>36 DEF Bit
<1>. QED BY <1>37 DEF n, x, Weights

(* The bits of the two bytes of a word.                                    *)
LEMMA LowBit ==
  ASSUME NEW n \in Nat
  PROVE  /\ Bit(Lo(n), 1) = Bit(n, 1) /\ Bit(Lo(n), 2) = Bit(n, 2)
         /\ Bit(Lo(n), 4) = Bit(n, 4) /\ Bit(Lo(n), 8) = Bit(n, 8)
         /\ Bit(Lo(n), 16) = Bit(n, 16) /\ Bit(Lo(n), 32) = Bit(n, 32)
         /\ Bit(Lo(n), 64) = Bit(n, 64) /\ Bit(Lo(n), 128) = Bit(n, 128)
<1>1. ((n % 256) \div 1) % 2 = (n \div 1) % 2
  BY SMT
<1>2. ((n % 256) \div 2) % 2 = (n \div 2) % 2
  BY SMT
<1>3. ((n % 256) \div 4) % 2 = (n \div 4) % 2
  BY SMT
<1>4. ((n % 256) \div 8) % 2 = (n \div 8) % 2
  BY SMT
<1>5. ((n % 256) \div 16) % 2 = (n \div 16) % 2
  BY SMT
<1>6. ((n % 256) \div 32) % 2 = (n \div 32) % 2
  BY SMT
<1>7. ((n % 256) \div 64) % 2 = (n \div 64) % 2
  <2>1. n \div 64 = 4 * (n \div 256) + ((n % 256) \div 64)
    BY SMT
  <2>. QED BY <2>1, SMT
<1>8. ((n % 256) \div 128) % 2 = (n \div 128) % 2
  <2>1. n \div 128 = 2 * (n \div 256) + ((n % 256) \div 128)
    BY SMT
  <2>. QED BY <2>1, SMT
<1>. QED BY <1>1, <1>2, <1>3, <1>4, <1>5, <1>6, <1>7, <1>8 DEF Bit, Lo

(* The high byte of a word, bit by bit.                                    *)
LEMMA HighBit ==
  ASSUME NEW n \in Nat
  PROVE  /\ Bit(Hi(n), 1) = Bit(n, 256) /\ Bit(Hi(n), 2) = Bit(n, 512)
         /\ Bit(Hi(n), 4) = Bit(n, 1024) /\ Bit(Hi(n), 8) = Bit(n, 2048)
         /\ Bit(Hi(n), 16) = Bit(n, 4096) /\ Bit(Hi(n), 32) = Bit(n, 8192)
         /\ Bit(Hi(n), 64) = Bit(n, 16384) /\ Bit(Hi(n), 128) = Bit(n, 32768)
<1>1. (n \div 256) \div 1 = n \div 256
  BY SMT
<1>2. (n \div 256) \div 2 = n \div 512
  BY SMT
<1>3. (n \div 256) \div 4 = n \div 1024
  BY SMT
<1>4. (n \div 256) \div 8 = n \div 2048
  BY SMT
<1>5. (n \div 256) \div 16 = n \div 4096
  BY SMT
<1>6. (n \div 256) \div 32 = n \div 8192
  BY SMT
<1>7. (n \div 256) \div 64 = n \div 16384
  BY SMT
<1>8. (n \div 256) \div 128 = n \div 32768
  BY SMT
<1>. QED BY <1>1, <1>2, <1>3, <1>4, <1>5, <1>6, <1>7, <1>8 DEF Bit, Hi

(* A byte is the sum of its bits,                                          *)
LEMMA ByteBits ==
  ASSUME NEW n \in Byte
  PROVE  n = 1 * Bit(n, 1) + 2 * Bit(n, 2) + 4 * Bit(n, 4) + 8 * Bit(n, 8)
               + 16 * Bit(n, 16) + 32 * Bit(n, 32) + 64 * Bit(n, 64) + 128 * Bit(n, 128)
BY DEF Byte, Bit

(* and known by them.                                                      *)
LEMMA SameByte ==
  ASSUME NEW a \in Byte, NEW b \in Byte,
         Bit(a, 1) = Bit(b, 1), Bit(a, 2) = Bit(b, 2),
         Bit(a, 4) = Bit(b, 4), Bit(a, 8) = Bit(b, 8),
         Bit(a, 16) = Bit(b, 16), Bit(a, 32) = Bit(b, 32),
         Bit(a, 64) = Bit(b, 64), Bit(a, 128) = Bit(b, 128)
  PROVE  a = b
BY ByteBits

(* From the low byte of an exclusive or, an operand can be told.           *)
LEMMA LowInjective ==
  ASSUME NEW a \in Byte, NEW b \in Byte, NEW c \in Nat, Lo(Xor(a, c)) = Lo(Xor(b, c))
  PROVE  a = b
<1>1. a \in Nat /\ b \in Nat /\ Xor(a, c) \in Nat /\ Xor(b, c) \in Nat
  BY ByteNat, WordNat, XorWord
<1>2. ASSUME NEW w \in Weights, Bit(Xor(a, c), w) = Bit(Xor(b, c), w)
      PROVE  Bit(a, w) = Bit(b, w)
  BY <1>1, <1>2, BitIn, XorBit
<1>3. /\ Bit(Xor(a, c), 1) = Bit(Xor(b, c), 1) /\ Bit(Xor(a, c), 2) = Bit(Xor(b, c), 2)
      /\ Bit(Xor(a, c), 4) = Bit(Xor(b, c), 4) /\ Bit(Xor(a, c), 8) = Bit(Xor(b, c), 8)
      /\ Bit(Xor(a, c), 16) = Bit(Xor(b, c), 16) /\ Bit(Xor(a, c), 32) = Bit(Xor(b, c), 32)
      /\ Bit(Xor(a, c), 64) = Bit(Xor(b, c), 64)
      /\ Bit(Xor(a, c), 128) = Bit(Xor(b, c), 128)
  BY <1>1, LowBit
<1>4. 1 \in Weights /\ 2 \in Weights /\ 4 \in Weights /\ 8 \in Weights
      /\ 16 \in Weights /\ 32 \in Weights /\ 64 \in Weights /\ 128 \in Weights
  BY DEF Weights
<1>5. /\ Bit(a, 1) = Bit(b, 1) /\ Bit(a, 2) = Bit(b, 2)
      /\ Bit(a, 4) = Bit(b, 4) /\ Bit(a, 8) = Bit(b, 8)
      /\ Bit(a, 16) = Bit(b, 16) /\ Bit(a, 32) = Bit(b, 32)
      /\ Bit(a, 64) = Bit(b, 64) /\ Bit(a, 128) = Bit(b, 128)
  BY <1>2, <1>3, <1>4
<1>. QED BY <1>5, SameByte

(* A byte leaves the high byte of a word as it is.                         *)
LEMMA HighOfXor ==
  ASSUME NEW a \in Byte, NEW t \in Word
  PROVE  Hi(Xor(a, t)) = Hi(t)
<1>1. a \in Nat /\ t \in Nat /\ Xor(a, t) \in Word /\ Xor(a, t) \in Nat
  BY ByteNat, WordNat, XorWord
<1>2. /\ Bit(a, 256) = 0 /\ Bit(a, 512) = 0 /\ Bit(a, 1024) = 0 /\ Bit(a, 2048) = 0
      /\ Bit(a, 4096) = 0 /\ Bit(a, 8192) = 0 /\ Bit(a, 16384) = 0 /\ Bit(a, 32768) = 0
  BY DEF Byte, Bit
<1>3. ASSUME NEW w \in Weights, Bit(a, w) = 0
      PROVE  Bit(Xor(a, t), w) = Bit(t, w)
  BY <1>1, <1>3, BitIn, XorBit
<1>4. /\ 256 \in Weights /\ 512 \in Weights /\ 1024 \in Weights /\ 2048 \in Weights
      /\ 4096 \in Weights /\ 8192 \in Weights /\ 16384 \in Weights /\ 32768 \in Weights
  BY DEF Weights
<1>5. /\ Bit(Xor(a, t), 256) = Bit(t, 256) /\ Bit(Xor(a, t), 512) = Bit(t, 512)
      /\ Bit(Xor(a, t), 1024) = Bit(t, 1024) /\ Bit(Xor(a, t), 2048) = Bit(t, 2048)
      /\ Bit(Xor(a, t), 4096) = Bit(t, 4096) /\ Bit(Xor(a, t), 8192) = Bit(t, 8192)
      /\ Bit(Xor(a, t), 16384) = Bit(t, 16384) /\ Bit(Xor(a, t), 32768) = Bit(t, 32768)
  BY <1>2, <1>3, <1>4
<1>6. /\ Bit(Hi(Xor(a, t)), 1) = Bit(Hi(t), 1) /\ Bit(Hi(Xor(a, t)), 2) = Bit(Hi(t), 2)
      /\ Bit(Hi(Xor(a, t)), 4) = Bit(Hi(t), 4) /\ Bit(Hi(Xor(a, t)), 8) = Bit(Hi(t), 8)
      /\ Bit(Hi(Xor(a, t)), 16) = Bit(Hi(t), 16) /\ Bit(Hi(Xor(a, t)), 32) = Bit(Hi(t), 32)
      /\ Bit(Hi(Xor(a, t)), 64) = Bit(Hi(t), 64)
      /\ Bit(Hi(Xor(a, t)), 128) = Bit(Hi(t), 128)
  BY <1>1, <1>5, HighBit
<1>. QED BY <1>1, <1>6, WordBits, SameByte

(* Xor makes a byte of two bytes: the index into the table is in range.    *)
LEMMA XorOfBytes ==
  ASSUME NEW a \in Byte, NEW b \in Byte
  PROVE  Xor(a, b) \in Byte
<1>1. a \in Nat /\ b \in Nat /\ b \in Word
  BY ByteNat
<1>2. Hi(Xor(a, b)) = Hi(b) /\ Hi(b) = 0
  BY <1>1, HighOfXor DEF Byte, Hi
<1>3. Xor(a, b) \in Word
  BY <1>1, XorWord
<1>4. Xor(a, b) = Lo(Xor(a, b)) /\ Lo(Xor(a, b)) \in Byte
  BY <1>2, <1>3, WordBits DEF Byte
<1>. QED BY <1>4

(* A byte with any of its bits turned over is another byte.                *)
LEMMA Flipped ==
  ASSUME NEW b \in Byte, NEW flip \in 1..255
  PROVE  Xor(b, flip) \in Byte /\ Xor(b, flip) # b
<1>1. b \in Nat /\ flip \in Nat /\ flip \in Byte /\ 0 \in Byte /\ flip # 0
  BY DEF Byte
<1>2. Xor(b, flip) \in Byte
  BY <1>1, XorOfBytes
<1>3. ASSUME Xor(b, flip) = b PROVE FALSE
  <2>1. \A w \in Weights : Bit(flip, w) = 0
    BY <1>1, <1>3, BitIn, XorBit
  <2>2. 1 \in Weights /\ 2 \in Weights /\ 4 \in Weights /\ 8 \in Weights
        /\ 16 \in Weights /\ 32 \in Weights /\ 64 \in Weights /\ 128 \in Weights
    BY DEF Weights
  <2>3. /\ Bit(0, 1) = 0 /\ Bit(0, 2) = 0 /\ Bit(0, 4) = 0 /\ Bit(0, 8) = 0
        /\ Bit(0, 16) = 0 /\ Bit(0, 32) = 0 /\ Bit(0, 64) = 0 /\ Bit(0, 128) = 0
    BY DEF Bit
  <2>4. flip = 0
    BY <1>1, <2>1, <2>2, <2>3, SameByte
  <2>. QED BY <1>1, <2>4
<1>. QED BY <1>2, <1>3

-----------------------------------------------------------------------------
(* Half a word is a word without a highest bit.                            *)
LEMMA HalfWord ==
  ASSUME NEW s \in Word
  PROVE  s \div 2 \in Nat /\ s \div 2 \in Word /\ Bit(s \div 2, 32768) = 0 /\ s % 2 = Bit(s, 1)
<1>. DEFINE u == s \div 2
<1>1. u \in Nat /\ u <= 32767
  <2>1. s \in Nat /\ s <= 65535
    BY WordNat
  <2>. QED BY <2>1, SMT
<1>2. s % 2 = Bit(s, 1)
  BY WordNat, DivDiv DEF Bit
<1>. HIDE DEF u
<1>3. u \in Word
  <2>1. u <= 65535
    BY <1>1, SMT
  <2>. QED BY <1>1, <2>1, InWord
<1>4. Bit(u, 32768) = 0
  <2>1. u \div 32768 = 0
    BY <1>1, SMT
  <2>. QED BY <2>1 DEF Bit
<1>. QED BY <1>1, <1>2, <1>3, <1>4 DEF u

(* A division makes a word of a word.                                      *)
LEMMA DivideWord ==
  ASSUME NEW s \in Word
  PROVE  Divide(s) \in Word
<1>1. Polynomial \in Nat
  BY DEF Polynomial
<1>. QED BY <1>1, HalfWord, XorWord DEF Divide

(* Halving moves every bit down by one place.                               *)
LEMMA HalfBits ==
  ASSUME NEW s \in Nat
  PROVE  /\ Bit(s \div 2, 1) = Bit(s, 2) /\ Bit(s \div 2, 2) = Bit(s, 4)
         /\ Bit(s \div 2, 4) = Bit(s, 8) /\ Bit(s \div 2, 8) = Bit(s, 16)
         /\ Bit(s \div 2, 16) = Bit(s, 32) /\ Bit(s \div 2, 32) = Bit(s, 64)
         /\ Bit(s \div 2, 64) = Bit(s, 128) /\ Bit(s \div 2, 128) = Bit(s, 256)
         /\ Bit(s \div 2, 256) = Bit(s, 512) /\ Bit(s \div 2, 512) = Bit(s, 1024)
         /\ Bit(s \div 2, 1024) = Bit(s, 2048) /\ Bit(s \div 2, 2048) = Bit(s, 4096)
         /\ Bit(s \div 2, 4096) = Bit(s, 8192) /\ Bit(s \div 2, 8192) = Bit(s, 16384)
         /\ Bit(s \div 2, 16384) = Bit(s, 32768) /\ Bit(s \div 2, 32768) = Bit(s, 65536)
<1>1. (s \div 2) \div 1 = s \div 2
  BY SMT
<1>2. (s \div 2) \div 2 = s \div 4
  BY SMT
<1>3. (s \div 2) \div 4 = s \div 8
  BY SMT
<1>4. (s \div 2) \div 8 = s \div 16
  BY SMT
<1>5. (s \div 2) \div 16 = s \div 32
  BY SMT
<1>6. (s \div 2) \div 32 = s \div 64
  BY SMT
<1>7. (s \div 2) \div 64 = s \div 128
  BY SMT
<1>8. (s \div 2) \div 128 = s \div 256
  BY SMT
<1>9. (s \div 2) \div 256 = s \div 512
  BY SMT
<1>10. (s \div 2) \div 512 = s \div 1024
  BY SMT
<1>11. (s \div 2) \div 1024 = s \div 2048
  BY SMT
<1>12. (s \div 2) \div 2048 = s \div 4096
  BY SMT
<1>13. (s \div 2) \div 4096 = s \div 8192
  BY SMT
<1>14. (s \div 2) \div 8192 = s \div 16384
  BY SMT
<1>15. (s \div 2) \div 16384 = s \div 32768
  BY SMT
<1>. QED BY <1>1, <1>2, <1>3, <1>4, <1>5, <1>6, <1>7, <1>8,
            <1>9, <1>10, <1>11, <1>12, <1>13, <1>14, <1>15 DEF Bit

(* Two words that agree in a bit after division agreed in the bit above,   *)
(* once they are known to have agreed in the lowest, which decides whether *)
(* the polynomial was added and is what the highest bit shows.             *)
Agree(s, t, w) == Bit(s, w) = Bit(t, w)

(* The bits of the polynomial: 0x8408.                                     *)
LEMMA PolynomialBits ==
  ASSUME NEW w \in Weights
  PROVE  Bit(Polynomial, w) = IF w \in {8, 1024, 32768} THEN 1 ELSE 0
BY SMT DEF Weights, Bit, Polynomial

(* The bits after a division.                                              *)
LEMMA DivideBits ==
  ASSUME NEW s \in Word, NEW w \in Weights
  PROVE  Bit(Divide(s), w) =
           IF Bit(s, 1) = 0 \/ w \notin {8, 1024, 32768} THEN Bit(s \div 2, w)
           ELSE 1 - Bit(s \div 2, w)
<1>. DEFINE u == s \div 2
<1>1. u \in Nat /\ s % 2 = Bit(s, 1) /\ Bit(u, w) \in {0, 1}
  BY HalfWord, BitIn, SMT
<1>2. Bit(s, 1) \in {0, 1}
  BY WordNat, BitIn, SMT DEF Weights
<1>. HIDE DEF u
<1>3. Bit(Xor(u, Polynomial), w) = IF Bit(u, w) = Bit(Polynomial, w) THEN 0 ELSE 1
  <2>1. Polynomial \in Nat
    BY DEF Polynomial
  <2>. QED BY <1>1, <2>1, XorBit
<1>4. Bit(Polynomial, w) = IF w \in {8, 1024, 32768} THEN 1 ELSE 0
  BY PolynomialBits
<1>5. Divide(s) = IF Bit(s, 1) = 0 THEN u ELSE Xor(u, Polynomial)
  BY <1>1 DEF Divide, u
<1>. QED BY <1>1, <1>2, <1>3, <1>4, <1>5 DEF u

(* What two divisions agree in, halves of the words before agreed in.      *)
LEMMA DivideBack ==
  ASSUME NEW s \in Word, NEW t \in Word
  PROVE  /\ Agree(Divide(s), Divide(t), 32768) => Agree(s, t, 1)
         /\ Agree(s, t, 1) =>
              \A w \in Weights :
                Agree(Divide(s), Divide(t), w) => Agree(s \div 2, t \div 2, w)
<1>1. Bit(s, 1) \in {0, 1} /\ Bit(t, 1) \in {0, 1}
  BY WordNat, BitIn, SMT DEF Weights
<1>2. Agree(Divide(s), Divide(t), 32768) => Agree(s, t, 1)
  <2>1. 32768 \in Weights
    BY DEF Weights
  <2>. QED BY <1>1, <2>1, DivideBits, HalfWord DEF Agree
<1>3. ASSUME Agree(s, t, 1), NEW w \in Weights, Agree(Divide(s), Divide(t), w)
      PROVE  Agree(s \div 2, t \div 2, w)
  <2>1. Bit(s \div 2, w) \in {0, 1} /\ Bit(t \div 2, w) \in {0, 1}
    BY HalfWord, BitIn, SMT
  <2>. QED BY <1>3, <2>1, DivideBits DEF Agree
<1>. QED BY <1>2, <1>3

-----------------------------------------------------------------------------
(* The same, bit by bit of the words before.                               *)
LEMMA DivideBackBits ==
  ASSUME NEW s \in Word, NEW t \in Word, Agree(Divide(s), Divide(t), 32768)
  PROVE  /\ Agree(s, t, 1)
         /\ Agree(Divide(s), Divide(t), 1) => Agree(s, t, 2)
         /\ Agree(Divide(s), Divide(t), 2) => Agree(s, t, 4)
         /\ Agree(Divide(s), Divide(t), 4) => Agree(s, t, 8)
         /\ Agree(Divide(s), Divide(t), 8) => Agree(s, t, 16)
         /\ Agree(Divide(s), Divide(t), 16) => Agree(s, t, 32)
         /\ Agree(Divide(s), Divide(t), 32) => Agree(s, t, 64)
         /\ Agree(Divide(s), Divide(t), 64) => Agree(s, t, 128)
         /\ Agree(Divide(s), Divide(t), 128) => Agree(s, t, 256)
         /\ Agree(Divide(s), Divide(t), 256) => Agree(s, t, 512)
         /\ Agree(Divide(s), Divide(t), 512) => Agree(s, t, 1024)
         /\ Agree(Divide(s), Divide(t), 1024) => Agree(s, t, 2048)
         /\ Agree(Divide(s), Divide(t), 2048) => Agree(s, t, 4096)
         /\ Agree(Divide(s), Divide(t), 4096) => Agree(s, t, 8192)
         /\ Agree(Divide(s), Divide(t), 8192) => Agree(s, t, 16384)
         /\ Agree(Divide(s), Divide(t), 16384) => Agree(s, t, 32768)
<1>1. Agree(s, t, 1)
  BY DivideBack
<1>2. \A w \in Weights : Agree(Divide(s), Divide(t), w) => Agree(s \div 2, t \div 2, w)
  BY <1>1, DivideBack
<1>3. s \in Nat /\ t \in Nat
  BY WordNat
<1>4. /\ Agree(s \div 2, t \div 2, 1) => Agree(s, t, 2)
      /\ Agree(s \div 2, t \div 2, 2) => Agree(s, t, 4)
      /\ Agree(s \div 2, t \div 2, 4) => Agree(s, t, 8)
      /\ Agree(s \div 2, t \div 2, 8) => Agree(s, t, 16)
      /\ Agree(s \div 2, t \div 2, 16) => Agree(s, t, 32)
      /\ Agree(s \div 2, t \div 2, 32) => Agree(s, t, 64)
      /\ Agree(s \div 2, t \div 2, 64) => Agree(s, t, 128)
      /\ Agree(s \div 2, t \div 2, 128) => Agree(s, t, 256)
      /\ Agree(s \div 2, t \div 2, 256) => Agree(s, t, 512)
      /\ Agree(s \div 2, t \div 2, 512) => Agree(s, t, 1024)
      /\ Agree(s \div 2, t \div 2, 1024) => Agree(s, t, 2048)
      /\ Agree(s \div 2, t \div 2, 2048) => Agree(s, t, 4096)
      /\ Agree(s \div 2, t \div 2, 4096) => Agree(s, t, 8192)
      /\ Agree(s \div 2, t \div 2, 8192) => Agree(s, t, 16384)
      /\ Agree(s \div 2, t \div 2, 16384) => Agree(s, t, 32768)
  BY <1>3, HalfBits DEF Agree
<1>5. /\ 1 \in Weights /\ 2 \in Weights /\ 4 \in Weights /\ 8 \in Weights /\ 16 \in Weights
      /\ 32 \in Weights /\ 64 \in Weights /\ 128 \in Weights /\ 256 \in Weights
      /\ 512 \in Weights
      /\ 1024 \in Weights /\ 2048 \in Weights /\ 4096 \in Weights /\ 8192 \in Weights
      /\ 16384 \in Weights
  BY DEF Weights
<1>. QED BY <1>1, <1>2, <1>4, <1>5

(* Words of the same high byte agree in eight bits.                        *)
LEMMA HighBits8 ==
  ASSUME NEW s \in Word, NEW t \in Word, Hi(s) = Hi(t)
  PROVE  /\ Agree(s, t, 256) /\ Agree(s, t, 512) /\ Agree(s, t, 1024) /\ Agree(s, t, 2048)
         /\ Agree(s, t, 4096) /\ Agree(s, t, 8192) /\ Agree(s, t, 16384)
         /\ Agree(s, t, 32768)
BY WordNat, HighBit DEF Agree

(* The entries of the table.                                               *)
Divide8(i) == Divide(Divide(Divide(Divide(Divide(Divide(Divide(Divide(i))))))))

(* Every entry is there, and a word.                                       *)
LEMMA TableAt ==
  ASSUME NEW i \in Byte
  PROVE  At(table, i) = Divide8(i) /\ At(table, i) \in Word
<1>. DEFINE f == [k \in 1..256 |-> Divide8(k - 1)]
<1>1. \A k \in Byte : Divide8(k) \in Word
  BY ByteNat, DivideWord DEF Divide8
<1>2. \A k \in 1..256 : k - 1 \in Byte
  BY DEF Byte
<1>3. f \in Seq(Word)
  <2>. HIDE DEF f
  <2>1. \A k \in 1..256 : f[k] \in Word
    BY <1>1, <1>2 DEF f
  <2>. QED BY <2>1, IsASeq DEF f
<1>4. table = f
  BY <1>3, ConcatEmptySeq DEF table, Divide8
<1>5. i + 1 \in 1..256 /\ (i + 1) - 1 = i
  BY DEF Byte
<1>. QED BY <1>1, <1>4, <1>5 DEF At

(* No two entries have the same high byte.                                 *)
LEMMA TableInjective ==
  ASSUME NEW i \in Byte, NEW j \in Byte, Hi(At(table, i)) = Hi(At(table, j))
  PROVE  i = j
<1>. DEFINE s0 == i
            s1 == Divide(s0)
            s2 == Divide(s1)
            s3 == Divide(s2)
            s4 == Divide(s3)
            s5 == Divide(s4)
            s6 == Divide(s5)
            s7 == Divide(s6)
            s8 == Divide(s7)
            t0 == j
            t1 == Divide(t0)
            t2 == Divide(t1)
            t3 == Divide(t2)
            t4 == Divide(t3)
            t5 == Divide(t4)
            t6 == Divide(t5)
            t7 == Divide(t6)
            t8 == Divide(t7)
<1>0. s8 = At(table, i) /\ t8 = At(table, j) /\ s0 \in Word /\ t0 \in Word
  BY TableAt, ByteNat DEF Divide8
<1>1. s8 \in Word /\ t8 \in Word
  BY <1>0, TableAt
<1>2. s1 \in Word /\ t1 \in Word
  BY <1>0, DivideWord
<1>3. s2 \in Word /\ t2 \in Word
  BY <1>2, DivideWord
<1>4. s3 \in Word /\ t3 \in Word
  BY <1>3, DivideWord
<1>5. s4 \in Word /\ t4 \in Word
  BY <1>4, DivideWord
<1>6. s5 \in Word /\ t5 \in Word
  BY <1>5, DivideWord
<1>7. s6 \in Word /\ t6 \in Word
  BY <1>6, DivideWord
<1>8. s7 \in Word /\ t7 \in Word
  BY <1>7, DivideWord
<1>9. Agree(s8, t8, 256) /\ Agree(s8, t8, 512) /\ Agree(s8, t8, 1024) /\ Agree(s8, t8, 2048)
      /\ Agree(s8, t8, 4096) /\ Agree(s8, t8, 8192) /\ Agree(s8, t8, 16384)
      /\ Agree(s8, t8, 32768)
  BY <1>0, <1>1, HighBits8
<1>10. /\ Agree(s7, t7, 1) /\ Agree(s7, t7, 512) /\ Agree(s7, t7, 1024)
       /\ Agree(s7, t7, 2048)
       /\ Agree(s7, t7, 4096) /\ Agree(s7, t7, 8192) /\ Agree(s7, t7, 16384)
       /\ Agree(s7, t7, 32768)
  BY <1>8, <1>9, DivideBackBits
<1>11. /\ Agree(s6, t6, 1) /\ Agree(s6, t6, 2) /\ Agree(s6, t6, 1024) /\ Agree(s6, t6, 2048)
       /\ Agree(s6, t6, 4096) /\ Agree(s6, t6, 8192) /\ Agree(s6, t6, 16384)
       /\ Agree(s6, t6, 32768)
  BY <1>7, <1>10, DivideBackBits
<1>12. /\ Agree(s5, t5, 1) /\ Agree(s5, t5, 2) /\ Agree(s5, t5, 4) /\ Agree(s5, t5, 2048)
       /\ Agree(s5, t5, 4096) /\ Agree(s5, t5, 8192) /\ Agree(s5, t5, 16384)
       /\ Agree(s5, t5, 32768)
  BY <1>6, <1>11, DivideBackBits
<1>13. /\ Agree(s4, t4, 1) /\ Agree(s4, t4, 2) /\ Agree(s4, t4, 4) /\ Agree(s4, t4, 8)
       /\ Agree(s4, t4, 4096) /\ Agree(s4, t4, 8192) /\ Agree(s4, t4, 16384)
       /\ Agree(s4, t4, 32768)
  BY <1>5, <1>12, DivideBackBits
<1>14. /\ Agree(s3, t3, 1) /\ Agree(s3, t3, 2) /\ Agree(s3, t3, 4) /\ Agree(s3, t3, 8)
       /\ Agree(s3, t3, 16) /\ Agree(s3, t3, 8192) /\ Agree(s3, t3, 16384)
       /\ Agree(s3, t3, 32768)
  BY <1>4, <1>13, DivideBackBits
<1>15. /\ Agree(s2, t2, 1) /\ Agree(s2, t2, 2) /\ Agree(s2, t2, 4) /\ Agree(s2, t2, 8)
       /\ Agree(s2, t2, 16) /\ Agree(s2, t2, 32) /\ Agree(s2, t2, 16384)
       /\ Agree(s2, t2, 32768)
  BY <1>3, <1>14, DivideBackBits
<1>16. /\ Agree(s1, t1, 1) /\ Agree(s1, t1, 2) /\ Agree(s1, t1, 4) /\ Agree(s1, t1, 8)
       /\ Agree(s1, t1, 16) /\ Agree(s1, t1, 32) /\ Agree(s1, t1, 64)
       /\ Agree(s1, t1, 32768)
  BY <1>2, <1>15, DivideBackBits
<1>17. /\ Agree(s0, t0, 1) /\ Agree(s0, t0, 2) /\ Agree(s0, t0, 4) /\ Agree(s0, t0, 8)
       /\ Agree(s0, t0, 16) /\ Agree(s0, t0, 32) /\ Agree(s0, t0, 64) /\ Agree(s0, t0, 128)
  BY <1>0, <1>16, DivideBackBits
<1>. QED BY <1>17, SameByte DEF Agree

-----------------------------------------------------------------------------
(* A step makes a word of a word and a byte.                               *)
LEMMA StepWord ==
  ASSUME NEW fcs \in Word, NEW byte \in Byte
  PROVE  Step(fcs, byte) \in Word
<1>1. Lo(fcs) \in Byte /\ Hi(fcs) \in Byte
  BY WordBits
<1>2. At(table, Xor(Lo(fcs), byte)) \in Word
  BY <1>1, XorOfBytes, TableAt
<1>. QED BY <1>1, <1>2, ByteNat, WordNat, XorWord DEF Step

(* The high byte of a step is that of the entry that was added, which      *)
(* tells the entry, and with it the low byte and the high byte before.     *)
LEMMA StepEntry ==
  ASSUME NEW f \in Word, NEW g \in Word, NEW b \in Byte, NEW c \in Byte,
         Step(f, b) = Step(g, c)
  PROVE  Xor(Lo(f), b) = Xor(Lo(g), c) /\ Hi(f) = Hi(g)
<1>. DEFINE i == Xor(Lo(f), b)
            j == Xor(Lo(g), c)
<1>1. Lo(f) \in Byte /\ Hi(f) \in Byte /\ Lo(g) \in Byte /\ Hi(g) \in Byte
  BY WordBits
<1>2. i \in Byte /\ j \in Byte
  BY <1>1, XorOfBytes
<1>3. Xor(Hi(f), At(table, i)) = Xor(Hi(g), At(table, j))
  BY DEF Step
<1>. HIDE DEF i, j
<1>4. At(table, i) \in Word /\ At(table, j) \in Word
  BY <1>2, TableAt
<1>5. Hi(At(table, i)) = Hi(At(table, j))
  BY <1>1, <1>3, <1>4, HighOfXor
<1>6. i = j
  BY <1>2, <1>5, TableInjective
<1>7. Hi(f) = Hi(g)
  BY <1>1, <1>3, <1>4, <1>6, WordNat, LowInjective
<1>. QED BY <1>6, <1>7 DEF i, j

(* A different byte makes a different sequence,                            *)
LEMMA StepTellsByte ==
  ASSUME NEW f \in Word, NEW b \in Byte, NEW c \in Byte, b # c
  PROVE  Step(f, b) # Step(f, c)
<1>1. Lo(f) \in Byte /\ Lo(f) \in Nat /\ b \in Nat /\ c \in Nat
  BY WordBits, ByteNat
<1>2. ASSUME Step(f, b) = Step(f, c) PROVE FALSE
  <2>1. Xor(b, Lo(f)) = Xor(c, Lo(f))
    BY <1>1, <1>2, StepEntry, XorCommutes
  <2>. QED BY <1>1, <2>1, LowInjective
<1>. QED BY <1>2

(* and so does a different sequence before it.                             *)
LEMMA StepTellsFcs ==
  ASSUME NEW f \in Word, NEW g \in Word, NEW b \in Byte, f # g
  PROVE  Step(f, b) # Step(g, b)
<1>1. Lo(f) \in Byte /\ Lo(f) \in Nat /\ Lo(g) \in Byte /\ Lo(g) \in Nat /\ b \in Nat
  BY WordBits, ByteNat
<1>2. ASSUME Step(f, b) = Step(g, b) PROVE FALSE
  <2>1. Xor(Lo(f), b) = Xor(Lo(g), b) /\ Hi(f) = Hi(g)
    BY <1>2, StepEntry
  <2>2. Lo(f) = Lo(g)
    BY <1>1, <2>1, LowInjective
  <2>3. f = 256 * Hi(f) + Lo(f) /\ g = 256 * Hi(g) + Lo(g)
    BY WordBits
  <2>. QED BY <2>1, <2>2, <2>3
<1>. QED BY <1>2

-----------------------------------------------------------------------------
(* A set of natural numbers that is not empty has a least one.             *)
LEMMA LeastNatural ==
  ASSUME NEW T, T \subseteq Nat, T # {}
  PROVE  \E m \in T : \A k \in T : m <= k
<1>. DEFINE R == {p \in Nat \X Nat : p[1] < p[2]}
<1>1. IsWellFoundedOn(R, Nat)
  BY NatLessThanWellFounded DEF OpToRel
<1>2. PICK m \in T : \A k \in T : <<k, m>> \notin R
  BY <1>1, WFMin, Zenon
<1>3. \A k, n \in Nat : k < n => <<k, n>> \in R
  OBVIOUS
<1>. HIDE DEF R
<1>4. \A k \in T : ~(k < m)
  BY <1>2, <1>3
<1>. QED BY <1>4

(* g is the check sequence of the first n bytes of data, byte by byte.     *)
Runs(g, data, n) ==
  /\ g \in [0..n -> Word]
  /\ g[0] = 65535
  /\ \A k \in 1..n : g[k] = Step(g[k - 1], data[k])

(* There is such a run over any bytes, by way of the shortest for which    *)
(* there is none.                                                          *)
LEMMA RunsExist ==
  ASSUME NEW data \in Seq(Byte), NEW n \in 0..Len(data)
  PROVE  \E g : Runs(g, data, n)
<1>. DEFINE T == {k \in 0..Len(data) : ~ \E g : Runs(g, data, k)}
<1>1. ASSUME T # {} PROVE FALSE
  <2>0. T \subseteq Nat
    OBVIOUS
  <2>. HIDE DEF T
  <2>1. PICK m \in T : \A k \in T : m <= k
    BY <1>1, <2>0, LeastNatural
  <2>. USE DEF T
  <2>2. CASE m = 0
    <3>. DEFINE g == [k \in 0..0 |-> 65535]
    <3>1. 65535 \in Word
      BY InWord
    <3>2. Runs(g, data, 0)
      BY <3>1 DEF Runs
    <3>. QED BY <2>1, <2>2, <3>2
  <2>3. CASE m # 0
    <3>1. m \in 1..Len(data) /\ m - 1 \in 0..Len(data) /\ m - 1 \notin T
      BY <2>1, <2>3
    <3>2. PICK h : Runs(h, data, m - 1)
      BY <3>1
    <3>. DEFINE g == [k \in 0..m |-> IF k = m THEN Step(h[m - 1], data[m]) ELSE h[k]]
    <3>3. data[m] \in Byte
      BY <3>1
    <3>4. h \in [0..(m - 1) -> Word] /\ h[m - 1] \in Word
      BY <3>1, <3>2 DEF Runs
    <3>5. Step(h[m - 1], data[m]) \in Word
      BY <3>3, <3>4, StepWord
    <3>6. g \in [0..m -> Word]
      BY <3>1, <3>4, <3>5
    <3>7. g[0] = 65535
      BY <3>1, <3>2 DEF Runs
    <3>8. ASSUME NEW k \in 1..m PROVE g[k] = Step(g[k - 1], data[k])
      <4>1. k - 1 \in 0..m /\ k - 1 # m /\ g[k - 1] = h[k - 1]
        BY <3>1
      <4>2. CASE k = m
        BY <4>1, <4>2
      <4>3. CASE k # m
        BY <3>1, <3>2, <4>1, <4>3 DEF Runs
      <4>. QED BY <4>2, <4>3
    <3>. HIDE DEF g
    <3>9. Runs(g, data, m)
      BY <3>6, <3>7, <3>8 DEF Runs
    <3>. QED BY <2>1, <3>9
  <2>. QED BY <2>2, <2>3
<1>. QED BY <1>1

(* The equation that defines Fcs.                                          *)
Rec(f, data) == [n \in 0..Len(data) |-> IF n = 0 THEN 65535 ELSE Step(f[n - 1], data[n])]

(* It is what Fcs computes.                                                *)
LEMMA FcsRuns ==
  ASSUME NEW data \in Seq(Byte)
  PROVE  Runs(Fcs(data), data, Len(data))
<1>. DEFINE P(f) == f = Rec(f, data)
            n == Len(data)
<1>0. n \in Nat
  OBVIOUS
<1>1. Fcs(data) = CHOOSE f : P(f)
  BY DEF Fcs, Rec
<1>2. PICK g : Runs(g, data, n)
  BY <1>0, RunsExist
<1>3. P(g)
  BY <1>0, <1>2 DEF Runs, Rec
<1>. HIDE DEF P
<1>4. P(Fcs(data))
  BY <1>1, <1>3, Zenon
<1>. DEFINE f == Fcs(data)
<1>5. f = Rec(f, data)
  BY <1>4 DEF P
<1>. HIDE DEF f, n
<1>. DEFINE T == {k \in 0..n : f[k] \notin Word}
<1>6. /\ f[0] = 65535
      /\ \A k \in 1..n : f[k] = Step(f[k - 1], data[k])
  BY <1>0, <1>5 DEF Rec, n
<1>7. f = [k \in 0..n |-> f[k]]
  BY <1>0, <1>5 DEF Rec, n
<1>8. ASSUME T # {} PROVE FALSE
  <2>0. T \subseteq Nat
    BY <1>0
  <2>. HIDE DEF T
  <2>1. PICK m \in T : \A k \in T : m <= k
    BY <1>8, <2>0, LeastNatural
  <2>. USE DEF T
  <2>2. m # 0
    BY <1>6, <2>1, InWord
  <2>3. m \in 1..n /\ m - 1 \in 0..n /\ f[m - 1] \in Word
    BY <1>0, <2>1, <2>2
  <2>4. data[m] \in Byte
    BY <2>3 DEF n
  <2>5. f[m] = Step(f[m - 1], data[m])
    BY <1>6, <2>3
  <2>6. f[m] \notin Word
    BY <2>1
  <2>. QED BY <2>3, <2>4, <2>5, <2>6, StepWord
<1>9. f \in [0..n -> Word]
  BY <1>8, <1>7
<1>. QED BY <1>6, <1>9 DEF Runs, f, n

(* A check sequence is a word, whatever it is taken of.                    *)
LEMMA ChecksequenceWord ==
  ASSUME NEW data \in Seq(Byte)
  PROVE  checksequence_calc(data) \in Word
<1>. DEFINE n == Len(data)
            m == n % 65536
<1>1. n \in Nat
  OBVIOUS
<1>. HIDE DEF n
<1>2. m \in 0..n
  BY <1>1
<1>. HIDE DEF m
<1>3. Fcs(data) \in [0..n -> Word]
  BY FcsRuns DEF Runs, n
<1>. DEFINE c == Fcs(data)[m]
<1>4. c \in Word
  BY <1>2, <1>3
<1>. HIDE DEF c
<1>5. 65535 - c \in Nat /\ 65535 - c <= 65535
  BY <1>4, WordNat
<1>. QED BY <1>5, InWord DEF checksequence_calc, c, m, n

(* Up to 65535 bytes, whose number the size parameter holds, it covers     *)
(* all of them.                                                            *)
LEMMA CoversAll ==
  ASSUME NEW data \in Seq(Byte), Len(data) <= 65535
  PROVE  checksequence_calc(data) = 65535 - Fcs(data)[Len(data)]
<1>1. Len(data) \in Nat
  OBVIOUS
<1>2. Len(data) % 65536 = Len(data)
  BY <1>1
<1>. QED BY <1>2 DEF checksequence_calc

(* Contents that differ in one byte have different check sequences, as     *)
(* long as 16 bits count them, which those of a valid frame are: how       *)
(* valid_frame, which compares the last check sequence of a frame, finds   *)
(* any byte the line has changed between the flags.                        *)
THEOREM OneByteTells ==
  ASSUME NEW c \in Seq(Byte), NEW d \in Seq(Byte), Len(c) = Len(d), Len(c) <= 65535,
         NEW i \in 1..Len(c), c[i] # d[i],
         \A k \in 1..Len(c) : k # i => c[k] = d[k]
  PROVE  checksequence_calc(c) # checksequence_calc(d)
<1>. DEFINE f == Fcs(c)
            g == Fcs(d)
            n == Len(c)
            before == {k \in 0..(i - 1) : f[k] # g[k]}
            after == {k \in i..n : f[k] = g[k]}
<1>0. n \in Nat /\ i \in 1..n
  OBVIOUS
<1>1. /\ f \in [0..n -> Word] /\ g \in [0..n -> Word] /\ f[0] = 65535 /\ g[0] = 65535
      /\ \A k \in 1..n : f[k] = Step(f[k - 1], c[k]) /\ g[k] = Step(g[k - 1], d[k])
  BY FcsRuns DEF Runs
<1>2. \A k \in 1..n : c[k] \in Byte /\ d[k] \in Byte
  OBVIOUS
<1>. HIDE DEF f, g
<1>3. ASSUME before # {} PROVE FALSE
  <2>0. before \subseteq Nat
    BY <1>0
  <2>. HIDE DEF before
  <2>1. PICK m \in before : \A k \in before : m <= k
    BY ONLY <1>3, <2>0, LeastNatural
  <2>. USE DEF before
  <2>2. m # 0
    BY <1>1, <2>1
  <2>3. m \in 1..n /\ m # i /\ m - 1 \in 0..(i - 1) /\ m - 1 \notin before
    BY <1>0, <2>1, <2>2
  <2>4. f[m - 1] = g[m - 1]
    BY <2>3
  <2>. QED BY <1>1, <2>1, <2>3, <2>4
<1>4. ASSUME after # {} PROVE FALSE
  <2>0. after \subseteq Nat
    BY <1>0
  <2>. HIDE DEF after
  <2>1. PICK m \in after : \A k \in after : m <= k
    BY ONLY <1>4, <2>0, LeastNatural
  <2>. USE DEF after
  <2>2. m \in 1..n /\ m - 1 \in 0..n /\ f[m] = g[m] /\ c[m] \in Byte /\ d[m] \in Byte
    BY <1>0, <1>2, <2>1
  <2>3. f[m - 1] \in Word /\ g[m - 1] \in Word
    BY <1>1, <2>2
  <2>4. CASE m = i
    <3>1. i - 1 \in 0..(i - 1)
      BY <1>0
    <3>2. f[m - 1] = g[m - 1]
      BY <1>3, <2>4, <3>1
    <3>. QED BY <1>1, <2>2, <2>3, <2>4, <3>2, StepTellsByte
  <2>5. CASE m # i
    <3>1. m - 1 \in i..n /\ m - 1 \notin after
      BY <1>0, <2>1, <2>5
    <3>2. f[m - 1] # g[m - 1] /\ c[m] = d[m]
      BY <2>2, <2>5, <3>1
    <3>. QED BY <1>1, <2>2, <2>3, <3>2, StepTellsFcs
  <2>. QED BY <2>4, <2>5
<1>5. f[n] # g[n] /\ f[n] \in Word /\ g[n] \in Word
  BY <1>0, <1>1, <1>4
<1>6. 65535 - f[n] # 65535 - g[n]
  BY <1>5, WordNat
<1>. QED BY <1>6, CoversAll DEF f, g
=============================================================================
