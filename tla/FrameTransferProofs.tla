------------------------- MODULE FrameTransferProofs -------------------------
(***************************************************************************)
(* What FrameTransfer promises, for frames of every length and content: a  *)
(* frame the line has spoilt is refused, so is the client's own, and what  *)
(* is accepted is decoded as it was meant.                                 *)
(*                                                                         *)
(* Both sides write whole frames (Sealed), with a header and information   *)
(* where the parser looks for them (Headed).  The line makes no valid      *)
(* frame of a whole one: OneByteTells of module ChecksequenceProofs for a  *)
(* damaged byte, the length otherwise.  The invariant says of the line     *)
(* that it is a whole frame as long as it is intact and no valid frame     *)
(* once it is not.                                                         *)
(***************************************************************************)
EXTENDS FrameTransfer, ChecksequenceProofs

-----------------------------------------------------------------------------
(* What is known of any buffer that is accepted.                           *)

(* The unsigned subtractions of valid_frame do not wrap: an accepted frame *)
(* is long enough for what they take from its length, and what is left for *)
(* the information is nothing or at least its check sequence and a byte.   *)
LEMMA AcceptedLengths ==
  ASSUME NEW buffer \in Seq(Byte), valid_frame(buffer)
  PROVE  /\ addr_offset(buffer) \in {1, 3}
         /\ Len(buffer) \in Nat
         /\ \/ Len(buffer) = Information(buffer) + 1
            \/ Len(buffer) >= Information(buffer) + 4
<1> DEFINE rest == Len(buffer) - addr_offset(buffer) - 9
<1>1. /\ addr_offset(buffer) \in {1, 3}
      /\ Len(buffer) >= 10
      /\ addr_offset(buffer) = 3 => Len(buffer) >= 12
      /\ InformationAccepted(buffer, rest)
  BY DEF valid_frame, LongEnough
<1>2. Len(buffer) \in Nat
  BY LenProperties
<1>3. rest \in Nat
  BY <1>1, <1>2, SMT
<1>4. rest = 0 \/ rest \notin {1, 2}
  BY <1>1 DEF InformationAccepted
<1>5. rest = 0 \/ rest >= 3
  <2> HIDE DEF rest
  <2> QED BY <1>3, <1>4, SMT
<1>6. Information(buffer) = addr_offset(buffer) + 8
  BY DEF Information
<1> QED BY <1>1, <1>2, <1>5, <1>6, SMT

(* Of a frame with nothing behind its header, the byte that should start   *)
(* the LLC header is the closing flag, which is no LLC header: the         *)
(* comparison that reads on byte by byte stops there.                      *)
LEMMA FlagStopsLlc ==
  ASSUME NEW buffer \in Seq(Byte), valid_frame(buffer),
         Len(buffer) = Information(buffer) + 1
  PROVE  At(buffer, Information(buffer)) # 230
<1>1. At(buffer, Len(buffer) - 1) = 126
  BY DEF valid_frame
<1>2. Information(buffer) = Len(buffer) - 1
  BY AcceptedLengths, SMT DEF Information
<1>3. At(buffer, Information(buffer)) = 126
  BY <1>1, <1>2
<1> QED BY <1>3, SMT

(* hdlc_frame_parse reads no byte beyond its buffer, whatever the buffer   *)
(* holds: the checks of valid_frame are enough for all its accesses.       *)
THEOREM EveryReadInside == line \in Seq(Byte) => ReadsInside
<1> SUFFICES ASSUME line \in Seq(Byte), valid_frame(line)
             PROVE  LastRead(line) < Len(line)
  BY DEF ReadsInside
<1> DEFINE o == Information(line)
<1>1. /\ o \in Nat /\ Len(line) \in Nat
      /\ Len(line) = o + 1 \/ Len(line) >= o + 4
  BY AcceptedLengths, SMT DEF Information
<1>2. CASE Len(line) = o + 1
  <2>1. At(line, o) # 230
    BY <1>2, FlagStopsLlc
  <2>2. LastRead(line) \in {o - 3, o}
    BY <2>1 DEF LastRead
  <2> QED BY <1>1, <1>2, <2>2, SMT
<1>3. CASE Len(line) >= o + 4
  <2>1. LastRead(line) \in {o - 3, o, o + 1, o + 2}
    BY DEF LastRead
  <2> QED BY <1>1, <1>3, <2>1, SMT
<1> QED BY <1>1, <1>2, <1>3

-----------------------------------------------------------------------------
(* Whole frames.                                                           *)

(* A check sequence is two bytes, the low one first.                       *)
LEMMA CheckedIs ==
  ASSUME NEW x \in Seq(Byte)
  PROVE  /\ Checked(x) \in Seq(Byte)
         /\ Len(Checked(x)) = Len(x) + 2
         /\ \A i \in 1..Len(x) : Checked(x)[i] = x[i]
         /\ Checked(x)[Len(x) + 1] = Lo(checksequence_calc(x))
         /\ Checked(x)[Len(x) + 2] = Hi(checksequence_calc(x))
<1>. DEFINE cs == checksequence_calc(x)
<1>1. Lo(cs) \in Byte /\ Hi(cs) \in Byte
  BY ChecksequenceWord, WordBits
<1>. HIDE DEF cs
<1>2. <<Lo(cs), Hi(cs)>> \in Seq(Byte)
  BY <1>1
<1>. QED BY <1>2, ConcatProperties DEF Checked, cs

(* A flag on either side.                                                  *)
LEMMA FlaggedIs ==
  ASSUME NEW x \in Seq(Byte)
  PROVE  /\ <<126>> \o x \o <<126>> \in Seq(Byte)
         /\ Len(<<126>> \o x \o <<126>>) = Len(x) + 2
         /\ (<<126>> \o x \o <<126>>)[1] = 126
         /\ \A i \in 1..Len(x) : (<<126>> \o x \o <<126>>)[i + 1] = x[i]
         /\ (<<126>> \o x \o <<126>>)[Len(x) + 2] = 126
<1>1. <<126>> \in Seq(Byte)
  BY DEF Byte
<1>. DEFINE y == <<126>> \o x
<1>2. /\ y \in Seq(Byte) /\ Len(y) = Len(x) + 1 /\ y[1] = 126
      /\ \A i \in 1..Len(x) : y[i + 1] = x[i]
  BY <1>1, ConcatProperties
<1>. HIDE DEF y
<1>. DEFINE z == y \o <<126>>
<1>3. /\ z \in Seq(Byte) /\ Len(z) = Len(y) + 1
      /\ \A i \in 1..Len(y) : z[i] = y[i]
      /\ z[Len(y) + 1] = 126
  BY <1>1, <1>2, ConcatProperties
<1>. HIDE DEF z
<1>4. z[1] = 126
  BY <1>2, <1>3
<1>5. \A i \in 1..Len(x) : z[i + 1] = x[i]
  BY <1>2, <1>3
<1>. QED BY <1>2, <1>3, <1>4, <1>5 DEF y, z

(* Twelve bits of a number, and the twelve that two bytes of a header say. *)
Twelve(n) == n % 4096

Claims(hi, lo) == 256 * (hi % 16) + lo

(* A whole frame: flags, twelve bits of its length, and a check sequence   *)
(* that fits what it covers.                                               *)
Sealed(buffer) ==
  /\ buffer \in Seq(Byte)
  /\ Len(buffer) >= 10
  /\ At(buffer, 0) = 126
  /\ At(buffer, Len(buffer) - 1) = 126
  /\ Claims(buffer[2], buffer[3]) = Twelve(Len(buffer) - 2)
  /\ ContentChecked(buffer)

(* Twelve bits hold the length of all but the longest.                     *)
LEMMA TwelveBits ==
  ASSUME NEW n \in Nat
  PROVE  /\ Twelve(n) \in Nat /\ Twelve(n) <= 4095
         /\ n <= 4095 => Twelve(n) = n
         /\ n > 4095 => Twelve(n) <= n - 4096
BY SMT DEF Twelve

LEMMA SealedLength ==
  ASSUME NEW b, Sealed(b), Len(b) <= 4097
  PROVE  Claims(b[2], b[3]) = Len(b) - 2
<1>1. Len(b) \in Nat /\ Len(b) >= 10
  BY LenProperties DEF Sealed
<1>. DEFINE n == Len(b) - 2
<1>2. n \in Nat /\ n <= 4095
  BY <1>1
<1>3. Claims(b[2], b[3]) = Twelve(n)
  BY DEF Sealed
<1>. HIDE DEF n
<1>4. Claims(b[2], b[3]) = n
  BY <1>2, <1>3, TwelveBits
<1>. QED BY <1>4 DEF n

(* What starts with the right length, checked and flagged, is a whole      *)
(* frame.                                                                  *)
LEMMA SealedIs ==
  ASSUME NEW x \in Seq(Byte), Len(x) >= 6, Claims(x[1], x[2]) = Twelve(Len(x) + 2)
  PROVE  LET b == <<126>> \o Checked(x) \o <<126>>
         IN  /\ Sealed(b)
             /\ Len(b) = Len(x) + 4
             /\ \A i \in 1..Len(x), j \in Nat : j = i + 1 => b[j] = x[i]
             /\ Content(b) = x
<1>. DEFINE c == Checked(x)
            b == <<126>> \o c \o <<126>>
<1>1. /\ c \in Seq(Byte) /\ Len(c) = Len(x) + 2
      /\ \A i \in 1..Len(x) : c[i] = x[i]
      /\ c[Len(x) + 1] = Lo(checksequence_calc(x))
      /\ c[Len(x) + 2] = Hi(checksequence_calc(x))
  BY CheckedIs
<1>2. /\ b \in Seq(Byte) /\ Len(b) = Len(c) + 2 /\ b[1] = 126 /\ b[Len(c) + 2] = 126
      /\ \A i \in 1..Len(c) : b[i + 1] = c[i]
  BY <1>1, FlaggedIs
<1>. HIDE DEF b, c
<1>3. Len(x) \in Nat
  OBVIOUS
<1>4. Len(b) = Len(x) + 4 /\ Len(b) >= 10
  BY <1>1, <1>2, <1>3
<1>5. \A i \in 1..Len(x) : b[i + 1] = x[i]
  BY <1>1, <1>2, <1>3
<1>6. \A i \in 1..Len(x), j \in Nat : j = i + 1 => b[j] = x[i]
  BY <1>5
<1>7. Content(b) = x
  <2>1. Content(b) \in Seq(Byte) /\ Len(Content(b)) = Len(x)
        /\ \A i \in 1..Len(x) : Content(b)[i] = b[i + 1]
    BY <1>2, <1>3, <1>4, SubSeqProperties DEF Content
  <2>. QED BY <1>5, <2>1, SeqEqual
<1>8. At(b, 0) = 126 /\ At(b, Len(b) - 1) = 126
  BY <1>1, <1>2, <1>3, <1>4 DEF At
<1>9. Claims(b[2], b[3]) = Twelve(Len(b) - 2)
  <2>1. 1 \in 1..Len(x) /\ 2 \in 1..Len(x) /\ 2 = 1 + 1 /\ 3 = 2 + 1 /\ 2 \in Nat /\ 3 \in Nat
    BY <1>3
  <2>2. b[2] = x[1] /\ b[3] = x[2]
    BY <1>6, <2>1
  <2>3. Len(b) - 2 = Len(x) + 2
    BY <1>3, <1>4
  <2>. QED BY <2>2, <2>3
<1>10. ContentChecked(b)
  <2>. DEFINE cs == checksequence_calc(x)
  <2>0. b[(Len(x) + 1) + 1] = Lo(cs) /\ b[(Len(x) + 2) + 1] = Hi(cs)
    <3>. HIDE DEF cs
    <3>1. Len(x) + 1 \in 1..Len(c) /\ Len(x) + 2 \in 1..Len(c)
      BY <1>1, <1>3
    <3>. QED BY <1>1, <1>2, <3>1 DEF cs
  <2>1. b[Len(x) + 2] = Lo(cs) /\ b[Len(x) + 3] = Hi(cs)
    <3>1. (Len(x) + 1) + 1 = Len(x) + 2 /\ (Len(x) + 2) + 1 = Len(x) + 3
      BY <1>3
    <3>. QED BY <2>0, <3>1
  <2>2. cs = 256 * Hi(cs) + Lo(cs) /\ Hi(cs) \in Nat /\ Lo(cs) \in Nat
    BY ChecksequenceWord, WordBits, ByteNat
  <2>3. At(b, Len(b) - 3) = b[Len(x) + 2] /\ At(b, Len(b) - 3 + 1) = b[Len(x) + 3]
    BY <1>3, <1>4 DEF At
  <2>. HIDE DEF cs
  <2>4. Checksum(b, Len(b) - 3) = 256 * b[Len(x) + 3] + b[Len(x) + 2]
    BY <2>3 DEF Checksum
  <2>5. Checksum(b, Len(b) - 3) = cs
    BY <2>1, <2>2, <2>4
  <2>. QED BY <1>7, <2>5 DEF ContentChecked, cs
<1>11. Sealed(b)
  BY <1>2, <1>4, <1>8, <1>9, <1>10 DEF Sealed
<1>. QED BY <1>4, <1>6, <1>7, <1>11 DEF b, c

-----------------------------------------------------------------------------
(* No spoilt frame is valid.                                               *)

(* What of valid_frame the refusals below need.                            *)
LEMMA ValidParts ==
  ASSUME NEW b, valid_frame(b)
  PROVE  /\ Len(b) >= 10
         /\ At(b, 0) = 126
         /\ At(b, Len(b) - 1) = 126
         /\ Claims(b[2], b[3]) = Len(b) - 2
         /\ ContentChecked(b)
         /\ At(b, 3) % 2 = 1
BY DEF valid_frame, Claims, At

(* A valid frame is no longer than twelve bits say.                        *)
LEMMA ValidLength ==
  ASSUME NEW b \in Seq(Byte), valid_frame(b)
  PROVE  Len(b) <= 4097
<1>1. Len(b) \in Nat /\ Len(b) >= 10 /\ Claims(b[2], b[3]) = Len(b) - 2
  BY ValidParts
<1>2. b[2] \in Byte /\ b[3] \in Byte
  BY <1>1
<1>3. \A hi \in Byte, lo \in Byte : Claims(hi, lo) <= 4095
  BY DEF Byte, Claims
<1>4. Claims(b[2], b[3]) <= 4095
  BY <1>2, <1>3
<1>. QED BY <1>1, <1>4

(* What the last check sequence covers.                                    *)
LEMMA ContentIs ==
  ASSUME NEW b \in Seq(Byte), Len(b) >= 10
  PROVE  /\ Content(b) \in Seq(Byte)
         /\ Len(Content(b)) = Len(b) - 4
         /\ \A i \in 1..(Len(b) - 4), j \in Nat : j = i + 1 => Content(b)[i] = b[j]
BY SubSeqProperties DEF Content

(* Two bytes make one word.                                                *)
LEMMA SameWord ==
  ASSUME NEW h1 \in Byte, NEW l1 \in Byte, NEW h2 \in Byte, NEW l2 \in Byte,
         256 * h1 + l1 = 256 * h2 + l2
  PROVE  h1 = h2 /\ l1 = l2
BY DEF Byte

(* A whole frame with one byte of it changed is refused: a flag, by its    *)
(* value; a byte of the content, since the check sequence tells; a byte of *)
(* the check sequence, since the content has not changed.                  *)
LEMMA DamageRefused ==
  ASSUME NEW b, Sealed(b), NEW i \in 1..Len(b), NEW byte \in Byte, byte # b[i]
  PROVE  [b EXCEPT ![i] = byte] \in Seq(Byte) /\ ~valid_frame([b EXCEPT ![i] = byte])
<1>. DEFINE d == [b EXCEPT ![i] = byte]
<1>1. b \in Seq(Byte) /\ Len(b) \in Nat /\ Len(b) >= 10
  BY DEF Sealed
<1>2. d \in Seq(Byte) /\ Len(d) = Len(b) /\ d[i] = byte
      /\ \A k \in 1..Len(b) : k # i => d[k] = b[k]
  BY <1>1, ExceptSeq
<1>. HIDE DEF d
<1>3. SUFFICES ASSUME valid_frame(d) PROVE FALSE
  BY <1>2 DEF d
<1>4. d[1] = 126 /\ d[Len(b)] = 126 /\ b[1] = 126 /\ b[Len(b)] = 126
  BY <1>1, <1>2, <1>3, ValidParts DEF Sealed, At
<1>5. i # 1 /\ i # Len(b)
  BY <1>2, <1>4
<1>. DEFINE n == Len(b)
            lo(x) == x[n - 2]
            hi(x) == x[n - 1]
<1>6. /\ checksequence_calc(Content(b)) = 256 * hi(b) + lo(b)
      /\ checksequence_calc(Content(d)) = 256 * hi(d) + lo(d)
  <2>1. /\ Checksum(b, n - 3) = checksequence_calc(Content(b))
        /\ Checksum(d, n - 3) = checksequence_calc(Content(d))
    BY <1>2, <1>3, ValidParts DEF Sealed, ContentChecked
  <2>2. (n - 3) + 1 = n - 2 /\ ((n - 3) + 1) + 1 = n - 1
    BY <1>1
  <2>. QED BY <2>1, <2>2 DEF Checksum, At
<1>7. hi(b) \in Byte /\ lo(b) \in Byte /\ hi(d) \in Byte /\ lo(d) \in Byte
  BY <1>1, <1>2
<1>8. /\ Content(b) \in Seq(Byte) /\ Content(d) \in Seq(Byte)
      /\ Len(Content(b)) = n - 4 /\ Len(Content(d)) = n - 4
      /\ \A k \in 1..(n - 4), j \in Nat : j = k + 1 => Content(b)[k] = b[j] /\ Content(d)[k] = d[j]
  BY <1>1, <1>2, ContentIs
<1>9. CASE i \in 2..(n - 3)
  <2>. DEFINE k0 == i - 1
  <2>1. k0 \in 1..(n - 4) /\ i = k0 + 1 /\ i \in Nat
    BY <1>1, <1>9
  <2>2. Content(b)[k0] # Content(d)[k0]
    BY <1>2, <1>8, <2>1
  <2>3. ASSUME NEW k \in 1..(n - 4), k # k0
        PROVE  Content(b)[k] = Content(d)[k]
    <3>. DEFINE j == k + 1
    <3>1. j \in 1..n /\ j # i /\ j \in Nat /\ j = k + 1
      BY <1>1, <2>1, <2>3
    <3>. HIDE DEF j
    <3>. QED BY <1>2, <1>8, <3>1
  <2>. DEFINE cb == Content(b)
              cd == Content(d)
  <2>. HIDE DEF k0, cb, cd
  <2>4. /\ cb \in Seq(Byte) /\ cd \in Seq(Byte) /\ Len(cb) = Len(cd) /\ k0 \in 1..Len(cb)
        /\ cb[k0] # cd[k0] /\ \A k \in 1..Len(cb) : k # k0 => cb[k] = cd[k]
    BY <1>8, <2>1, <2>2, <2>3 DEF cb, cd
  <2>7. Len(cb) <= 65535
    <3>1. Len(d) <= 4097
      BY <1>2, <1>3, ValidLength
    <3>. QED BY <1>1, <1>2, <1>8, <3>1 DEF cb
  <2>6. checksequence_calc(cb) # checksequence_calc(cd)
    BY <2>4, <2>7, OneByteTells
  <2>5. hi(b) = hi(d) /\ lo(b) = lo(d)
    BY <1>1, <1>2, <1>9
  <2>. QED BY <1>6, <2>5, <2>6 DEF cb, cd
<1>10. CASE i \in {n - 2, n - 1}
  <2>1. Content(b) = Content(d)
    <3>1. ASSUME NEW k \in 1..(n - 4)
          PROVE  Content(b)[k] = Content(d)[k]
      <4>. DEFINE j == k + 1
      <4>1. j \in 1..n /\ j # i /\ j \in Nat /\ j = k + 1
        BY <1>1, <1>10
      <4>. HIDE DEF j
      <4>. QED BY <1>2, <1>8, <4>1
    <3>. QED BY <1>8, <3>1, SeqEqual
  <2>2. 256 * hi(b) + lo(b) = 256 * hi(d) + lo(d)
    BY <1>6, <2>1
  <2>3. hi(b) # hi(d) \/ lo(b) # lo(d)
    BY <1>1, <1>2, <1>10
  <2>. HIDE DEF lo, hi
  <2>. QED BY <1>7, <2>2, <2>3, SameWord
<1>. QED BY <1>1, <1>5, <1>9, <1>10

(* A whole frame with its end missing is refused: its length is wrong, or, *)
(* where the length is cut itself, the address is none of an answer.       *)
LEMMA CutRefused ==
  ASSUME NEW b, Sealed(b), Len(b) <= 4097 \/ At(b, 3) % 2 = 0, NEW n \in 1..(Len(b) - 1)
  PROVE  SubSeq(b, 1, n) \in Seq(Byte) /\ ~valid_frame(SubSeq(b, 1, n))
<1>. DEFINE d == SubSeq(b, 1, n)
<1>1. b \in Seq(Byte) /\ Len(b) \in Nat /\ Len(b) >= 10
  BY DEF Sealed
<1>2. d \in Seq(Byte) /\ Len(d) = n /\ \A k \in 1..n : d[k] = b[k]
  BY <1>1, SubSeqProperties
<1>. HIDE DEF d
<1>3. ASSUME valid_frame(d) PROVE FALSE
  <2>1. n >= 10 /\ d[2] = b[2] /\ d[3] = b[3] /\ d[4] = b[4]
    BY <1>2, <1>3, ValidParts
  <2>2. Claims(d[2], d[3]) = n - 2 /\ d[4] % 2 = 1
    BY <1>2, <1>3, ValidParts DEF At
  <2>3. CASE Len(b) <= 4097
    <3>1. Claims(b[2], b[3]) = Len(b) - 2
      BY <2>3, SealedLength
    <3>. QED BY <1>1, <2>1, <2>2, <3>1
  <2>4. CASE At(b, 3) % 2 = 0
    BY <2>1, <2>2, <2>4 DEF At
  <2>. QED BY <2>3, <2>4
<1>. QED BY <1>2, <1>3 DEF d

(* A whole frame with something behind it is refused: its length is wrong. *)
LEMMA JoinRefused ==
  ASSUME NEW a, Sealed(a), Len(a) <= 4097, NEW b \in Seq(Byte), b # <<>>
  PROVE  a \o b \in Seq(Byte) /\ ~valid_frame(a \o b)
<1>. DEFINE d == a \o b
<1>1. a \in Seq(Byte) /\ Len(a) \in Nat /\ Len(a) >= 10 /\ Len(b) \in Nat /\ Len(b) # 0
  BY EmptySeq DEF Sealed
<1>2. d \in Seq(Byte) /\ Len(d) = Len(a) + Len(b) /\ \A k \in 1..Len(a) : d[k] = a[k]
  BY <1>1, ConcatProperties
<1>. HIDE DEF d
<1>3. ASSUME valid_frame(d) PROVE FALSE
  <2>. DEFINE m == Len(a)
  <2>1. m \in Nat /\ m >= 10 /\ \A k \in 1..m : d[k] = a[k]
    BY ONLY <1>1, <1>2
  <2>. HIDE DEF m
  <2>2. 2 \in 1..m /\ 3 \in 1..m
    BY ONLY <2>1
  <2>3. d[2] = a[2] /\ d[3] = a[3]
    BY ONLY <2>1, <2>2
  <2>4. Claims(d[2], d[3]) = Len(d) - 2
    BY <1>3, ValidParts
  <2>5. Claims(a[2], a[3]) = Len(a) - 2
    BY SealedLength
  <2>. QED BY <1>1, <1>2, <2>3, <2>4, <2>5
<1>. QED BY <1>2, <1>3 DEF d

-----------------------------------------------------------------------------
(* Headers and information.                                                *)

(* Where the bytes of a concatenation are.                                 *)
LEMMA ConcatIs ==
  ASSUME NEW x \in Seq(Byte), NEW y \in Seq(Byte)
  PROVE  /\ x \o y \in Seq(Byte)
         /\ Len(x \o y) = Len(x) + Len(y)
         /\ \A i \in 1..Len(x) : (x \o y)[i] = x[i]
         /\ \A i \in 1..Len(y), k \in Nat : k = i + Len(x) => (x \o y)[k] = y[i]
<1>. DEFINE z == x \o y
<1>0. Len(x) \in Nat /\ Len(y) \in Nat
  OBVIOUS
<1>1. z \in Seq(Byte) /\ Len(z) = Len(x) + Len(y)
  BY ConcatProperties
<1>2. \A k \in 1..(Len(x) + Len(y)) : z[k] = IF k <= Len(x) THEN x[k] ELSE y[k - Len(x)]
  BY ConcatProperties
<1>. HIDE DEF z
<1>3. \A i \in 1..Len(x) : z[i] = x[i]
  BY <1>0, <1>2
<1>4. ASSUME NEW i \in 1..Len(y), NEW k \in Nat, k = i + Len(x)
      PROVE  z[k] = y[i]
  <2>1. k \in 1..(Len(x) + Len(y)) /\ ~(k <= Len(x)) /\ k - Len(x) = i
    BY <1>0, <1>4
  <2>. QED BY <1>2, <2>1
<1>. QED BY <1>1, <1>3, <1>4 DEF z

(* A header: two parts and a byte.                                         *)
LEMMA ThreeParts ==
  ASSUME NEW x \in Seq(Byte), NEW y \in Seq(Byte), NEW byte \in Byte
  PROVE  LET h == x \o y \o <<byte>>
         IN  /\ h \in Seq(Byte)
             /\ Len(h) = Len(x) + Len(y) + 1
             /\ \A i \in 1..Len(x) : h[i] = x[i]
             /\ \A i \in 1..Len(y), k \in Nat : k = i + Len(x) => h[k] = y[i]
             /\ h[Len(h)] = byte
<1>. DEFINE u == x \o y
            z == <<byte>>
            h == u \o z
<1>0. Len(x) \in Nat /\ Len(y) \in Nat
  OBVIOUS
<1>1. /\ u \in Seq(Byte) /\ Len(u) = Len(x) + Len(y)
      /\ \A i \in 1..Len(x) : u[i] = x[i]
      /\ \A i \in 1..Len(y), k \in Nat : k = i + Len(x) => u[k] = y[i]
  BY ConcatIs
<1>2. z \in Seq(Byte) /\ Len(z) = 1 /\ z[1] = byte
  OBVIOUS
<1>. HIDE DEF u, z
<1>3. /\ h \in Seq(Byte) /\ Len(h) = Len(u) + Len(z)
      /\ \A i \in 1..Len(u) : h[i] = u[i]
      /\ \A i \in 1..Len(z), k \in Nat : k = i + Len(u) => h[k] = z[i]
  BY <1>1, <1>2, ConcatIs
<1>. HIDE DEF h
<1>4. Len(h) = Len(x) + Len(y) + 1
  BY <1>0, <1>1, <1>2, <1>3
<1>5. \A i \in 1..Len(x) : h[i] = x[i]
  BY <1>0, <1>1, <1>3
<1>6. ASSUME NEW i \in 1..Len(y), NEW k \in Nat, k = i + Len(x)
      PROVE  h[k] = y[i]
  <2>1. k \in 1..Len(u)
    BY <1>0, <1>1, <1>6
  <2>. QED BY <1>1, <1>3, <1>6, <2>1
<1>7. h[Len(h)] = byte
  <2>1. 1 \in 1..Len(z) /\ Len(h) \in Nat /\ Len(h) = 1 + Len(u)
    BY <1>0, <1>1, <1>2, <1>3
  <2>. QED BY <1>2, <1>3, <2>1
<1>. QED BY <1>3, <1>4, <1>5, <1>6, <1>7 DEF h, u, z

(* A whole frame with the header h and then info, as both sides write it.  *)
Headed(b, h, info) ==
  /\ Sealed(b)
  /\ \A i \in 1..Len(h), j \in Nat : j = i + 1 => b[j] = h[i]
  /\ b[Len(h) + 2] = Lo(checksequence_calc(h))
  /\ b[Len(h) + 3] = Hi(checksequence_calc(h))
  /\ Len(b) = IF info = <<>> THEN Len(h) + 4 ELSE Len(h) + Len(info) + 6
  /\ \A i \in 1..Len(info), j \in Nat : j = i + Len(h) + 3 => b[j] = info[i]

(* A header that is checked and flagged,                                   *)
LEMMA BareIs ==
  ASSUME NEW h \in Seq(Byte), Len(h) >= 6, Claims(h[1], h[2]) = Twelve(Len(h) + 2)
  PROVE  Headed(<<126>> \o Checked(h) \o <<126>>, h, <<>>)
<1>. DEFINE b == <<126>> \o Checked(h) \o <<126>>
<1>1. /\ Sealed(b) /\ Len(b) = Len(h) + 4
      /\ \A i \in 1..Len(h), j \in Nat : j = i + 1 => b[j] = h[i]
  BY SealedIs
<1>2. /\ Checked(h) \in Seq(Byte) /\ Len(Checked(h)) = Len(h) + 2
      /\ Checked(h)[Len(h) + 1] = Lo(checksequence_calc(h))
      /\ Checked(h)[Len(h) + 2] = Hi(checksequence_calc(h))
  BY CheckedIs
<1>. DEFINE c == Checked(h)
<1>3. \A i \in 1..Len(c), j \in Nat : j = i + 1 => b[j] = c[i]
  BY <1>2, FlaggedIs
<1>4. Len(h) \in Nat
  OBVIOUS
<1>5. /\ Len(h) + 1 \in 1..Len(c) /\ Len(h) + 2 \in 1..Len(c)
      /\ Len(h) + 2 = (Len(h) + 1) + 1 /\ Len(h) + 3 = (Len(h) + 2) + 1
      /\ Len(h) + 2 \in Nat /\ Len(h) + 3 \in Nat
  BY <1>2, <1>4
<1>. HIDE DEF b, c
<1>6. b[Len(h) + 2] = c[Len(h) + 1] /\ b[Len(h) + 3] = c[Len(h) + 2]
  BY <1>3, <1>5
<1>7. Len(<<>>) = 0
  OBVIOUS
<1>8. Headed(b, h, <<>>)
  BY <1>1, <1>2, <1>6, <1>7 DEF Headed, c
<1>. QED BY <1>8 DEF b

(* and one with information behind it and a second check sequence.         *)
LEMMA WithInformationIs ==
  ASSUME NEW h \in Seq(Byte), Len(h) >= 6, NEW info \in Seq(Byte), info # <<>>,
         Claims(h[1], h[2]) = Twelve(Len(h) + Len(info) + 4)
  PROVE  Headed(<<126>> \o Checked(Checked(h) \o info) \o <<126>>, h, info)
<1>. DEFINE c == Checked(h)
            x == c \o info
            b == <<126>> \o Checked(x) \o <<126>>
<1>1. /\ c \in Seq(Byte) /\ Len(c) = Len(h) + 2
      /\ \A i \in 1..Len(h) : c[i] = h[i]
      /\ c[Len(h) + 1] = Lo(checksequence_calc(h))
      /\ c[Len(h) + 2] = Hi(checksequence_calc(h))
  BY CheckedIs
<1>. HIDE DEF c
<1>2. /\ x \in Seq(Byte) /\ Len(x) = Len(c) + Len(info)
      /\ \A i \in 1..Len(c) : x[i] = c[i]
      /\ \A i \in 1..Len(info), k \in Nat : k = i + Len(c) => x[k] = info[i]
  BY <1>1, ConcatIs
<1>. HIDE DEF x
<1>3. Len(h) \in Nat /\ Len(info) \in Nat
  OBVIOUS
<1>4. Len(x) = Len(h) + Len(info) + 2 /\ Len(x) >= 6
  BY <1>1, <1>2, <1>3
<1>5. \A i \in 1..Len(h) : x[i] = h[i]
  BY <1>1, <1>2, <1>3
<1>6. x[1] = h[1] /\ x[2] = h[2]
  BY <1>3, <1>5
<1>7. Claims(x[1], x[2]) = Twelve(Len(x) + 2)
  <2>1. Len(x) + 2 = Len(h) + Len(info) + 4
    BY <1>3, <1>4
  <2>. QED BY <1>6, <2>1
<1>8. /\ Sealed(b) /\ Len(b) = Len(x) + 4
      /\ \A i \in 1..Len(x), j \in Nat : j = i + 1 => b[j] = x[i]
  BY <1>2, <1>4, <1>7, SealedIs
<1>. HIDE DEF b
<1>9. \A i \in 1..Len(h), j \in Nat : j = i + 1 => b[j] = h[i]
  BY <1>3, <1>4, <1>5, <1>8
<1>10. b[Len(h) + 2] = Lo(checksequence_calc(h)) /\ b[Len(h) + 3] = Hi(checksequence_calc(h))
  <2>1. /\ Len(h) + 1 \in 1..Len(c) /\ Len(h) + 2 \in 1..Len(c)
        /\ Len(h) + 1 \in 1..Len(x) /\ Len(h) + 2 \in 1..Len(x)
        /\ Len(h) + 2 = (Len(h) + 1) + 1 /\ Len(h) + 3 = (Len(h) + 2) + 1
        /\ Len(h) + 2 \in Nat /\ Len(h) + 3 \in Nat
    BY <1>1, <1>3, <1>4
  <2>2. b[Len(h) + 2] = x[Len(h) + 1] /\ b[Len(h) + 3] = x[Len(h) + 2]
    BY <1>8, <2>1
  <2>. QED BY <1>1, <1>2, <2>1, <2>2
<1>11. ASSUME NEW i \in 1..Len(info), NEW j \in Nat, j = i + Len(h) + 3
       PROVE  b[j] = info[i]
  <2>. DEFINE k == j - 1
  <2>1. k \in Nat /\ k = i + Len(c) /\ k \in 1..Len(x) /\ j = k + 1
    BY <1>1, <1>3, <1>4, <1>11
  <2>. HIDE DEF k
  <2>. QED BY <1>2, <1>8, <2>1
<1>12. Len(b) = Len(h) + Len(info) + 6
  BY <1>3, <1>4, <1>8
<1>13. Headed(b, h, info)
  BY <1>8, <1>9, <1>10, <1>11, <1>12 DEF Headed
<1>. QED BY <1>13 DEF b, x, c

(* The fields of a frame.                                                  *)
LEMMA FramePayload ==
  ASSUME NEW f \in HdlcFrames
  PROVE  /\ f.cmd \in Byte /\ f.client \in Byte /\ f.rrr \in Byte /\ f.sss \in Byte
         /\ f.physical \in Word /\ f.logical \in Word
         /\ f.payload \in Seq(Byte) /\ Len(f.payload) \in Nat
<1>1. f.cmd \in Byte /\ f.client \in Byte /\ f.rrr \in Byte /\ f.sss \in Byte
  BY DEF HdlcFrames
<1>2. f.physical \in Word /\ f.logical \in Word
  BY DEF HdlcFrames
<1>3. f.payload \in Seq(Byte)
  BY DEF HdlcFrames
<1>4. Len(f.payload) \in Nat
  BY <1>3
<1>. QED BY <1>1, <1>2, <1>3, <1>4

(* The bytes of an address; the odd one ends it.                           *)
LEMMA AddressBytes ==
  ASSUME NEW a \in Nat
  PROVE  /\ Upper(a) \in Byte /\ Lower(a) \in Byte /\ Ends(Lower(a)) \in Byte
         /\ Upper(a) % 2 = 0 /\ Lower(a) % 2 = 0 /\ Ends(Lower(a)) % 2 = 1
<1>1. (a \div 128) % 128 \in 0..127 /\ a % 128 \in 0..127
  OBVIOUS
<1>2. \A x \in 0..127 : /\ 2 * x \in Byte /\ 2 * x + 1 \in Byte
                         /\ (2 * x) % 2 = 0 /\ (2 * x + 1) % 2 = 1
  BY DEF Byte
<1>. QED BY <1>1, <1>2 DEF Upper, Lower, Ends

(* A length in two bytes, of which the first starts with 1010: whole, or   *)
(* twelve bits of it.                                                      *)
LEMMA SizeBytes ==
  ASSUME NEW size \in Nat, size <= 4095
  PROVE  /\ 160 + Hi(size) \in Byte /\ Lo(size) \in Byte
         /\ Claims(160 + Hi(size), Lo(size)) = size
<1>. DEFINE h == Hi(size)
            l == Lo(size)
<1>1. h \in 0..15 /\ l \in 0..255 /\ size = 256 * h + l
  BY DEF Hi, Lo
<1>. HIDE DEF h, l
<1>2. (160 + h) % 16 = h
  BY <1>1
<1>3. 160 + h \in Byte /\ l \in Byte
  BY <1>1 DEF Byte
<1>. QED BY <1>1, <1>2, <1>3 DEF h, l, Claims

LEMMA CutSizeBytes ==
  ASSUME NEW size \in Nat
  PROVE  /\ 160 + (Hi(size) % 16) \in Byte /\ Lo(size) \in Byte
         /\ Claims(160 + (Hi(size) % 16), Lo(size)) = Twelve(size)
<1>. DEFINE h == Hi(size)
            l == Lo(size)
            k == h % 16
            m == h \div 16
<1>1. h \in Nat /\ l \in 0..255 /\ size = 256 * h + l
  BY DEF Hi, Lo
<1>. HIDE DEF h, l
<1>2. k \in 0..15 /\ m \in Nat /\ h = 16 * m + k
  BY <1>1
<1>. HIDE DEF k, m
<1>3. (160 + k) % 16 = k
  BY <1>2
<1>4. size = 4096 * m + (256 * k + l) /\ 256 * k + l \in 0..4095
  BY <1>1, <1>2
<1>5. Twelve(size) = 256 * k + l
  <2>. DEFINE r == 256 * k + l
  <2>1. r \in 0..4095 /\ size = 4096 * m + r
    BY <1>4
  <2>. HIDE DEF r
  <2>2. size % 4096 = r
    BY <1>2, <2>1
  <2>. QED BY <2>2 DEF Twelve, r
<1>6. 160 + k \in Byte /\ l \in Byte
  BY <1>1, <1>2 DEF Byte
<1>. QED BY <1>3, <1>5, <1>6 DEF h, l, k, Claims

-----------------------------------------------------------------------------
(* The frames of the client.                                               *)

(* What is known of them.                                                  *)
LEMMA CommandIs ==
  ASSUME NEW f \in CommandFrames
  PROVE  /\ f \in HdlcFrames
         /\ f.cmd \in {COMMAND_I, COMMAND_SNRM, COMMAND_DISC}
         /\ f.cmd = COMMAND_I => f.payload # <<>>
BY DEF CommandFrames

(* Their control byte.                                                     *)
LEMMA ControlBytes ==
  ASSUME NEW f \in HdlcFrames, f.cmd \in {COMMAND_I, COMMAND_SNRM, COMMAND_DISC}
  PROVE  ControlByte(f) \in Byte
<1>1. f.cmd \in {0, 131, 67} /\ f.sss \in Nat /\ f.rrr \in Nat
  BY FramePayload, ByteNat DEF COMMAND_I, COMMAND_SNRM, COMMAND_DISC
<1>2. CASE f.cmd = 0
  <2>1. ControlByte(f) = (16 + ((f.sss + 1) % 8) * 32) + (f.rrr % 8) * 2
    BY <1>2 DEF ControlByte, PollFinal
  <2>2. (f.sss + 1) % 8 \in 0..7 /\ f.rrr % 8 \in 0..7
    BY <1>1
  <2>3. \A s \in 0..7, r \in 0..7 : (16 + s * 32) + r * 2 \in 0..255
    OBVIOUS
  <2>. QED BY <2>1, <2>2, <2>3 DEF Byte
<1>3. CASE f.cmd = 131
  BY <1>3 DEF ControlByte, PollFinal, Byte
<1>4. CASE f.cmd = 67
  BY <1>4 DEF ControlByte, PollFinal, Byte
<1>. QED BY <1>1, <1>2, <1>3, <1>4

(* The header of a client's frame.                                         *)
CommandHead(f) ==
  <<160 + (Hi(FrameSize(f)) % 16), Lo(FrameSize(f))>> \o Addresses(f) \o <<ControlByte(f)>>

CommandLlc(f) == IF f.cmd = COMMAND_I THEN <<230, 230, 0>> ELSE <<>>

CommandInfo(f) == CommandLlc(f) \o f.payload

(* Their LLC header.                                                       *)
LEMMA CommandLlcIs ==
  ASSUME NEW f \in CommandFrames
  PROVE  /\ CommandLlc(f) \in Seq(Byte)
         /\ Len(CommandLlc(f)) = IF f.cmd = COMMAND_I THEN 3 ELSE 0
<1>1. <<230, 230, 0>> \in Seq(Byte) /\ Len(<<230, 230, 0>>) = 3
  BY DEF Byte
<1>2. <<>> \in Seq(Byte) /\ Len(<<>>) = 0
  OBVIOUS
<1>. QED BY <1>1, <1>2 DEF CommandLlc

(* Twelve of sixteen bits are twelve of all.                               *)
LEMMA SixteenTwelve ==
  ASSUME NEW k \in Nat
  PROVE  k % 65536 \in Nat /\ Twelve(k % 65536) = Twelve(k)
<1>. DEFINE h == k \div 65536
            l == k % 65536
            m == l \div 4096
            r == l % 4096
<1>1. h \in Nat /\ l \in Nat /\ k = 65536 * h + l
  OBVIOUS
<1>2. m \in Nat /\ r \in 0..4095 /\ l = 4096 * m + r
  BY <1>1
<1>3. k = 4096 * (16 * h + m) + r /\ 16 * h + m \in Nat
  <2>. HIDE DEF h, l, m, r
  <2>. QED BY <1>1, <1>2
<1>4. k % 4096 = r
  <2>. DEFINE q == 16 * h + m
  <2>. HIDE DEF h, l, m, r
  <2>1. q \in Nat /\ k = 4096 * q + r
    BY <1>3
  <2>. HIDE DEF q
  <2>. QED BY <1>2, <2>1
<1>. QED BY <1>1, <1>4 DEF Twelve

(* What follows the header, nothing when there is no payload.              *)
LEMMA CommandInfoIs ==
  ASSUME NEW f \in CommandFrames
  PROVE  /\ CommandInfo(f) \in Seq(Byte)
         /\ Len(CommandInfo(f)) = Len(f.payload) + (IF f.cmd = COMMAND_I THEN 3 ELSE 0)
         /\ (CommandInfo(f) = <<>>) <=> (f.payload = <<>>)
<1>. DEFINE n == Len(f.payload)
            m == Len(CommandLlc(f))
            info == CommandInfo(f)
<1>0. f.payload \in Seq(Byte) /\ n \in Nat /\ (f.cmd = COMMAND_I => f.payload # <<>>)
  BY CommandIs, FramePayload
<1>1. /\ CommandLlc(f) \in Seq(Byte) /\ m \in {0, 3}
      /\ m = IF f.cmd = COMMAND_I THEN 3 ELSE 0
  BY CommandLlcIs
<1>2. info \in Seq(Byte) /\ Len(info) = m + n
  BY <1>0, <1>1, ConcatIs DEF CommandInfo
<1>3. n = 0 <=> f.payload = <<>>
  BY <1>0, EmptySeq
<1>4. Len(info) = 0 <=> info = <<>>
  BY <1>2, EmptySeq
<1>. HIDE DEF n, m, info
<1>5. info = <<>> <=> f.payload = <<>>
  BY <1>0, <1>1, <1>2, <1>3, <1>4
<1>6. Len(info) = n + (IF f.cmd = COMMAND_I THEN 3 ELSE 0)
  BY <1>0, <1>1, <1>2
<1>. QED BY <1>2, <1>5, <1>6 DEF n, info

(* The length they claim is a number of 16 bits, of which twelve are sent. *)
LEMMA CommandSize ==
  ASSUME NEW f \in CommandFrames
  PROVE  /\ FrameSize(f) \in Nat
         /\ f.payload = <<>> => FrameSize(f) = 10
         /\ f.payload # <<>> => Twelve(FrameSize(f)) = Twelve(Len(CommandInfo(f)) + 12)
<1>. DEFINE k == Len(CommandInfo(f)) + 12
            n == Len(f.payload)
<1>1. k \in Nat /\ k = 10 + n + 2 + (IF f.cmd = COMMAND_I THEN 3 ELSE 0)
  <2>1. Len(CommandInfo(f)) = n + (IF f.cmd = COMMAND_I THEN 3 ELSE 0)
    BY CommandInfoIs
  <2>2. n \in Nat
    BY CommandIs, FramePayload
  <2>. HIDE DEF n
  <2>. QED BY <2>1, <2>2
<1>4. FrameSize(f) = IF f.payload = <<>> THEN 10
                     ELSE (10 + n + 2 + (IF f.cmd = COMMAND_I THEN 3 ELSE 0)) % 65536
  BY DEF FrameSize
<1>. HIDE DEF k, n
<1>2. FrameSize(f) = IF f.payload = <<>> THEN 10 ELSE k % 65536
  BY <1>1, <1>4
<1>3. k % 65536 \in Nat /\ Twelve(k % 65536) = Twelve(k)
  BY <1>1, SixteenTwelve
<1>. QED BY <1>2, <1>3 DEF k

(* Their header: eight bytes, the third, an address byte, even.            *)
LEMMA CommandHeadIs ==
  ASSUME NEW f \in CommandFrames
  PROVE  /\ CommandHead(f) \in Seq(Byte)
         /\ Len(CommandHead(f)) = 8
         /\ CommandHead(f)[3] % 2 = 0
         /\ Claims(CommandHead(f)[1], CommandHead(f)[2]) = Twelve(FrameSize(f))
<1>. DEFINE size == FrameSize(f)
<1>1. size \in Nat
  BY CommandSize
<1>. HIDE DEF size
<1>2. /\ 160 + (Hi(size) % 16) \in Byte /\ Lo(size) \in Byte
      /\ Claims(160 + (Hi(size) % 16), Lo(size)) = Twelve(size)
  BY <1>1, CutSizeBytes
<1>3. f \in HdlcFrames /\ f.logical \in Nat /\ f.physical \in Nat /\ f.client \in Nat
  BY CommandIs, FramePayload, WordNat, ByteNat
<1>4. /\ Upper(f.logical) \in Byte /\ Lower(f.logical) \in Byte
      /\ Upper(f.physical) \in Byte /\ Ends(Lower(f.physical)) \in Byte
      /\ Upper(f.logical) % 2 = 0
  BY <1>3, AddressBytes
<1>5. Client(f) \in Byte
  <2>1. (2 * f.client) % 256 \in 0..254
    BY <1>3
  <2>. QED BY <2>1 DEF Client, Ends, Byte
<1>6. ControlByte(f) \in Byte
  BY <1>3, CommandIs, ControlBytes
<1>. DEFINE x == <<160 + (Hi(size) % 16), Lo(size)>>
            y == Addresses(f)
            h == CommandHead(f)
<1>7. x \in Seq(Byte) /\ Len(x) = 2 /\ Claims(x[1], x[2]) = Twelve(size)
  BY <1>2
<1>8. y \in Seq(Byte) /\ Len(y) = 5 /\ y[1] % 2 = 0
  BY <1>4, <1>5 DEF Addresses
<1>. HIDE DEF x, y
<1>11. h = x \o y \o <<ControlByte(f)>>
  BY DEF CommandHead, x, y, size
<1>. HIDE DEF h
<1>9. /\ h \in Seq(Byte) /\ Len(h) = Len(x) + Len(y) + 1
      /\ \A i \in 1..Len(x) : h[i] = x[i]
      /\ \A i \in 1..Len(y), k \in Nat : k = i + Len(x) => h[k] = y[i]
  <2>1. x \in Seq(Byte) /\ y \in Seq(Byte)
    BY <1>7, <1>8
  <2>. QED BY ONLY <2>1, <1>6, <1>11, ThreeParts
<1>10. h[1] = x[1] /\ h[2] = x[2] /\ h[3] = y[1] /\ Len(h) = 8
  BY <1>7, <1>8, <1>9
<1>. QED BY <1>7, <1>8, <1>9, <1>10 DEF size, h

(* hdlc_frame_serialize makes a whole frame of them,                       *)
LEMMA CommandHeaded ==
  ASSUME NEW f \in CommandFrames
  PROVE  Headed(hdlc_frame_serialize(f), CommandHead(f), CommandInfo(f))
<1>. DEFINE h == CommandHead(f)
            llc == CommandLlc(f)
            info == CommandInfo(f)
<1>1. h \in Seq(Byte) /\ Len(h) = 8 /\ Claims(h[1], h[2]) = Twelve(FrameSize(f))
  BY CommandHeadIs
<1>2. info = llc \o f.payload
  BY DEF CommandInfo
<1>4. f.payload \in Seq(Byte) /\ llc \in Seq(Byte)
  BY CommandIs, FramePayload, CommandLlcIs
<1>5. hdlc_frame_serialize(f) =
        <<126>> \o (IF f.payload = <<>> THEN (Checked(h) \o llc) \o f.payload
                   ELSE Checked((Checked(h) \o llc) \o f.payload)) \o <<126>>
  BY DEF hdlc_frame_serialize, CommandHead, CommandLlc
<1>. HIDE DEF h, llc, info
<1>3. Checked(h) \in Seq(Byte) /\ Len(h) >= 6
  BY <1>1, CheckedIs
<1>6. (Checked(h) \o llc) \o f.payload = Checked(h) \o info
  <2>. DEFINE c == Checked(h)
              p == f.payload
  <2>1. c \in Seq(Byte) /\ llc \in Seq(Byte) /\ p \in Seq(Byte) /\ info = llc \o p
    BY <1>2, <1>3, <1>4
  <2>. HIDE DEF c, p
  <2>2. (c \o llc) \o p = c \o (llc \o p)
    BY <2>1, ConcatAssociative
  <2>. QED BY <2>1, <2>2 DEF c, p
<1>7. /\ info \in Seq(Byte)
      /\ (info = <<>>) <=> (f.payload = <<>>)
  BY CommandInfoIs DEF info
<1>10. /\ f.payload = <<>> => FrameSize(f) = 10
       /\ f.payload # <<>> => Twelve(FrameSize(f)) = Twelve(Len(info) + 12)
  BY CommandSize DEF info
<1>8. CASE f.payload = <<>>
  <2>1. info = <<>> /\ Checked(h) \o info = Checked(h)
    BY <1>3, <1>7, <1>8, ConcatEmptySeq
  <2>2. Claims(h[1], h[2]) = Twelve(Len(h) + 2)
    BY <1>1, <1>8, <1>10
  <2>3. Headed(<<126>> \o Checked(h) \o <<126>>, h, <<>>)
    BY ONLY <1>1, <1>3, <2>2, BareIs
  <2>. QED BY <1>2, <1>5, <1>6, <1>8, <2>1, <2>3 DEF h, info
<1>9. CASE f.payload # <<>>
  <2>1. info # <<>> /\ Len(info) \in Nat
    BY <1>7, <1>9
  <2>2. Claims(h[1], h[2]) = Twelve(Len(h) + Len(info) + 4)
    <3>1. Len(h) + Len(info) + 4 = Len(info) + 12
      BY <1>1, <2>1
    <3>. QED BY <1>1, <1>9, <1>10, <3>1
  <2>3. Headed(<<126>> \o Checked(Checked(h) \o info) \o <<126>>, h, info)
    BY ONLY <1>1, <1>3, <1>7, <2>1, <2>2, WithInformationIs
  <2>. QED BY <1>2, <1>5, <1>6, <1>9, <2>3 DEF h, info
<1>. QED BY <1>8, <1>9

(* which the client itself refuses, its first address byte being even, and *)
(* in which both check sequences are right.                                *)
LEMMA CommandFrameIs ==
  ASSUME NEW f \in CommandFrames
  PROVE  /\ Sealed(hdlc_frame_serialize(f))
         /\ At(hdlc_frame_serialize(f), 3) % 2 = 0
         /\ ~valid_frame(hdlc_frame_serialize(f))
         /\ Len(hdlc_frame_serialize(f)) - 2 =
              IF f.payload = <<>> THEN 10
              ELSE Len(f.payload) + 12 + (IF f.cmd = COMMAND_I THEN 3 ELSE 0)
         /\ Checksum(hdlc_frame_serialize(f), 9)
              = checksequence_calc(SubSeq(hdlc_frame_serialize(f), 2, 9))
<1>. DEFINE b == hdlc_frame_serialize(f)
            h == CommandHead(f)
<1>1. /\ h \in Seq(Byte) /\ Len(h) = 8 /\ h[3] % 2 = 0
  BY CommandHeadIs
<1>2. /\ Sealed(b)
      /\ \A i \in 1..8, j \in Nat : j = i + 1 => b[j] = h[i]
      /\ b[10] = Lo(checksequence_calc(h)) /\ b[11] = Hi(checksequence_calc(h))
      /\ Len(b) = IF CommandInfo(f) = <<>> THEN 12 ELSE Len(CommandInfo(f)) + 14
  <2>1. Headed(b, h, CommandInfo(f))
    BY CommandHeaded
  <2>. HIDE DEF b, h
  <2>2. Len(h) = 8 /\ 8 + 2 = 10 /\ 8 + 3 = 11
    BY <1>1
  <2>3. Len(CommandInfo(f)) \in Nat
    <3>1. CommandInfo(f) \in Seq(Byte)
      BY CommandInfoIs
    <3>. QED BY <3>1
  <2>4. Len(b) = IF CommandInfo(f) = <<>> THEN 12 ELSE Len(CommandInfo(f)) + 14
    BY <2>1, <2>2, <2>3 DEF Headed
  <2>. QED BY <2>1, <2>2, <2>4 DEF Headed
<1>. HIDE DEF b, h
<1>8. Len(b) - 2 = IF f.payload = <<>> THEN 10
                   ELSE Len(f.payload) + 12 + (IF f.cmd = COMMAND_I THEN 3 ELSE 0)
  <2>1. /\ Len(CommandInfo(f)) = Len(f.payload) + (IF f.cmd = COMMAND_I THEN 3 ELSE 0)
        /\ (CommandInfo(f) = <<>>) <=> (f.payload = <<>>)
    BY CommandInfoIs
  <2>2. Len(f.payload) \in Nat
    BY CommandIs, FramePayload
  <2>. DEFINE p == Len(f.payload)
              q == Len(CommandInfo(f))
              k == IF f.cmd = COMMAND_I THEN 3 ELSE 0
  <2>3. /\ q = p + k /\ p \in Nat /\ k \in {0, 3}
        /\ Len(b) = IF f.payload = <<>> THEN 12 ELSE q + 14
    BY <1>2, <2>1, <2>2
  <2>. HIDE DEF p, q, k
  <2>4. Len(b) - 2 = IF f.payload = <<>> THEN 10 ELSE p + 12 + k
    BY <2>3
  <2>. QED BY <2>4 DEF p, k
<1>3. b \in Seq(Byte) /\ Len(b) \in Nat /\ Len(b) >= 10
  BY <1>2 DEF Sealed
<1>4. b[4] = h[3]
  BY <1>2
<1>5. ~valid_frame(b)
  BY <1>1, <1>4, ValidParts DEF At
<1>6. SubSeq(b, 2, 9) = h
  <2>1. /\ SubSeq(b, 2, 9) \in Seq(Byte) /\ Len(SubSeq(b, 2, 9)) = 8
        /\ \A i \in 1..8 : SubSeq(b, 2, 9)[i] = b[i + 1]
    BY <1>3, SubSeqProperties
  <2>2. \A i \in 1..8 : SubSeq(b, 2, 9)[i] = h[i]
    BY <1>2, <2>1
  <2>. QED BY <1>1, <2>1, <2>2, SeqEqual
<1>7. Checksum(b, 9) = checksequence_calc(h)
  <2>. DEFINE cs == checksequence_calc(h)
  <2>1. cs = 256 * Hi(cs) + Lo(cs)
    BY <1>1, ChecksequenceWord, WordBits
  <2>2. Checksum(b, 9) = 256 * b[11] + b[10]
    BY DEF Checksum, At
  <2>. HIDE DEF cs
  <2>. QED BY <1>2, <2>1, <2>2 DEF cs
<1>9. At(b, 3) % 2 = 0
  BY <1>1, <1>4 DEF At
<1>. QED BY <1>2, <1>5, <1>6, <1>7, <1>8, <1>9 DEF b

-----------------------------------------------------------------------------
(* The frames of a meter.                                                  *)

(* The address of the client, of one byte.                                 *)
LEMMA ClientByte ==
  ASSUME NEW f \in HdlcFrames
  PROVE  Client(f) \in Byte /\ (f.client <= 127 => Client(f) \div 2 = f.client)
<1>. DEFINE c == f.client
<1>1. c \in Nat
  BY FramePayload, ByteNat
<1>2. Client(f) = ((2 * c) % 256) + 1
  BY DEF Client, Ends
<1>. HIDE DEF c
<1>3. (2 * c) % 256 \in 0..254
  BY <1>1
<1>4. ASSUME c <= 127 PROVE (((2 * c) % 256) + 1) \div 2 = c
  <2>1. (2 * c) % 256 = 2 * c
    BY <1>1, <1>4
  <2>. QED BY <1>1, <2>1
<1>5. Client(f) \in Byte
  BY <1>2, <1>3 DEF Byte
<1>. QED BY <1>2, <1>4, <1>5 DEF c

(* The frames of a meter.                                                  *)
LEMMA AnswerIs ==
  ASSUME NEW f \in AnswerFrames
  PROVE  /\ f \in HdlcFrames
         /\ f.cmd \in {0, 99, 15, 135}
         /\ f.client \in 0..127 /\ f.rrr \in 0..7 /\ f.sss \in 0..7
         /\ f.physical \in Nat /\ f.physical <= 16383
         /\ f.logical \in Nat /\ f.logical <= 16383
         /\ f.payload \in Seq(Byte) /\ Len(f.payload) \in Nat /\ Len(f.payload) <= 4080
<1>1. f \in HdlcFrames
  BY DEF AnswerFrames
<1>2. f.client \in Nat /\ f.rrr \in Nat /\ f.sss \in Nat /\ f.physical \in Nat /\ f.logical \in Nat
  BY <1>1, FramePayload, ByteNat, WordNat
<1>3. f.cmd \in {0, 99, 15, 135}
  BY DEF AnswerFrames, RESPONSE_I, RESPONSE_UA, RESPONSE_DM, RESPONSE_FRMR
<1>4. f.client <= 127 /\ f.rrr <= 7 /\ f.sss <= 7
  BY DEF AnswerFrames
<1>5. f.physical <= 16383 /\ f.logical <= 16383 /\ Len(f.payload) <= 4080
  BY DEF AnswerFrames
<1>6. f.client \in 0..127 /\ f.rrr \in 0..7 /\ f.sss \in 0..7
  BY <1>2, <1>4
<1>. QED BY <1>1, <1>2, <1>3, <1>5, <1>6, FramePayload

(* The address of the client in them.                                      *)
LEMMA AnswerClient ==
  ASSUME NEW f \in AnswerFrames
  PROVE  Client(f) \in Byte /\ Client(f) \div 2 = f.client
<1>1. f \in HdlcFrames
  BY AnswerIs
<1>2. f.client <= 127
  BY DEF AnswerFrames
<1>. QED BY <1>1, <1>2, ClientByte

MeterInfo(f) == IF f.cmd = RESPONSE_I THEN <<230, 231, 0>> \o f.payload ELSE f.payload

(* What their information is: a payload, behind an LLC header in an I      *)
(* frame.                                                                  *)
LEMMA MeterInfoIs ==
  ASSUME NEW f \in AnswerFrames
  PROVE  /\ MeterInfo(f) \in Seq(Byte)
         /\ Len(MeterInfo(f)) = Len(f.payload) + (IF f.cmd = 0 THEN 3 ELSE 0)
         /\ f.cmd = 0 =>
              /\ MeterInfo(f)[1] = 230 /\ MeterInfo(f)[2] = 231 /\ MeterInfo(f)[3] = 0
              /\ \A i \in 1..Len(f.payload), k \in Nat :
                   k = i + 3 => MeterInfo(f)[k] = f.payload[i]
         /\ f.cmd # 0 => MeterInfo(f) = f.payload
<1>. DEFINE p == f.payload
            llc == <<230, 231, 0>>
<1>1. p \in Seq(Byte) /\ Len(p) \in Nat
  BY AnswerIs
<1>2. /\ llc \in Seq(Byte) /\ Len(llc) = 3
      /\ llc[1] = 230 /\ llc[2] = 231 /\ llc[3] = 0
  BY DEF Byte
<1>3. CASE f.cmd = 0
  <2>1. MeterInfo(f) = llc \o p
    BY <1>3 DEF MeterInfo, RESPONSE_I
  <2>. DEFINE z == llc \o p
  <2>2. /\ z \in Seq(Byte) /\ Len(z) = Len(llc) + Len(p)
        /\ \A i \in 1..Len(llc) : z[i] = llc[i]
        /\ \A i \in 1..Len(p), k \in Nat : k = i + Len(llc) => z[k] = p[i]
    <3>1. llc \in Seq(Byte) /\ p \in Seq(Byte)
      BY <1>1, <1>2
    <3>. HIDE DEF llc, p
    <3>. HIDE DEF z
    <3>2. z = llc \o p
      BY DEF z
    <3>. QED BY ONLY <3>1, <3>2, ConcatIs
  <2>. HIDE DEF z
  <2>. HIDE DEF llc, p
  <2>3. 1 \in 1..Len(llc) /\ 2 \in 1..Len(llc) /\ 3 \in 1..Len(llc)
    BY <1>2
  <2>4. z[1] = 230 /\ z[2] = 231 /\ z[3] = 0
    BY <1>2, <2>2, <2>3
  <2>5. \A i \in 1..Len(p), k \in Nat : k = i + 3 => z[k] = p[i]
    BY <1>2, <2>2
  <2>6. Len(z) = Len(p) + 3
    BY <1>1, <1>2, <2>2
  <2>. QED BY <1>3, <2>1, <2>2, <2>4, <2>5, <2>6 DEF z, p
<1>4. CASE f.cmd # 0
  BY <1>1, <1>4 DEF MeterInfo, RESPONSE_I
<1>. QED BY <1>3, <1>4

MeterServer(f, length) ==
  IF length = 4 THEN SubSeq(SourceFirst(f), 2, 5)
  ELSE <<Lower(f.logical), Ends(Lower(f.physical))>>

(* Their server address, of which the last byte alone is odd.              *)
LEMMA MeterServerIs ==
  ASSUME NEW f \in AnswerFrames, NEW length \in {2, 4}
  PROVE  /\ MeterServer(f, length) \in Seq(Byte)
         /\ Len(MeterServer(f, length)) = length
         /\ \A i \in 1..length : MeterServer(f, length)[i] % 2 = (IF i = length THEN 1 ELSE 0)
         /\ length = 4 =>
              /\ MeterServer(f, length)[1] = Upper(f.logical)
              /\ MeterServer(f, length)[2] = Lower(f.logical)
              /\ MeterServer(f, length)[3] = Upper(f.physical)
              /\ MeterServer(f, length)[4] = Ends(Lower(f.physical))
<1>. DEFINE a == Upper(f.logical)
            b == Lower(f.logical)
            c == Upper(f.physical)
            d == Ends(Lower(f.physical))
            e == Client(f)
            s == MeterServer(f, length)
<1>1. /\ a \in Byte /\ b \in Byte /\ c \in Byte /\ d \in Byte
      /\ a % 2 = 0 /\ b % 2 = 0 /\ c % 2 = 0 /\ d % 2 = 1
  BY AnswerIs, AddressBytes
<1>2. e \in Byte
  BY AnswerIs, ClientByte
<1>3. SourceFirst(f) = <<e, a, b, c, d>>
  BY DEF SourceFirst
<1>4. s = IF length = 4 THEN SubSeq(SourceFirst(f), 2, 5) ELSE <<b, d>>
  BY DEF MeterServer
<1>. HIDE DEF a, b, c, d, e, s
<1>5. CASE length = 4
  <2>. DEFINE t == <<e, a, b, c, d>>
  <2>1. /\ t \in Seq(Byte) /\ Len(t) = 5
        /\ t[2] = a /\ t[3] = b /\ t[4] = c /\ t[5] = d
    BY <1>1, <1>2
  <2>2. s = SubSeq(t, 2, 5)
    BY <1>3, <1>4, <1>5
  <2>. HIDE DEF t
  <2>3. s \in Seq(Byte) /\ Len(s) = 4 /\ \A i \in 1..4 : s[i] = t[i + 1]
    <3>1. \A i \in 2..5 : t[i] \in Byte
      <4>1. \A i \in 1..Len(t) : t[i] \in Byte
        BY <2>1, ElementOfSeq
      <4>2. \A i \in 2..5 : i \in 1..Len(t)
        BY <2>1
      <4>. QED BY <4>1, <4>2
    <3>4. 2 \in Int /\ 5 \in Int
      OBVIOUS
    <3>2. SubSeq(t, 2, 5) \in Seq(Byte)
      BY ONLY <3>1, <3>4, SubSeqProperties
    <3>3. Len(SubSeq(t, 2, 5)) = 4 /\ \A i \in 1..4 : SubSeq(t, 2, 5)[i] = t[i + 1]
      BY ONLY <3>1, <3>4, SubSeqProperties
    <3>. QED BY <2>2, <3>2, <3>3
  <2>4. s[1] = a /\ s[2] = b /\ s[3] = c /\ s[4] = d
    BY <2>1, <2>3
  <2>5. \A i \in 1..4 : s[i] % 2 = (IF i = 4 THEN 1 ELSE 0)
    <3>1. \A i \in 1..4 : i = 1 \/ i = 2 \/ i = 3 \/ i = 4
      OBVIOUS
    <3>. QED BY <1>1, <2>4, <3>1
  <2>. QED BY <1>5, <2>3, <2>4, <2>5 DEF s, a, b, c, d
<1>6. CASE length = 2
  <2>1. s = <<b, d>>
    BY <1>4, <1>6
  <2>2. s \in Seq(Byte) /\ Len(s) = 2 /\ s[1] = b /\ s[2] = d
    BY <1>1, <2>1
  <2>3. \A i \in 1..2 : s[i] % 2 = (IF i = 2 THEN 1 ELSE 0)
    BY <1>1, <2>2
  <2>. QED BY <1>6, <2>2, <2>3 DEF s
<1>. QED BY <1>5, <1>6

MeterControl(f) == PollFinal(f.cmd) + (IF f.cmd = RESPONSE_I THEN 32 * f.rrr + 2 * f.sss ELSE 0)

(* Their control byte, and what is read out of it.                         *)
LEMMA MeterControlIs ==
  ASSUME NEW f \in AnswerFrames
  PROVE  /\ MeterControl(f) \in Byte
         /\ (MeterControl(f) - 16) % 2 = 0 <=> f.cmd = 0
         /\ f.cmd = 0 =>
              /\ ((MeterControl(f) - 16) \div 32) % 8 = f.rrr
              /\ ((MeterControl(f) - 16) \div 2) % 8 = f.sss
         /\ f.cmd # 0 => MeterControl(f) - 16 = f.cmd
<1>1. f.cmd \in {0, 99, 15, 135} /\ f.rrr \in 0..7 /\ f.sss \in 0..7
  BY AnswerIs
<1>2. CASE f.cmd = 0
  <2>. DEFINE r == f.rrr
              s == f.sss
  <2>1. MeterControl(f) = 16 + (32 * r + 2 * s)
    BY <1>2 DEF MeterControl, PollFinal, RESPONSE_I
  <2>2. r \in 0..7 /\ s \in 0..7
    BY <1>1
  <2>. HIDE DEF r, s
  <2>. DEFINE x == 32 * r + 2 * s
  <2>3. x \in 0..238 /\ (16 + x) - 16 = x
    BY <2>2
  <2>4. x % 2 = 0
    BY <2>2
  <2>5. (x \div 32) % 8 = r
    BY <2>2
  <2>6. (x \div 2) % 8 = s
    <3>1. x \div 2 = 16 * r + s
      BY <2>2
    <3>2. (16 * r + s) % 8 = s
      BY <2>2
    <3>. QED BY <3>1, <3>2
  <2>. HIDE DEF x
  <2>7. MeterControl(f) = 16 + x
    BY <2>1 DEF x
  <2>8. MeterControl(f) - 16 = x /\ MeterControl(f) \in 0..255
    BY <2>3, <2>7
  <2>. QED BY <1>2, <2>4, <2>5, <2>6, <2>8 DEF Byte, r, s
<1>3. CASE f.cmd = 99
  BY <1>3 DEF MeterControl, PollFinal, RESPONSE_I, Byte
<1>4. CASE f.cmd = 15
  BY <1>4 DEF MeterControl, PollFinal, RESPONSE_I, Byte
<1>5. CASE f.cmd = 135
  BY <1>5 DEF MeterControl, PollFinal, RESPONSE_I, Byte
<1>. QED BY <1>1, <1>2, <1>3, <1>4, <1>5

MeterSize(f, length) ==
  6 + length + (IF MeterInfo(f) = <<>> THEN 0 ELSE Len(MeterInfo(f)) + 2)

MeterHead(f, length) ==
  <<160 + Hi(MeterSize(f, length)), Lo(MeterSize(f, length)), Client(f)>>
    \o MeterServer(f, length) \o <<MeterControl(f)>>

(* Their header.                                                           *)
LEMMA MeterHeadIs ==
  ASSUME NEW f \in AnswerFrames, NEW length \in {2, 4}
  PROVE  /\ MeterHead(f, length) \in Seq(Byte)
         /\ Len(MeterHead(f, length)) = length + 4
         /\ Claims(MeterHead(f, length)[1], MeterHead(f, length)[2]) = MeterSize(f, length)
         /\ MeterHead(f, length)[3] = Client(f)
         /\ \A i \in 1..length, k \in Nat :
              k = i + 3 => MeterHead(f, length)[k] = MeterServer(f, length)[i]
         /\ MeterHead(f, length)[length + 4] = MeterControl(f)
<1>. DEFINE size == MeterSize(f, length)
            x == <<160 + Hi(size), Lo(size), Client(f)>>
            y == MeterServer(f, length)
            c == MeterControl(f)
            h == MeterHead(f, length)
<1>1. size \in Nat /\ size <= 4095
  <2>. DEFINE n == Len(MeterInfo(f))
              m == Len(f.payload)
  <2>1. m \in Nat /\ m <= 4080 /\ n = m + (IF f.cmd = 0 THEN 3 ELSE 0)
    <3>1. m \in Nat /\ m <= 4080
      BY AnswerIs
    <3>2. n = m + (IF f.cmd = 0 THEN 3 ELSE 0)
      BY MeterInfoIs
    <3>. QED BY <3>1, <3>2
  <2>2. size = 6 + length + (IF MeterInfo(f) = <<>> THEN 0 ELSE n + 2)
    BY DEF MeterSize
  <2>. HIDE DEF n, m, size
  <2>3. n \in Nat /\ n <= 4083
    BY <2>1
  <2>. QED BY <2>2, <2>3
<1>. HIDE DEF size
<1>2. /\ 160 + Hi(size) \in Byte /\ Lo(size) \in Byte
      /\ Claims(160 + Hi(size), Lo(size)) = size
  BY <1>1, SizeBytes
<1>3. Client(f) \in Byte
  BY AnswerIs, ClientByte
<1>4. /\ x \in Seq(Byte) /\ Len(x) = 3
      /\ x[1] = 160 + Hi(size) /\ x[2] = Lo(size) /\ x[3] = Client(f)
  BY <1>2, <1>3
<1>5. c \in Byte
  BY MeterControlIs
<1>6. y \in Seq(Byte) /\ Len(y) = length
  BY MeterServerIs
<1>7. h = x \o y \o <<c>>
  BY DEF MeterHead, size
<1>. HIDE DEF x, y, c, h
<1>8. /\ h \in Seq(Byte) /\ Len(h) = Len(x) + Len(y) + 1
      /\ \A i \in 1..Len(x) : h[i] = x[i]
      /\ \A i \in 1..Len(y), k \in Nat : k = i + Len(x) => h[k] = y[i]
      /\ h[Len(h)] = c
  <2>1. x \in Seq(Byte) /\ y \in Seq(Byte)
    BY <1>4, <1>6
  <2>. QED BY ONLY <2>1, <1>5, <1>7, ThreeParts
<1>9. Len(h) = length + 4
  BY <1>4, <1>6, <1>8
<1>10. h[1] = 160 + Hi(size) /\ h[2] = Lo(size) /\ h[3] = Client(f)
  <2>1. 1 \in 1..Len(x) /\ 2 \in 1..Len(x) /\ 3 \in 1..Len(x)
    BY <1>4
  <2>. QED BY <1>4, <1>8, <2>1
<1>11. \A i \in 1..length, k \in Nat : k = i + 3 => h[k] = y[i]
  BY <1>4, <1>6, <1>8
<1>12. h[length + 4] = c
  BY <1>8, <1>9
<1>13. Claims(h[1], h[2]) = size
  BY <1>2, <1>10
<1>. QED BY <1>8, <1>9, <1>10, <1>11, <1>12, <1>13 DEF size, h, y, c

(* A frame of a meter is whole.                                            *)
LEMMA MeterHeaded ==
  ASSUME NEW f \in AnswerFrames, NEW length \in {2, 4}
  PROVE  /\ Headed(MeterFrame(f, length), MeterHead(f, length), MeterInfo(f))
         /\ Len(MeterFrame(f, length)) <= 4097
<1>. DEFINE h == MeterHead(f, length)
            info == MeterInfo(f)
<1>1. MeterFrame(f, length) =
        <<126>> \o (IF info = <<>> THEN Checked(h) ELSE Checked(Checked(h) \o info)) \o <<126>>
  BY DEF MeterFrame, MeterHead, MeterInfo, MeterSize, MeterServer, MeterControl
<1>2. /\ h \in Seq(Byte) /\ Len(h) = length + 4
      /\ Claims(h[1], h[2]) = 6 + length + (IF info = <<>> THEN 0 ELSE Len(info) + 2)
  BY MeterHeadIs DEF MeterSize
<1>3. info \in Seq(Byte)
  BY MeterInfoIs
<1>. HIDE DEF h, info
<1>4. Len(h) >= 6 /\ Len(h) \in Nat /\ Len(h) <= 8 /\ Len(info) \in Nat
  BY <1>2, <1>3
<1>7. Len(info) <= 4083
  <2>. DEFINE m == Len(f.payload)
  <2>1. Len(info) = m + (IF f.cmd = 0 THEN 3 ELSE 0)
    BY MeterInfoIs DEF info
  <2>2. m \in Nat /\ m <= 4080
    BY AnswerIs
  <2>. HIDE DEF m
  <2>. QED BY <2>1, <2>2
<1>5. CASE info = <<>>
  <2>1. Claims(h[1], h[2]) = Len(h) + 2 /\ Len(h) + 2 \in Nat /\ Len(h) + 2 <= 4095
    BY <1>2, <1>4, <1>5
  <2>2. Claims(h[1], h[2]) = Twelve(Len(h) + 2)
    BY <2>1, TwelveBits
  <2>3. Headed(<<126>> \o Checked(h) \o <<126>>, h, <<>>)
    BY <1>2, <1>4, <2>2, BareIs
  <2>4. Headed(MeterFrame(f, length), h, info)
    BY <1>1, <1>5, <2>3
  <2>5. Len(MeterFrame(f, length)) = Len(h) + 4
    BY <1>5, <2>4 DEF Headed
  <2>. QED BY <1>4, <2>4, <2>5 DEF h, info
<1>6. CASE info # <<>>
  <2>. DEFINE n == Len(h) + Len(info) + 4
  <2>1. Claims(h[1], h[2]) = n /\ n \in Nat /\ n <= 4095
    BY <1>2, <1>4, <1>6, <1>7
  <2>2. Claims(h[1], h[2]) = Twelve(n)
    <3>. HIDE DEF n
    <3>. QED BY <2>1, TwelveBits
  <2>3. Headed(<<126>> \o Checked(Checked(h) \o info) \o <<126>>, h, info)
    BY <1>2, <1>3, <1>4, <1>6, <2>2, WithInformationIs
  <2>4. Headed(MeterFrame(f, length), h, info)
    BY <1>1, <1>6, <2>3
  <2>5. Len(MeterFrame(f, length)) = n + 2
    BY <1>4, <1>6, <2>4 DEF Headed
  <2>. QED BY <2>1, <2>4, <2>5 DEF h, info
<1>. QED BY <1>5, <1>6

-----------------------------------------------------------------------------
(* What the parser makes of them.                                          *)

(* The first odd byte of the server address is where it ends.              *)
LEMMA OffsetIs ==
  ASSUME NEW b, NEW n \in 0..3, At(b, n + 4) % 2 = 1,
         \A m \in 0..(n - 1) : At(b, m + 4) % 2 = 0
  PROVE  addr_offset(b) = n
<1>. DEFINE Ends4(k) == /\ k < 4 => At(b, k + 4) % 2 = 1
                        /\ \A m \in 0..(k - 1) : At(b, m + 4) % 2 = 0
            o == addr_offset(b)
<1>1. n \in 0..4 /\ Ends4(n)
  OBVIOUS
<1>2. o = CHOOSE k \in 0..4 : Ends4(k)
  BY DEF addr_offset
<1>3. o \in 0..4 /\ Ends4(o)
  <2>. HIDE DEF Ends4, o
  <2>. QED BY <1>1, <1>2
<1>. HIDE DEF o
<1>4. ~(o < n)
  <2>1. ASSUME o < n PROVE FALSE
    <3>1. o \in 0..(n - 1) /\ o < 4
      BY <1>3, <2>1
    <3>. QED BY <1>3, <3>1
  <2>. QED BY <2>1
<1>5. ~(n < o)
  <2>1. ASSUME n < o PROVE FALSE
    <3>1. n \in 0..(o - 1)
      BY <1>3, <2>1
    <3>. QED BY <1>3, <3>1
  <2>. QED BY <2>1
<1>6. o = n
  BY <1>3, <1>4, <1>5
<1>. QED BY <1>6 DEF o

(* Where a frame of a meter has what hdlc_frame_parse looks for.           *)
LEMMA MeterFrameIs ==
  ASSUME NEW f \in AnswerFrames, NEW length \in {2, 4}
  PROVE  LET b == MeterFrame(f, length)
             info == MeterInfo(f)
         IN  /\ Sealed(b) /\ Len(b) <= 4097
             /\ addr_offset(b) = length - 1
             /\ At(b, 3) = Client(f)
             /\ At(b, length + 4) = MeterControl(f)
             /\ length = 4 =>
                  /\ At(b, 4) = Upper(f.logical) /\ At(b, 5) = Lower(f.logical)
                  /\ At(b, 6) = Upper(f.physical) /\ At(b, 7) = Ends(Lower(f.physical))
             /\ Len(b) = IF info = <<>> THEN length + 8 ELSE length + 10 + Len(info)
             /\ \A i \in 1..Len(info), j \in Nat : j = i + length + 7 => b[j] = info[i]
<1>. DEFINE b == MeterFrame(f, length)
            h == MeterHead(f, length)
            s == MeterServer(f, length)
            info == MeterInfo(f)
<1>1. /\ Sealed(b) /\ Len(b) <= 4097
      /\ \A i \in 1..Len(h), j \in Nat : j = i + 1 => b[j] = h[i]
      /\ Len(b) = IF info = <<>> THEN Len(h) + 4 ELSE Len(h) + Len(info) + 6
      /\ \A i \in 1..Len(info), j \in Nat : j = i + Len(h) + 3 => b[j] = info[i]
  <2>1. Headed(b, h, info) /\ Len(b) <= 4097
    BY MeterHeaded
  <2>. HIDE DEF b, h, info
  <2>. QED BY <2>1 DEF Headed
<1>2. /\ Len(h) = length + 4 /\ h[3] = Client(f) /\ h[length + 4] = MeterControl(f)
      /\ \A i \in 1..length, k \in Nat : k = i + 3 => h[k] = s[i]
  BY MeterHeadIs
<1>3. /\ \A i \in 1..length : s[i] % 2 = (IF i = length THEN 1 ELSE 0)
      /\ length = 4 => /\ s[1] = Upper(f.logical) /\ s[2] = Lower(f.logical)
                       /\ s[3] = Upper(f.physical) /\ s[4] = Ends(Lower(f.physical))
  BY MeterServerIs
<1>4. Len(info) \in Nat
  BY MeterInfoIs
<1>. HIDE DEF b, h, s, info
<1>5. \A i \in 1..length : At(b, i + 3) = s[i]
  <2>1. ASSUME NEW i \in 1..length PROVE b[i + 4] = s[i]
    <3>1. i + 3 \in 1..Len(h) /\ i + 3 \in Nat /\ i + 4 \in Nat /\ i + 4 = (i + 3) + 1
      BY <1>2
    <3>. QED BY <1>1, <1>2, <3>1
  <2>2. \A i \in 1..length : (i + 3) + 1 = i + 4
    OBVIOUS
  <2>. QED BY <2>1, <2>2 DEF At
<1>6. At(b, 3) = Client(f)
  <2>1. 3 \in 1..Len(h) /\ 4 \in Nat /\ 4 = 3 + 1
    BY <1>2
  <2>. QED BY <1>1, <1>2, <2>1 DEF At
<1>7. At(b, length + 4) = MeterControl(f)
  <2>1. length + 4 \in 1..Len(h) /\ (length + 4) + 1 \in Nat
    BY <1>2
  <2>. QED BY <1>1, <1>2, <2>1 DEF At
<1>8. addr_offset(b) = length - 1
  <2>. DEFINE n == length - 1
  <2>1. n \in 0..3 /\ n + 4 = length + 3 /\ length \in 1..length
    OBVIOUS
  <2>2. At(b, n + 4) % 2 = 1
    BY <1>3, <1>5, <2>1
  <2>3. \A m \in 0..(n - 1) : At(b, m + 4) % 2 = 0
    <3>1. ASSUME NEW m \in 0..(n - 1) PROVE At(b, m + 4) % 2 = 0
      <4>1. m + 1 \in 1..length /\ m + 1 # length /\ (m + 1) + 3 = m + 4
        OBVIOUS
      <4>. QED BY <1>3, <1>5, <4>1
    <3>. QED BY <3>1
  <2>. HIDE DEF n
  <2>4. addr_offset(b) = n
    BY <2>1, <2>2, <2>3, OffsetIs
  <2>. QED BY <2>4 DEF n
<1>9. length = 4 =>
        /\ At(b, 4) = Upper(f.logical) /\ At(b, 5) = Lower(f.logical)
        /\ At(b, 6) = Upper(f.physical) /\ At(b, 7) = Ends(Lower(f.physical))
  <2>1. ASSUME length = 4
        PROVE  At(b, 4) = s[1] /\ At(b, 5) = s[2] /\ At(b, 6) = s[3] /\ At(b, 7) = s[4]
    <3>1. 1 \in 1..length /\ 2 \in 1..length /\ 3 \in 1..length /\ 4 \in 1..length
      BY <2>1
    <3>2. 1 + 3 = 4 /\ 2 + 3 = 5 /\ 3 + 3 = 6 /\ 4 + 3 = 7
      OBVIOUS
    <3>. QED BY <1>5, <3>1, <3>2
  <2>. QED BY <1>3, <2>1
<1>10. Len(b) = IF info = <<>> THEN length + 8 ELSE length + 10 + Len(info)
  BY <1>1, <1>2, <1>4
<1>11. \A i \in 1..Len(info), j \in Nat : j = i + length + 7 => b[j] = info[i]
  BY <1>1, <1>2, <1>4
<1>. QED BY <1>1, <1>6, <1>7, <1>8, <1>9, <1>10, <1>11 DEF b, info

(* What a successful hdlc_frame_parse has looked at and returned.          *)
LEMMA ParsedIs ==
  ASSUME NEW b, hdlc_frame_parse(b).ok
  PROVE  LET r == hdlc_frame_parse(b).frame
             control == At(b, addr_offset(b) + 5) - 16
             i == IsInformation(b)
         IN  /\ valid_frame(b)
             /\ r = [cmd |-> r.cmd, client |-> r.client, rrr |-> r.rrr, sss |-> r.sss,
                     physical |-> r.physical, logical |-> r.logical, payload |-> r.payload]
             /\ r.cmd = IF i THEN 0 ELSE control
             /\ r.client = At(b, 3) \div 2
             /\ r.rrr = IF i THEN (control \div 32) % 8 ELSE 0
             /\ r.sss = IF i THEN (control \div 2) % 8 ELSE 0
             /\ r.physical = ServerAddress(b).physical
             /\ r.logical = ServerAddress(b).logical
             /\ r.payload = PayloadOf(b, Information(b) + (IF i THEN 3 ELSE 0))
<1>1. Invalid.ok = FALSE
  BY DEF Invalid
<1>2. ~(~valid_frame(b) \/ (IsInformation(b) /\ ~HasLlc(b)))
  BY <1>1 DEF hdlc_frame_parse
<1>. QED BY <1>2 DEF hdlc_frame_parse, RESPONSE_I

(* Two times seven bits are fourteen.                                      *)
LEMMA SevenBytes ==
  ASSUME NEW hi \in Byte, NEW lo \in Byte
  PROVE  Seven(hi, lo) \in Nat /\ Seven(hi, lo) <= 16383 /\ Seven(hi, lo) \in Word
<1>. DEFINE x == hi \div 2
            y == lo \div 2
<1>1. x \in 0..127 /\ y \in 0..127
  BY DEF Byte
<1>2. Seven(hi, lo) = 128 * x + y
  BY DEF Seven
<1>. HIDE DEF x, y
<1>3. 128 * x + y \in Nat /\ 128 * x + y <= 16383
  BY <1>1
<1>4. 128 * x + y <= 65535
  BY <1>3, SMT
<1>. QED BY <1>2, <1>3, <1>4 DEF Word

(* An address of two bytes is read as it was written.                      *)
LEMMA SevenIs ==
  ASSUME NEW a \in Nat, a <= 16383
  PROVE  Seven(Upper(a), Lower(a)) = a /\ Seven(Upper(a), Ends(Lower(a))) = a
<1>. DEFINE q == a \div 128
            r == a % 128
<1>1. q \in 0..127 /\ r \in 0..127 /\ a = 128 * q + r
  OBVIOUS
<1>2. Upper(a) = 2 * (q % 128) /\ Lower(a) = 2 * r
  BY DEF Upper, Lower
<1>. HIDE DEF q, r
<1>3. q % 128 = q
  BY <1>1
<1>4. (2 * q) \div 2 = q /\ (2 * r) \div 2 = r /\ (2 * r + 1) \div 2 = r
  BY <1>1
<1>. QED BY <1>1, <1>2, <1>3, <1>4 DEF Seven, Ends

(* The payload is where it was written.                                    *)
LEMMA PayloadRead ==
  ASSUME NEW f \in AnswerFrames, NEW length \in {2, 4}
  PROVE  PayloadOf(MeterFrame(f, length), length + 7 + (IF f.cmd = 0 THEN 3 ELSE 0)) = f.payload
<1>. DEFINE b == MeterFrame(f, length)
            info == MeterInfo(f)
            p == f.payload
            k == IF f.cmd = 0 THEN 3 ELSE 0
            m == (length + 7 + k) + 1
            n == Len(b) - 3
<1>1. /\ Sealed(b)
      /\ Len(b) = IF info = <<>> THEN length + 8 ELSE length + 10 + Len(info)
      /\ \A i \in 1..Len(info), j \in Nat : j = i + length + 7 => b[j] = info[i]
  <2>. DEFINE h == MeterHead(f, length)
  <2>1. Headed(b, h, info)
    BY MeterHeaded
  <2>2. Len(h) = length + 4
    BY MeterHeadIs
  <2>3. Len(info) \in Nat
    BY MeterInfoIs
  <2>. HIDE DEF b, h, info
  <2>4. /\ Sealed(b)
        /\ Len(b) = IF info = <<>> THEN Len(h) + 4 ELSE Len(h) + Len(info) + 6
        /\ \A i \in 1..Len(info), j \in Nat : j = i + Len(h) + 3 => b[j] = info[i]
    BY <2>1 DEF Headed
  <2>. QED BY <2>2, <2>3, <2>4
<1>2. /\ info \in Seq(Byte) /\ Len(info) = Len(p) + k
      /\ \A i \in 1..Len(p), j \in Nat : j = i + k => info[j] = p[i]
  <2>1. info \in Seq(Byte) /\ Len(info) = Len(p) + k
    BY MeterInfoIs
  <2>2. CASE f.cmd = 0
    <3>1. \A i \in 1..Len(p), j \in Nat : j = i + 3 => info[j] = p[i]
      BY <2>2, MeterInfoIs
    <3>. QED BY <2>1, <2>2, <3>1
  <2>3. CASE f.cmd # 0
    <3>1. info = p
      BY <2>3, MeterInfoIs
    <3>. QED BY <2>1, <2>3, <3>1
  <2>. QED BY <2>2, <2>3
<1>3. p \in Seq(Byte) /\ Len(p) \in Nat
  BY AnswerIs
<1>4. k \in {0, 3}
  OBVIOUS
<1>5. Len(b) \in Nat /\ b \in Seq(Byte)
  BY <1>1 DEF Sealed
<1>6. PayloadOf(b, length + 7 + k) = SubSeq(b, m, n)
  BY DEF PayloadOf
<1>. HIDE DEF b, info, p, k
<1>7. Len(info) = 0 <=> info = <<>>
  BY <1>2, EmptySeq
<1>8. m \in Nat /\ n \in Int /\ m >= 10 /\ n <= Len(b)
  BY <1>4, <1>5
<1>9. IF m <= n THEN (n - m) + 1 = Len(p) ELSE Len(p) = 0
  BY <1>1, <1>2, <1>3, <1>4, <1>7
<1>10. \A i \in m..n : b[i] \in Byte
  <2>. HIDE DEF m, n
  <2>1. \A i \in m..n : i \in 1..Len(b)
    BY <1>5, <1>8
  <2>. QED BY <1>5, <2>1, ElementOfSeq
<1>11. /\ SubSeq(b, m, n) \in Seq(Byte) /\ Len(SubSeq(b, m, n)) = Len(p)
       /\ \A i \in 1..((n - m) + 1) : SubSeq(b, m, n)[i] = b[(m + i) - 1]
  <2>. HIDE DEF m, n
  <2>1. m \in Int /\ n \in Int
    BY <1>8
  <2>2. SubSeq(b, m, n) \in Seq(Byte)
    BY ONLY <1>10, <2>1, SubSeqProperties
  <2>3. /\ Len(SubSeq(b, m, n)) = IF m <= n THEN (n - m) + 1 ELSE 0
        /\ \A i \in 1..((n - m) + 1) : SubSeq(b, m, n)[i] = b[(m + i) - 1]
    BY ONLY <1>10, <2>1, SubSeqProperties
  <2>. QED BY <1>9, <2>2, <2>3
<1>12. \A i \in 1..Len(p) : SubSeq(b, m, n)[i] = p[i]
  <2>1. ASSUME NEW i \in 1..Len(p) PROVE SubSeq(b, m, n)[i] = p[i]
    <3>. DEFINE e == i + k
                j == e + length + 7
    <3>1. e \in 1..Len(info) /\ e \in Nat /\ j \in Nat
      BY <1>2, <1>3, <1>4
    <3>2. (m + i) - 1 = j
      BY <1>4
    <3>3. i \in 1..((n - m) + 1)
      <4>. HIDE DEF m, n, e, j
      <4>. QED BY <1>3, <1>8, <1>9
    <3>4. info[e] = p[i]
      BY <1>2, <3>1
    <3>5. b[j] = info[e]
      BY <1>1, <3>1
    <3>6. SubSeq(b, m, n)[i] = b[(m + i) - 1]
      BY <1>11, <3>3
    <3>. QED BY <3>2, <3>4, <3>5, <3>6
  <2>. QED BY <2>1
<1>13. SubSeq(b, m, n) = p
  <2>. HIDE DEF m, n
  <2>. QED BY <1>3, <1>11, <1>12, SeqEqual
<1>. QED BY <1>6, <1>13 DEF b, p, k

(* A frame of a meter that is accepted is decoded as it was meant.         *)
LEMMA AnswerRead ==
  ASSUME NEW f \in AnswerFrames, NEW length \in {2, 4},
         hdlc_frame_parse(MeterFrame(f, length)).ok
  PROVE  LET r == hdlc_frame_parse(MeterFrame(f, length)).frame
         IN  /\ r.cmd = f.cmd
             /\ r.payload = f.payload
             /\ r.client = f.client
             /\ f.cmd = RESPONSE_I => r.rrr = f.rrr /\ r.sss = f.sss
             /\ length = 4 => r.logical = f.logical /\ r.physical = f.physical
<1>. DEFINE b == MeterFrame(f, length)
            r == hdlc_frame_parse(b).frame
            c == MeterControl(f)
<1>1. /\ addr_offset(b) = length - 1
      /\ At(b, 3) = Client(f)
      /\ At(b, length + 4) = c
      /\ length = 4 =>
           /\ At(b, 4) = Upper(f.logical) /\ At(b, 5) = Lower(f.logical)
           /\ At(b, 6) = Upper(f.physical) /\ At(b, 7) = Ends(Lower(f.physical))
  BY MeterFrameIs
<1>2. /\ (c - 16) % 2 = 0 <=> f.cmd = 0
      /\ f.cmd = 0 => ((c - 16) \div 32) % 8 = f.rrr /\ ((c - 16) \div 2) % 8 = f.sss
      /\ f.cmd # 0 => c - 16 = f.cmd
  BY MeterControlIs
<1>3. Client(f) \div 2 = f.client
  BY AnswerClient
<1>4. (length - 1) + 5 = length + 4 /\ (length - 1) + 8 = length + 7
  OBVIOUS
<1>5. PayloadOf(b, length + 7 + (IF f.cmd = 0 THEN 3 ELSE 0)) = f.payload
  BY PayloadRead
<1>. HIDE DEF c
<1>6. hdlc_frame_parse(b).ok
  OBVIOUS
<1>. HIDE DEF b
<1>7. At(b, addr_offset(b) + 5) - 16 = c - 16
  BY <1>1, <1>4
<1>8. IsInformation(b) <=> f.cmd = 0
  BY <1>2, <1>7 DEF IsInformation
<1>9. Information(b) = length + 7
  BY <1>1, <1>4 DEF Information
<1>10. /\ r.cmd = IF f.cmd = 0 THEN 0 ELSE c - 16
       /\ r.client = At(b, 3) \div 2
       /\ r.rrr = IF f.cmd = 0 THEN ((c - 16) \div 32) % 8 ELSE 0
       /\ r.sss = IF f.cmd = 0 THEN ((c - 16) \div 2) % 8 ELSE 0
       /\ r.physical = ServerAddress(b).physical
       /\ r.logical = ServerAddress(b).logical
       /\ r.payload = PayloadOf(b, (length + 7) + (IF f.cmd = 0 THEN 3 ELSE 0))
  BY <1>6, <1>7, <1>8, <1>9, ParsedIs
<1>. HIDE DEF r
<1>11. r.cmd = f.cmd
  BY <1>2, <1>10
<1>12. r.payload = f.payload
  BY <1>5, <1>10
<1>13. r.client = f.client
  BY <1>1, <1>3, <1>10
<1>14. f.cmd = RESPONSE_I => r.rrr = f.rrr /\ r.sss = f.sss
  BY <1>2, <1>10 DEF RESPONSE_I
<1>15. ASSUME length = 4 PROVE r.logical = f.logical /\ r.physical = f.physical
  <2>1. addr_offset(b) = 3
    BY <1>1, <1>15
  <2>2. /\ ServerAddress(b).logical = Seven(Upper(f.logical), Lower(f.logical))
        /\ ServerAddress(b).physical = Seven(Upper(f.physical), Ends(Lower(f.physical)))
    BY <1>1, <1>15, <2>1 DEF ServerAddress
  <2>3. /\ Seven(Upper(f.logical), Lower(f.logical)) = f.logical
        /\ Seven(Upper(f.physical), Ends(Lower(f.physical))) = f.physical
    BY AnswerIs, SevenIs
  <2>. QED BY <1>10, <2>2, <2>3
<1>. QED BY <1>11, <1>12, <1>13, <1>14, <1>15 DEF r, b

(* The frame in which module FrameTransfer lets a meter stop is whole.     *)
Stopped(whole, n) == <<126>> \o Checked(<<160, n + 2>> \o SubSeq(whole, 4, n + 1)) \o <<126>>

LEMMA StoppedIs ==
  ASSUME NEW whole, Sealed(whole), NEW n \in 6..16, n + 4 < Len(whole)
  PROVE  Sealed(Stopped(whole, n)) /\ Len(Stopped(whole, n)) <= 4097
<1>. DEFINE x == <<160, n + 2>>
            y == SubSeq(whole, 4, n + 1)
            s == x \o y
<1>1. whole \in Seq(Byte) /\ Len(whole) \in Nat
  BY DEF Sealed
<1>2. /\ x \in Seq(Byte) /\ Len(x) = 2 /\ x[1] = 160 /\ x[2] = n + 2
  BY DEF Byte
<1>3. y \in Seq(Byte) /\ Len(y) = n - 2
  <2>1. \A i \in 4..(n + 1) : i \in 1..Len(whole)
    BY <1>1
  <2>2. \A i \in 4..(n + 1) : whole[i] \in Byte
    BY <1>1, <2>1, ElementOfSeq
  <2>3. 4 \in Int /\ n + 1 \in Int /\ 4 <= n + 1 /\ ((n + 1) - 4) + 1 = n - 2
    OBVIOUS
  <2>4. y \in Seq(Byte) /\ Len(y) = IF 4 <= n + 1 THEN ((n + 1) - 4) + 1 ELSE 0
    BY ONLY <2>2, <2>3, SubSeqProperties
  <2>. QED BY <2>3, <2>4
<1>. HIDE DEF x, y
<1>4. s \in Seq(Byte) /\ Len(s) = Len(x) + Len(y) /\ \A i \in 1..Len(x) : s[i] = x[i]
  <2>1. x \in Seq(Byte) /\ y \in Seq(Byte)
    BY <1>2, <1>3
  <2>. QED BY ONLY <2>1, ConcatIs
<1>. HIDE DEF s
<1>5. Len(s) = n /\ s[1] = 160 /\ s[2] = n + 2
  BY <1>2, <1>3, <1>4
<1>6. Claims(s[1], s[2]) = Twelve(Len(s) + 2) /\ Len(s) >= 6
  <2>1. Claims(s[1], s[2]) = Len(s) + 2
    BY <1>5 DEF Claims
  <2>2. Len(s) + 2 \in Nat /\ Len(s) + 2 <= 4095 /\ Len(s) >= 6
    BY <1>5
  <2>. QED BY <2>1, <2>2, TwelveBits
<1>. DEFINE b == <<126>> \o Checked(s) \o <<126>>
<1>7. Sealed(b) /\ Len(b) = Len(s) + 4
  BY <1>4, <1>6, SealedIs
<1>. HIDE DEF b
<1>8. Len(b) <= 4097
  BY <1>5, <1>7
<1>. QED BY <1>7, <1>8 DEF b, s, x, y, Stopped

-----------------------------------------------------------------------------
(* The invariant.                                                          *)

(* What hdlc_frame_parse returns has the types of a HdlcFrame.             *)
LEMMA ParsedTypes ==
  ASSUME NEW b \in Seq(Byte), hdlc_frame_parse(b).ok
  PROVE  /\ hdlc_frame_parse(b).frame \in HdlcFrames
         /\ hdlc_frame_parse(b).frame.physical <= 16383
         /\ hdlc_frame_parse(b).frame.logical <= 16383
<1>. DEFINE r == hdlc_frame_parse(b).frame
            o == addr_offset(b)
            x == At(b, o + 5)
            control == x - 16
            i == IsInformation(b)
            begin == Information(b) + (IF i THEN 3 ELSE 0)
<1>1. valid_frame(b)
  BY ParsedIs
<1>2. /\ r.cmd = IF i THEN 0 ELSE control
      /\ r.client = At(b, 3) \div 2
      /\ r.rrr = IF i THEN (control \div 32) % 8 ELSE 0
      /\ r.sss = IF i THEN (control \div 2) % 8 ELSE 0
      /\ r.physical = ServerAddress(b).physical
      /\ r.logical = ServerAddress(b).logical
      /\ r.payload = PayloadOf(b, begin)
  BY ParsedIs
<1>20. r = [cmd |-> r.cmd, client |-> r.client, rrr |-> r.rrr, sss |-> r.sss,
            physical |-> r.physical, logical |-> r.logical, payload |-> r.payload]
  BY ParsedIs
<1>3. /\ o \in {1, 3} /\ Len(b) >= 10
      /\ o = 3 => Len(b) >= 12
      /\ (x \div 16) % 2 = 1
  BY <1>1 DEF valid_frame, LongEnough
<1>4. Len(b) \in Nat /\ \A k \in 1..Len(b) : b[k] \in Byte
  BY ElementOfSeq
<1>. HIDE DEF r, o, i
<1>5. /\ At(b, 3) \in Byte /\ At(b, 4) \in Byte /\ At(b, 5) \in Byte
      /\ At(b, 6) \in Byte /\ At(b, 7) \in Byte
  <2>1. /\ 3 + 1 \in 1..Len(b) /\ 4 + 1 \in 1..Len(b) /\ 5 + 1 \in 1..Len(b)
        /\ 6 + 1 \in 1..Len(b) /\ 7 + 1 \in 1..Len(b)
    BY <1>3, <1>4
  <2>. QED BY <1>4, <2>1 DEF At
<1>6. x \in Byte
  <2>1. (o + 5) + 1 \in 1..Len(b)
    BY <1>3, <1>4
  <2>. QED BY <1>4, <2>1 DEF At
<1>. HIDE DEF x
<1>7. control \in 0..239
  <2>1. x \in 0..255
    BY <1>6 DEF Byte
  <2>2. x >= 16
    BY <1>3, <2>1
  <2>. QED BY <2>1, <2>2
<1>. HIDE DEF control
<1>8. r.cmd \in Byte
  BY <1>2, <1>7 DEF Byte
<1>9. r.client \in Byte
  <2>1. \A y \in Byte : y \div 2 \in Byte
    BY DEF Byte
  <2>. QED BY <1>2, <1>5, <2>1
<1>10. r.rrr \in Byte /\ r.sss \in Byte
  <2>1. (control \div 32) % 8 \in 0..7 /\ (control \div 2) % 8 \in 0..7
    BY <1>7
  <2>2. \A y \in 0..7 : y \in Byte
    BY DEF Byte
  <2>3. 0 \in Byte
    BY DEF Byte
  <2>. QED BY <1>2, <2>1, <2>2, <2>3
<1>11. /\ r.physical \in Word /\ r.physical <= 16383
       /\ r.logical \in Word /\ r.logical <= 16383
  <2>1. \A hi, lo \in Byte : Seven(hi, lo) <= 16383 /\ Seven(hi, lo) \in Word
    BY SevenBytes
  <2>2. CASE o = 3
    <3>1. /\ ServerAddress(b).physical = Seven(At(b, 6), At(b, 7))
          /\ ServerAddress(b).logical = Seven(At(b, 4), At(b, 5))
      BY <2>2 DEF ServerAddress, o
    <3>. QED BY <1>2, <1>5, <2>1, <3>1
  <2>3. CASE o = 1
    <3>1. /\ ServerAddress(b).physical = Seven(At(b, 4), At(b, 5))
          /\ ServerAddress(b).logical = 0
      BY <2>3 DEF ServerAddress, o
    <3>2. 0 <= 16383 /\ 0 \in Word
      BY SMT DEF Word
    <3>. QED BY <1>2, <1>5, <2>1, <3>1, <3>2
  <2>. QED BY <1>3, <2>2, <2>3
<1>12. r.payload \in Seq(Byte)
  <2>. DEFINE m == begin + 1
              n == Len(b) - 3
  <2>1. Information(b) \in Nat
    BY <1>3 DEF Information, o
  <2>2. m \in Nat /\ m >= 1 /\ n \in Int /\ n <= Len(b)
    BY <1>4, <2>1
  <2>3. r.payload = SubSeq(b, m, n)
    BY <1>2 DEF PayloadOf
  <2>. HIDE DEF m, n
  <2>4. \A k \in m..n : k \in 1..Len(b)
    BY <1>4, <2>2
  <2>5. \A k \in m..n : b[k] \in Byte
    BY <1>4, <2>4
  <2>6. m \in Int /\ n \in Int
    BY <2>2
  <2>7. SubSeq(b, m, n) \in Seq(Byte)
    BY ONLY <2>5, <2>6, SubSeqProperties
  <2>. QED BY <2>3, <2>7
<1>13. r \in HdlcFrames
  BY ONLY <1>8, <1>9, <1>10, <1>11, <1>12, <1>20 DEF HdlcFrames
<1>. QED BY <1>11, <1>13 DEF r

(* What a cut cannot make a valid frame of.                                *)
Uncuttable(buffer) == Len(buffer) <= 4097 \/ At(buffer, 3) % 2 = 0

(* What is on the line is whole as long as it is intact, and then it is    *)
(* the frame that was sent; spoilt, it is no valid frame.                  *)
OnTheLine ==
  line # <<>> =>
    /\ received = Invalid
    /\ intact => Sealed(line) /\ Uncuttable(line)
    /\ ~intact => ~valid_frame(line)
    /\ sender = "client" => ~valid_frame(line)
    /\ sender = "client" /\ intact => sent \in Commands /\ line = hdlc_frame_serialize(sent)
    /\ sender = "meter" /\ intact => sent \in Answers /\ line = MeterFrame(sent, form)

IInv ==
  /\ TypeOK
  /\ OnTheLine
  /\ SpoiltRefused
  /\ EchoRefused
  /\ AnswerDecoded

(* What was not a frame.                                                   *)
LEMMA InvalidIs == Invalid.ok = FALSE
BY DEF Invalid

(* The invariant holds at the start.                                       *)
LEMMA InitIInv == Init => IInv
<1>1. SUFFICES ASSUME Init PROVE IInv
  OBVIOUS
<1>2. line = <<>> /\ received = Invalid
  BY <1>1 DEF Init
<1>3. line \in Seq(Byte) /\ ~received.ok
  BY <1>2, InvalidIs
<1>4. TypeOK
  BY <1>1, <1>3 DEF Init, TypeOK
<1>5. OnTheLine
  BY <1>2 DEF OnTheLine
<1>6. SpoiltRefused /\ EchoRefused /\ AnswerDecoded
  BY <1>2, InvalidIs DEF SpoiltRefused, EchoRefused, AnswerDecoded
<1>. QED BY <1>3, <1>4, <1>5, <1>6 DEF IInv

(* Whoever writes, the line has a whole frame of his and nothing has been  *)
(* read.                                                                   *)
LEMMA WriteIInv ==
  ASSUME NEW who \in {"client", "meter", "nobody"}, NEW f \in Commands \cup Answers,
         NEW length \in {2, 4}, NEW bytes, Write(who, f, length, bytes),
         Sealed(bytes), Uncuttable(bytes),
         who = "client" => /\ f \in Commands /\ bytes = hdlc_frame_serialize(f)
                           /\ ~valid_frame(bytes),
         who = "meter" => f \in Answers /\ bytes = MeterFrame(f, length)
  PROVE  IInv'
<1>1. /\ sender' = who /\ sent' = f /\ form' = length /\ line' = bytes
      /\ intact' = TRUE /\ received' = Invalid
  BY DEF Write
<1>2. bytes \in Seq(Byte)
  BY DEF Sealed
<1>3. ~received'.ok
  BY <1>1, InvalidIs
<1>5. TypeOK'
  <2>1. sent' \in {NoFrame} \cup Commands \cup Answers
    BY <1>1
  <2>. QED BY <1>1, <1>2, <1>3, <2>1 DEF TypeOK
<1>6. OnTheLine'
  <2>1. Sealed(line') /\ Uncuttable(line')
    BY <1>1
  <2>. QED BY <1>1, <2>1 DEF OnTheLine
<1>7. SpoiltRefused' /\ EchoRefused' /\ AnswerDecoded'
  BY <1>3 DEF SpoiltRefused, EchoRefused, AnswerDecoded
<1>. QED BY <1>1, <1>2, <1>5, <1>6, <1>7 DEF IInv

(* The line spoils what is on it, and nothing has been read of it.         *)
LEMMA SpoilIInv ==
  ASSUME IInv, line # <<>>, line' \in Seq(Byte), ~valid_frame(line'), intact' = FALSE,
         UNCHANGED <<sender, sent, form, received>>
  PROVE  IInv'
<1>1. received' = Invalid /\ ~received'.ok
  BY InvalidIs DEF IInv, OnTheLine
<1>2. /\ sender \in {"client", "meter", "nobody"} /\ form \in {2, 4}
      /\ sent \in {NoFrame} \cup Commands \cup Answers
  BY DEF IInv, TypeOK
<1>3. sender' = sender /\ sent' = sent /\ form' = form
  OBVIOUS
<1>4. TypeOK'
  <2>1. sender' \in {"client", "meter", "nobody"} /\ form' \in {2, 4}
    BY <1>2, <1>3
  <2>2. sent' \in {NoFrame} \cup Commands \cup Answers
    BY <1>2, <1>3
  <2>3. line' \in Seq(Byte) /\ intact' \in BOOLEAN
    OBVIOUS
  <2>. QED BY ONLY <1>1, <2>1, <2>2, <2>3 DEF TypeOK
<1>5. OnTheLine'
  BY <1>1 DEF OnTheLine
<1>6. SpoiltRefused' /\ EchoRefused' /\ AnswerDecoded'
  BY <1>1 DEF SpoiltRefused, EchoRefused, AnswerDecoded
<1>. QED BY <1>4, <1>5, <1>6 DEF IInv

(* Reading empties the line, and what is accepted was intact and a         *)
(* meter's.                                                                *)
LEMMA ReceiveIInv == IInv /\ Receive => IInv'
<1>1. SUFFICES ASSUME IInv, Receive PROVE IInv'
  OBVIOUS
<1>2. /\ line # <<>> /\ line \in Seq(Byte)
      /\ received' = hdlc_frame_parse(line) /\ line' = <<>>
      /\ sender' = sender /\ sent' = sent /\ form' = form /\ intact' = intact
  BY <1>1 DEF Receive, IInv, TypeOK
<1>3. ASSUME received'.ok
      PROVE  /\ valid_frame(line) /\ intact /\ sender # "client"
  <2>0. hdlc_frame_parse(line).ok
    BY <1>2, <1>3
  <2>1. valid_frame(line)
    BY <2>0, ParsedIs
  <2>2. OnTheLine /\ intact \in BOOLEAN
    BY <1>1 DEF IInv, TypeOK
  <2>. QED BY <1>2, <2>1, <2>2 DEF OnTheLine
<1>4. line' \in Seq(Byte)
  BY <1>2
<1>5. ASSUME received'.ok
      PROVE  /\ received'.frame \in HdlcFrames
             /\ received'.frame.physical <= 16383
             /\ received'.frame.logical <= 16383
  <2>1. hdlc_frame_parse(line).ok
    BY <1>2, <1>5
  <2>2. /\ hdlc_frame_parse(line).frame \in HdlcFrames
        /\ hdlc_frame_parse(line).frame.physical <= 16383
        /\ hdlc_frame_parse(line).frame.logical <= 16383
    BY <1>2, <2>1, ParsedTypes
  <2>. QED BY <1>2, <2>2
<1>6. TypeOK'
  <2>1. /\ sender \in {"client", "meter", "nobody"} /\ form \in {2, 4} /\ intact \in BOOLEAN
        /\ sent \in {NoFrame} \cup Commands \cup Answers
    BY <1>1 DEF IInv, TypeOK
  <2>. QED BY <1>2, <1>4, <1>5, <2>1 DEF TypeOK
<1>7. OnTheLine'
  BY <1>2 DEF OnTheLine
<1>8. SpoiltRefused' /\ EchoRefused'
  BY <1>2, <1>3 DEF SpoiltRefused, EchoRefused
<1>9. AnswerDecoded'
  <2>1. SUFFICES ASSUME received'.ok, sender' = "meter"
                 PROVE  /\ received'.frame.cmd = sent'.cmd
                        /\ received'.frame.payload = sent'.payload
                        /\ received'.frame.client = sent'.client
                        /\ sent'.cmd = RESPONSE_I =>
                             received'.frame.rrr = sent'.rrr /\ received'.frame.sss = sent'.sss
                        /\ form' = 4 =>
                             /\ received'.frame.logical = sent'.logical
                             /\ received'.frame.physical = sent'.physical
    BY DEF AnswerDecoded, AddressDecoded
  <2>2. sent \in Answers /\ line = MeterFrame(sent, form) /\ form \in {2, 4}
    <3>1. OnTheLine /\ form \in {2, 4}
      BY <1>1 DEF IInv, TypeOK
    <3>2. sender = "meter" /\ intact
      BY <1>2, <1>3, <2>1
    <3>. QED BY <1>2, <3>1, <3>2 DEF OnTheLine
  <2>3. sent \in AnswerFrames
    BY <2>2, FramesAssumption
  <2>4. hdlc_frame_parse(MeterFrame(sent, form)).ok
    BY <1>2, <2>1, <2>2
  <2>. QED BY <1>2, <2>2, <2>3, <2>4, AnswerRead
<1>. QED BY <1>4, <1>6, <1>7, <1>8, <1>9 DEF IInv

(* Every step keeps the invariant.                                         *)
LEMMA NextIInv == IInv /\ [Next]_vars => IInv'
<1>1. SUFFICES ASSUME IInv, [Next]_vars PROVE IInv'
  OBVIOUS
<1>2. CASE ClientWrites
  <2>1. PICK f \in Commands : Write("client", f, 4, hdlc_frame_serialize(f))
    BY <1>2 DEF ClientWrites
  <2>2. f \in CommandFrames
    BY FramesAssumption
  <2>. DEFINE bytes == hdlc_frame_serialize(f)
  <2>3. Sealed(bytes) /\ Uncuttable(bytes) /\ ~valid_frame(bytes)
    <3>1. Sealed(bytes) /\ At(bytes, 3) % 2 = 0 /\ ~valid_frame(bytes)
      BY <2>2, CommandFrameIs
    <3>. HIDE DEF bytes
    <3>. QED BY <3>1 DEF Uncuttable
  <2>4. Write("client", f, 4, bytes) /\ Sealed(bytes) /\ Uncuttable(bytes) /\ ~valid_frame(bytes)
    BY <2>1, <2>3
  <2>5. bytes = hdlc_frame_serialize(f)
    OBVIOUS
  <2>. HIDE DEF bytes
  <2>. QED BY <2>4, <2>5, WriteIInv
<1>3. CASE MeterWrites
  <2>1. PICK f \in Answers, length \in AddressLengths :
               Write("meter", f, length, MeterFrame(f, length))
    BY <1>3 DEF MeterWrites
  <2>2. f \in AnswerFrames /\ length \in {2, 4}
    BY FramesAssumption
  <2>3. Sealed(MeterFrame(f, length)) /\ Uncuttable(MeterFrame(f, length))
    BY <2>2, MeterFrameIs DEF Uncuttable
  <2>. QED BY <2>1, <2>2, <2>3, WriteIInv
<1>4. CASE MeterStops
  <2>1. PICK f \in Answers, length \in AddressLengths, n \in 6..16 :
          LET whole == MeterFrame(f, length)
              short == <<160, n + 2>> \o SubSeq(whole, 4, n + 1)
          IN  /\ n + 4 < Len(whole)
              /\ Write("nobody", f, length, <<126>> \o Checked(short) \o <<126>>)
    BY <1>4 DEF MeterStops
  <2>2. f \in AnswerFrames /\ length \in {2, 4}
    BY FramesAssumption
  <2>. DEFINE whole == MeterFrame(f, length)
              bytes == Stopped(whole, n)
  <2>3. Sealed(whole)
    BY <2>2, MeterFrameIs
  <2>4. n + 4 < Len(whole) /\ Write("nobody", f, length, bytes)
    BY <2>1 DEF Stopped
  <2>. HIDE DEF whole
  <2>5. Sealed(bytes) /\ Uncuttable(bytes)
    <3>0. n + 4 < Len(whole)
      BY <2>4
    <3>1. Sealed(bytes) /\ Len(bytes) <= 4097
      BY <2>3, <3>0, StoppedIs
    <3>. HIDE DEF bytes
    <3>. QED BY <3>1 DEF Uncuttable
  <2>. HIDE DEF bytes
  <2>. QED BY <2>2, <2>4, <2>5, WriteIInv
<1>5. CASE Damage
  <2>1. PICK i \in DOMAIN line, flip \in Flips : line' = [line EXCEPT ![i] = Xor(@, flip)]
    BY <1>5 DEF Damage
  <2>2. intact /\ intact' = FALSE /\ UNCHANGED <<sender, sent, form, received>>
    BY <1>5 DEF Damage
  <2>3. line \in Seq(Byte) /\ DOMAIN line = 1..Len(line)
    BY <1>1 DEF IInv, TypeOK
  <2>4. line # <<>> /\ i \in 1..Len(line)
    BY <2>1, <2>3
  <2>5. Sealed(line)
    BY <1>1, <2>2, <2>4 DEF IInv, OnTheLine
  <2>6. line[i] \in Byte /\ flip \in 1..255
    BY <2>1, <2>3, <2>4, ElementOfSeq, FramesAssumption
  <2>. DEFINE byte == Xor(line[i], flip)
  <2>7. byte \in Byte /\ byte # line[i]
    BY <2>6, Flipped
  <2>8. line' = [line EXCEPT ![i] = byte]
    BY <2>1
  <2>. HIDE DEF byte
  <2>9. line' \in Seq(Byte) /\ ~valid_frame(line')
    BY <2>4, <2>5, <2>7, <2>8, DamageRefused
  <2>. QED BY <1>1, <2>2, <2>4, <2>9, SpoilIInv
<1>6. CASE Cut
  <2>1. PICK n \in 1..(Len(line) - 1) : line' = SubSeq(line, 1, n)
    BY <1>6 DEF Cut
  <2>2. intact /\ intact' = FALSE /\ UNCHANGED <<sender, sent, form, received>>
    BY <1>6 DEF Cut
  <2>3. line # <<>>
    BY <2>1
  <2>4. Sealed(line) /\ (Len(line) <= 4097 \/ At(line, 3) % 2 = 0)
    BY <1>1, <2>2, <2>3 DEF IInv, OnTheLine, Uncuttable
  <2>5. line' \in Seq(Byte) /\ ~valid_frame(line')
    BY <2>1, <2>4, CutRefused
  <2>. QED BY <1>1, <2>2, <2>3, <2>5, SpoilIInv
<1>7. CASE Join
  <2>1. PICK f \in Answers, length \in AddressLengths : line' = MeterFrame(f, length) \o line
    BY <1>7 DEF Join
  <2>2. intact' = FALSE /\ line # <<>> /\ UNCHANGED <<sender, sent, form, received>>
    BY <1>7 DEF Join
  <2>3. Sealed(MeterFrame(f, length)) /\ Len(MeterFrame(f, length)) <= 4097
    BY MeterFrameIs, FramesAssumption
  <2>4. line' \in Seq(Byte) /\ ~valid_frame(line')
    BY <1>1, <2>1, <2>2, <2>3, JoinRefused DEF IInv, TypeOK
  <2>. QED BY <1>1, <2>2, <2>4, SpoilIInv
<1>8. CASE Receive
  BY <1>1, <1>8, ReceiveIInv
<1>9. CASE UNCHANGED vars
  <2>1. /\ sender' = sender /\ sent' = sent /\ form' = form
        /\ line' = line /\ intact' = intact /\ received' = received
    BY <1>9 DEF vars
  <2>2. TypeOK'
    BY <1>1, <2>1 DEF IInv, TypeOK
  <2>3. OnTheLine'
    BY <1>1, <2>1 DEF IInv, OnTheLine
  <2>4. SpoiltRefused' /\ EchoRefused'
    BY <1>1, <2>1 DEF IInv, SpoiltRefused, EchoRefused
  <2>5. AnswerDecoded'
    BY <1>1, <2>1 DEF IInv, AnswerDecoded, AddressDecoded
  <2>. QED BY <2>2, <2>3, <2>4, <2>5 DEF IInv
<1>. QED BY <1>1, <1>2, <1>3, <1>4, <1>5, <1>6, <1>7, <1>8, <1>9 DEF Next

(* The inductive invariant, which the properties of the runs follow from.  *)
THEOREM Invariant == Spec => []IInv
BY InitIInv, NextIInv, PTL DEF Spec

(* Whatever is on the line, what hdlc_frame_parse returns has the types of *)
(* a HdlcFrame, its addresses within fourteen bits.                        *)
THEOREM Typing == Spec => []TypeOK
<1>1. IInv => TypeOK
  BY DEF IInv
<1>. QED BY <1>1, Invariant, PTL

(* No frame is accepted of which the line has changed one byte, lost the   *)
(* end, or put another frame before it, whatever the frame, of any length; *)
(* the header's own check sequence is not needed for it.                   *)
THEOREM SpoiltFramesRefused == Spec => []SpoiltRefused
<1>1. IInv => SpoiltRefused
  BY DEF IInv
<1>. QED BY <1>1, Invariant, PTL

(* The client never takes a frame of its own, whole or spoilt, for an      *)
(* answer.                                                                 *)
THEOREM EchoesRefused == Spec => []EchoRefused
<1>1. IInv => EchoRefused
  BY DEF IInv
<1>. QED BY <1>1, Invariant, PTL

(* What is accepted of a meter is decoded as the meter meant it: command,  *)
(* payload, addresses and numbers.                                         *)
THEOREM AnswersDecoded == Spec => []AnswerDecoded
<1>1. IInv => AnswerDecoded
  BY DEF IInv
<1>. QED BY <1>1, Invariant, PTL

(* What a whole frame of the client claims.                                *)
LEMMA ClaimedIs ==
  ASSUME Sealed(line), line = hdlc_frame_serialize(sent), sent \in CommandFrames
  PROVE  IF Len(sent.payload) <= Room(sent) THEN Claimed = Len(line) - 2
         ELSE Claimed <= Len(line) - 2 - 4096
<1>. DEFINE n == Len(line) - 2
            m == Len(sent.payload)
            k == IF sent.cmd = COMMAND_I THEN 3 ELSE 0
<1>1. Len(line) \in Nat /\ Len(line) >= 10 /\ Claimed = Twelve(n)
  BY LenProperties DEF Sealed, Claimed, Claims, At
<1>2. m \in Nat /\ (m = 0 <=> sent.payload = <<>>)
  BY CommandIs, FramePayload, EmptySeq
<1>3. n = IF sent.payload = <<>> THEN 10 ELSE m + 12 + k
  BY CommandFrameIs
<1>4. Room(sent) = 4083 - k /\ k \in {0, 3}
  BY DEF Room
<1>5. n \in Nat
  BY <1>1
<1>. HIDE DEF n, m, k
<1>6. m <= Room(sent) <=> n <= 4095
  BY <1>2, <1>3, <1>4
<1>7. IF n <= 4095 THEN Twelve(n) = n ELSE Twelve(n) <= n - 4096
  BY <1>5, TwelveBits
<1>8. IF m <= Room(sent) THEN Claimed = n ELSE Claimed <= n - 4096
  BY <1>1, <1>6, <1>7
<1>. QED BY <1>8 DEF n, m

(* Of every frame the client writes, for payloads of every length, both    *)
(* check sequences are right, but for what 16 bits cannot count, and so is *)
(* the length exactly when twelve bits hold it: nothing in                 *)
(* hdlc_frame_serialize stops a longer payload, whose length is cut.       *)
THEOREM CommandsAreWellFormed == Spec => []CommandsWellFormed
<1>1. IInv => CommandsWellFormed
  <2>1. SUFFICES ASSUME IInv, sender = "client", intact, line # <<>>
                 PROVE  /\ IF Len(sent.payload) <= Room(sent) THEN Claimed = Len(line) - 2
                           ELSE Claimed <= Len(line) - 2 - 4096
                        /\ Checksum(line, 9) = checksequence_calc(SubSeq(line, 2, 9))
                        /\ Len(line) - 4 <= 65535 =>
                             Checksum(line, Len(line) - 3)
                               = 65535 - Fcs(Content(line))[Len(line) - 4]
    BY DEF CommandsWellFormed
  <2>2. Sealed(line) /\ sent \in Commands /\ line = hdlc_frame_serialize(sent)
    BY <2>1 DEF IInv, OnTheLine
  <2>3. sent \in CommandFrames
    BY <2>2, FramesAssumption
  <2>4. Checksum(line, 9) = checksequence_calc(SubSeq(line, 2, 9))
    BY <2>2, <2>3, CommandFrameIs
  <2>5. IF Len(sent.payload) <= Room(sent) THEN Claimed = Len(line) - 2
        ELSE Claimed <= Len(line) - 2 - 4096
    BY <2>2, <2>3, ClaimedIs
  <2>6. /\ Content(line) \in Seq(Byte) /\ Len(Content(line)) = Len(line) - 4
        /\ Checksum(line, Len(line) - 3) = checksequence_calc(Content(line))
    BY <2>2, ContentIs DEF Sealed, ContentChecked
  <2>7. ASSUME Len(line) - 4 <= 65535
        PROVE  Checksum(line, Len(line) - 3) = 65535 - Fcs(Content(line))[Len(line) - 4]
    BY <2>6, <2>7, CoversAll
  <2>. QED BY <2>4, <2>5, <2>7
<1>. QED BY <1>1, Invariant, PTL

(* hdlc_frame_parse never reads beyond the bytes it was given.             *)
THEOREM ReadsAreInside == Spec => []ReadsInside
<1>1. IInv => ReadsInside
  BY EveryReadInside DEF IInv, TypeOK
<1>. QED BY <1>1, Invariant, PTL
=============================================================================
