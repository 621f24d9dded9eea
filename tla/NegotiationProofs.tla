-------------------------- MODULE NegotiationProofs --------------------------
(***************************************************************************)
(* What parse_snrm_response does to the context, whatever the bytes of the *)
(* UA are and whatever was proposed; and that the SNRM says the proposals. *)
(***************************************************************************)
EXTENDS Negotiation, SequenceTheorems, TLAPS

(* std::min yields one of the two lengths, and never more than the first.  *)
LEMMA MinIsLower ==
  ASSUME NEW a \in Int, NEW b \in Int
  PROVE  std_min(a, b) \in {a, b} /\ std_min(a, b) <= a /\ std_min(a, b) <= b
BY SMT DEF std_min

LEMMA LengthsAreInts ==
  ASSUME NEW l \in UInt16 PROVE l \in Int
BY SMT DEF UInt16

LEMMA LowBitsAreLengths ==
  ASSUME NEW n \in Nat PROVE n % 65536 \in UInt16
<1>1. \A d \in Nat \ {0} : n % d \in Int /\ 0 <= n % d /\ n % d <= d - 1
  BY SMT
<1>2. 65536 \in Nat \ {0} /\ 65536 - 1 = MaxUInt16 /\ MaxUInt16 \in Int
  BY SMT DEF MaxUInt16
<1>3. n % 65536 \in Int /\ 0 <= n % 65536 /\ n % 65536 <= MaxUInt16
  BY <1>1, <1>2, SMT
<1> QED BY <1>2, <1>3, SMT DEF UInt16

(* As many bytes are read as there are, at most three.                     *)
LEMMA WidthBounded ==
  ASSUME NEW len \in Byte, NEW left \in Nat
  PROVE  Width(len, left) \in 0..3 /\ Width(len, left) <= left
BY SMT DEF Width, std_min, Byte

LEMMA ValueIsNat ==
  ASSUME NEW bytes \in Seq(Byte), NEW first \in Nat, NEW width \in 0..3,
         first + width <= Len(bytes)
  PROVE  Value(bytes, first, width) \in Nat
<1> DEFINE At(n) == bytes[first + n + 1]
<1>1. \A n \in 0..2 : n < width => At(n) \in Nat
  <2> SUFFICES ASSUME NEW n \in 0..2, n < width PROVE At(n) \in Nat
    OBVIOUS
  <2>1. first + n + 1 \in 1..Len(bytes)
    BY LenProperties, SMT
  <2>2. bytes[first + n + 1] \in Byte
    BY <2>1, ElementOfSeq
  <2>3. Byte \subseteq Nat
    BY SMT DEF Byte
  <2> QED BY <2>2, <2>3, Zenon
<1>2. CASE width = 0 BY <1>2, SMT DEF Value
<1>3. CASE width = 1 BY <1>1, <1>3, SMT DEF Value
<1>4. CASE width = 2 BY <1>1, <1>4, SMT DEF Value
<1>5. CASE width = 3 BY <1>1, <1>5, SMT DEF Value
<1> QED BY <1>2, <1>3, <1>4, <1>5, SMT

LEMMA LimitedIsLower ==
  ASSUME NEW proposed \in UInt16, NEW value \in Nat
  PROVE  Limited(proposed, value) \in UInt16 /\ Limited(proposed, value) <= proposed
<1>1. value % 65536 \in UInt16
  BY LowBitsAreLengths
<1>2. proposed \in Int /\ value % 65536 \in Int
  BY <1>1, LengthsAreInts
<1>3. Limited(proposed, value) = std_min(proposed, value % 65536)
  BY DEF Limited
<1> HIDE DEF Limited
<1>4. /\ Limited(proposed, value) \in {proposed, value % 65536}
      /\ Limited(proposed, value) <= proposed
  BY <1>2, <1>3, MinIsLower
<1> QED BY <1>1, <1>4

-----------------------------------------------------------------------------
(* The context while items are read and after: within the proposals, and   *)
(* a length no item has mentioned is the proposal itself.  The second part *)
(* is what makes NothingStale inductive.                                   *)
Started == pc \in {"items", "true"}

Unmentioned ==
  Started =>
    /\ 5 \notin read => ctx.tx = params.tx
    /\ 6 \notin read => ctx.rx = params.rx

Inv == TypeOK /\ OffsetInside /\ WithinProposals /\ Unmentioned

LEMMA Initially == Init => Inv
<1> SUFFICES ASSUME Init PROVE Inv
  OBVIOUS
<1>1. PICK header \in Headers : buffer = header \o payload \o <<0, 0, 126>>
  BY DEF Init
<1>2. header \in Seq(Byte) /\ payload \in Seq(Byte) /\ <<0, 0, 126>> \in Seq(Byte)
  BY NegotiationAssumption, SMT DEF Init, Byte
<1>3. buffer \in Seq(Byte) /\ Len(payload) <= Len(buffer)
  BY <1>1, <1>2, SMT
<1>4. params \in Lengths /\ ctx \in Lengths
  BY NegotiationAssumption DEF Init
<1>5. TypeOK
  BY <1>2, <1>3, <1>4 DEF Init, TypeOK
<1>6. OffsetInside
  BY <1>2, <1>3, LenProperties, SMT DEF Init, OffsetInside
<1>7. WithinProposals /\ Unmentioned
  BY DEF Init, WithinProposals, Unmentioned, Started
<1> QED BY <1>5, <1>6, <1>7 DEF Inv

LEMMA ChecksKeep == Inv /\ Checks => Inv'
<1> SUFFICES ASSUME Inv, Checks PROVE Inv'
  OBVIOUS
<1>1. params \in Lengths /\ ctx \in Lengths
  BY DEF Inv, TypeOK
<1>2. ctx' \in Lengths /\ pc' \in {"items", "false"}
  BY <1>1 DEF Checks
<1>3. TypeOK'
  BY <1>2 DEF Checks, Inv, TypeOK
<1>4. OffsetInside'
  BY DEF Checks, Inv, OffsetInside
<1>5. pc' = "items" => ctx' = params'
  BY DEF Checks
<1>6. WithinProposals'
  <2>1. params.tx \in Int /\ params.rx \in Int
    BY <1>1, LengthsAreInts DEF Lengths
  <2>2. params.tx <= params.tx /\ params.rx <= params.rx
    BY <2>1, SMT
  <2> QED BY <1>2, <1>5, <2>2 DEF WithinProposals, Checks
<1>7. Unmentioned'
  BY <1>2, <1>5 DEF Unmentioned, Started
<1> QED BY <1>3, <1>4, <1>6, <1>7 DEF Inv

LEMMA ReadItemKeeps == Inv /\ ReadItem => Inv'
<1> SUFFICES ASSUME Inv, ReadItem PROVE Inv'
  OBVIOUS
<1> DEFINE id == payload[offset + 1]
           left == Len(payload) - (offset + 2)
           width == Width(payload[offset + 2], left)
           value == Value(buffer, offset + 2, width)
<1>1. /\ payload \in Seq(Byte) /\ buffer \in Seq(Byte)
      /\ offset \in Nat /\ offset + 1 < Len(payload)
      /\ Len(payload) <= Len(buffer)
      /\ Len(payload) \in Nat /\ Len(buffer) \in Nat
  BY LenProperties DEF Inv, TypeOK, OffsetInside, ReadItem
<1>2. /\ offset + 1 \in 1..Len(payload)
      /\ offset + 2 \in 1..Len(payload)
      /\ left \in Nat
  BY <1>1, SMT
<1>3. id \in Byte /\ payload[offset + 2] \in Byte
  BY <1>1, <1>2, ElementOfSeq
<1>4. width \in 0..3 /\ width <= left
  BY <1>2, <1>3, WidthBounded
<1>5. value \in Nat
  <2> HIDE DEF width
  <2>1. offset + 2 \in Nat /\ offset + 2 + width <= Len(buffer)
    BY <1>1, <1>4, SMT
  <2> QED BY <1>1, <1>4, <2>1, ValueIsNat
<1>6. /\ params \in Lengths /\ ctx \in Lengths
      /\ params.tx \in UInt16 /\ params.rx \in UInt16
      /\ ctx.tx \in UInt16 /\ ctx.rx \in UInt16
      /\ read \subseteq Byte
  BY DEF Inv, TypeOK, Lengths
<1>7. ctx.tx <= params.tx /\ ctx.rx <= params.rx
  BY DEF Inv, WithinProposals, ReadItem
<1>8. /\ Limited(params.tx, value) \in UInt16 /\ Limited(params.tx, value) <= params.tx
      /\ Limited(params.rx, value) \in UInt16 /\ Limited(params.rx, value) <= params.rx
  BY <1>5, <1>6, LimitedIsLower
<1>9. /\ pc = "items"
      /\ offset' = offset + 2 + width
      /\ ctx' = [tx |-> IF id = 5 THEN Limited(params.tx, value) ELSE ctx.tx,
                 rx |-> IF id = 6 THEN Limited(params.rx, value) ELSE ctx.rx]
      /\ read' = read \cup {id}
      /\ UNCHANGED <<params, ua, payload, buffer, pc>>
  BY DEF ReadItem
<1> HIDE DEF id, width, value
<1>10. offset' \in Nat /\ offset' <= Len(payload)
  BY <1>1, <1>4, <1>9, SMT
<1>11. ctx' \in Lengths
  BY <1>6, <1>8, <1>9 DEF Lengths
<1>12. TypeOK'
  BY <1>3, <1>6, <1>9, <1>10, <1>11 DEF Inv, TypeOK
<1>13. OffsetInside'
  BY <1>1, <1>9, <1>10 DEF OffsetInside
<1>14. WithinProposals'
  BY <1>7, <1>8, <1>9 DEF WithinProposals
<1>15. Unmentioned'
  BY <1>9 DEF Inv, Unmentioned, Started
<1> QED BY <1>12, <1>13, <1>14, <1>15 DEF Inv

LEMMA NextKeeps == Inv /\ [Next]_vars => Inv'
<1> SUFFICES ASSUME Inv, [Next]_vars PROVE Inv'
  OBVIOUS
<1>1. CASE Checks BY <1>1, ChecksKeep
<1>2. CASE ReadItem BY <1>2, ReadItemKeeps
<1>3. CASE Return
  BY <1>3 DEF Return, Inv, TypeOK, OffsetInside, WithinProposals, Unmentioned, Started
<1>4. CASE UNCHANGED vars
  BY <1>4 DEF vars, Inv, TypeOK, OffsetInside, WithinProposals, Unmentioned, Started
<1> QED BY <1>1, <1>2, <1>3, <1>4 DEF Next

LEMMA Invariance == Spec => []Inv
<1>1. Init => Inv BY Initially
<1>2. Inv /\ [Next]_vars => Inv' BY NextKeeps
<1> QED BY <1>1, <1>2, PTL DEF Spec

-----------------------------------------------------------------------------
(* The context holds two lengths of 16 bits, whatever the frame holds.     *)
THEOREM TypeCorrect == Spec => []TypeOK
<1>1. Inv => TypeOK BY DEF Inv
<1> QED BY <1>1, Invariance, PTL

(* The loop of parse_snrm_response never goes beyond the information       *)
(* field, nor the buffer, although it indexes one with the other's offset. *)
THEOREM OffsetInsideHolds == Spec => []OffsetInside
<1>1. Inv => OffsetInside BY DEF Inv
<1> QED BY <1>1, Invariance, PTL

(* No meter can make the client use longer fields than it proposed.        *)
THEOREM WithinProposalsHolds == Spec => []WithinProposals
<1>1. Inv => WithinProposals BY DEF Inv
<1> QED BY <1>1, Invariance, PTL

(* Nothing of an earlier connection is left once a UA is accepted.         *)
THEOREM NothingStaleHolds == Spec => []NothingStale
<1>1. Inv => NothingStale BY DEF Inv, Unmentioned, Started, NothingStale
<1> QED BY <1>1, Invariance, PTL

(* A UA that is refused leaves what an earlier connection agreed on.       *)
THEOREM RefusalKeepsContextHolds == Spec => RefusalKeepsContext
<1>1. [Next]_vars => [pc' = "false" => ctx' = ctx]_vars
  <2> SUFFICES ASSUME Next, pc' = "false" PROVE ctx' = ctx
    OBVIOUS
  <2> QED BY DEF Next, Checks, ReadItem, Return
<1> QED BY <1>1, PTL DEF Spec, RefusalKeepsContext

-----------------------------------------------------------------------------
(* The items of serialize_snrm, read one behind the other.                 *)

(* At most two items start where they should: the first, and the one       *)
(* behind it.                                                              *)
LEMMA StartsAre ==
  ASSUME NEW items \in Seq(Byte), Len(items) \in 2..8,
         NEW a \in Nat, NEW b \in Nat,
         Behind(items, 1) = a, Behind(items, a) = b, Behind(items, b) = b
  PROVE  Starts(items) = {1, a, b} \cap (1..Len(items))
<1>. DEFINE n == Len(items)
            Rec(f) == [k \in 0..n |-> IF k = 0 THEN 1 ELSE Behind(items, f[k - 1])]
            P(f) == f = Rec(f)
            g == [k \in 0..n |-> IF k = 0 THEN 1 ELSE IF k = 1 THEN a ELSE b]
            start == CHOOSE f : P(f)
<1>1. P(g)
  <2>1. ASSUME NEW k \in 0..n
        PROVE  g[k] = IF k = 0 THEN 1 ELSE Behind(items, g[k - 1])
    <3>1. CASE k = 0
      BY <3>1
    <3>2. CASE k = 1
      BY <3>2
    <3>3. CASE k >= 2
      <4>1. k - 1 \in 0..n /\ k - 1 # 0 /\ g[k] = b
        BY <3>3
      <4>2. g[k - 1] \in {a, b}
        BY <4>1
      <4>. HIDE DEF g
      <4>. QED BY <3>3, <4>1, <4>2
    <3>. QED BY <3>1, <3>2, <3>3
  <2>. QED BY <2>1
<1>2. P(start)
  <2>. HIDE DEF P, g
  <2>. QED BY <1>1
<1>3. Starts(items) = {start[k] : k \in 0..n} \cap (1..n)
  BY DEF Starts
<1>4. \A k \in 0..n : start[k] = IF k = 0 THEN 1 ELSE Behind(items, start[k - 1])
  <2>. HIDE DEF start
  <2>. QED BY <1>2
<1>0. n \in 2..8
  OBVIOUS
<1>. HIDE DEF start, P, g, Rec, n
<1>5. start[0] = 1 /\ start[1] = a /\ start[2] = b
  <2>1. 0 \in 0..n /\ 1 \in 0..n /\ 2 \in 0..n /\ 1 - 1 = 0 /\ 2 - 1 = 1
    BY <1>0
  <2>2. start[0] = 1
    BY <1>4, <2>1
  <2>3. start[1] = a
    BY <1>4, <2>1, <2>2
  <2>4. start[2] = b
    BY <1>4, <2>1, <2>3
  <2>. QED BY <2>2, <2>3, <2>4
<1>6. ASSUME NEW k \in 2..7, k + 1 <= n, start[k] = b PROVE start[k + 1] = b
  <2>1. k + 1 \in 0..n /\ k + 1 # 0 /\ (k + 1) - 1 = k
    BY <1>0, <1>6
  <2>. QED BY <1>4, <1>6, <2>1
<1>7. 3 <= n => start[3] = b
  BY <1>5, <1>6
<1>8. 4 <= n => start[4] = b
  BY <1>0, <1>6, <1>7, 4 = 3 + 1, 4 <= n => 3 <= n
<1>9. 5 <= n => start[5] = b
  BY <1>0, <1>6, <1>8, 5 = 4 + 1, 5 <= n => 4 <= n
<1>10. 6 <= n => start[6] = b
  BY <1>0, <1>6, <1>9, 6 = 5 + 1, 6 <= n => 5 <= n
<1>11. 7 <= n => start[7] = b
  BY <1>0, <1>6, <1>10, 7 = 6 + 1, 7 <= n => 6 <= n
<1>12. 8 <= n => start[8] = b
  BY <1>0, <1>6, <1>11, 8 = 7 + 1, 8 <= n => 7 <= n
<1>13. \A k \in 0..n : start[k] \in {1, a, b}
  <2>1. \A k \in 0..n : \/ k = 0 \/ k = 1 \/ k = 2 \/ k = 3 \/ k = 4 \/ k = 5
                        \/ k = 6 \/ k = 7 \/ k = 8
    BY <1>0
  <2>. QED BY <1>0, <1>5, <1>7, <1>8, <1>9, <1>10, <1>11, <1>12, <2>1
<1>18. 0 \in 0..n /\ 1 \in 0..n /\ 2 \in 0..n
  BY <1>0
<1>14. \E k \in 0..n : start[k] = 1
  BY <1>5, <1>18
<1>15. \E k \in 0..n : start[k] = a
  BY <1>5, <1>18
<1>16. \E k \in 0..n : start[k] = b
  BY <1>5, <1>18
<1>17. {start[k] : k \in 0..n} = {1, a, b}
  BY <1>13, <1>14, <1>15, <1>16
<1>. QED BY <1>3, <1>17 DEF n

(* An item: nothing for 128, or id, width and as many bytes of the length. *)
LEMMA ItemIs ==
  ASSUME NEW id \in Byte, NEW length \in UInt16
  PROVE  LET x == Item(id, length)
         IN  /\ x \in Seq(Byte)
             /\ length = 128 => x = <<>>
             /\ length # 128 =>
                  /\ Len(x) \in {3, 4} /\ x[1] = id /\ x[2] = Len(x) - 2
                  /\ Len(x) = 3 => x[3] = length
                  /\ Len(x) = 4 => 256 * x[3] + x[4] = length
<1>. DEFINE x == Item(id, length)
            hi == length \div 256
            lo == length % 256
<1>1. length \in Nat /\ length <= 65535
  BY SMT DEF UInt16, MaxUInt16
<1>2. hi \in 0..255 /\ lo \in 0..255 /\ 256 * hi + lo = length /\ (length < 128 => lo = length)
  <2>1. hi <= 255
    BY <1>1, SMT
  <2>. QED BY <1>1, <2>1
<1>3. x = IF length = 128 THEN <<>> ELSE IF length < 128 THEN <<id, 1, lo>> ELSE <<id, 2, hi, lo>>
  BY DEF Item
<1>. HIDE DEF x, hi, lo
<1>4. hi \in Byte /\ lo \in Byte /\ 1 \in Byte /\ 2 \in Byte
  BY <1>2 DEF Byte
<1>5. CASE length = 128
  BY <1>3, <1>5 DEF x
<1>6. CASE length < 128
  <2>1. x = <<id, 1, lo>> /\ length # 128
    BY <1>1, <1>3, <1>6
  <2>2. x \in Seq(Byte) /\ Len(x) = 3 /\ x[1] = id /\ x[2] = 1 /\ x[3] = lo
    BY <1>4, <2>1
  <2>. QED BY <1>2, <1>6, <2>1, <2>2 DEF x
<1>7. CASE length > 128
  <2>1. x = <<id, 2, hi, lo>> /\ length # 128
    BY <1>1, <1>3, <1>7
  <2>2. x \in Seq(Byte) /\ Len(x) = 4 /\ x[1] = id /\ x[2] = 2 /\ x[3] = hi /\ x[4] = lo
    BY <1>4, <2>1
  <2>. QED BY <1>2, <2>1, <2>2 DEF x
<1>. QED BY <1>1, <1>5, <1>6, <1>7

(* An item that stands at o is read as it was written.                     *)
LEMMA ItemRead ==
  ASSUME NEW items, NEW o \in Nat, NEW id \in Byte, NEW length \in UInt16, length # 128,
         \A i \in 1..Len(Item(id, length)), j \in Nat :
           j = i + (o - 1) => items[j] = Item(id, length)[i]
  PROVE  /\ items[o] = id
         /\ items[o + 1] = Len(Item(id, length)) - 2
         /\ Value(items, o + 1, items[o + 1]) = length
<1>. DEFINE x == Item(id, length)
            n == Len(x)
<1>1. /\ n \in {3, 4} /\ x[1] = id /\ x[2] = n - 2
      /\ n = 3 => x[3] = length
      /\ n = 4 => 256 * x[3] + x[4] = length
  BY ItemIs
<1>. HIDE DEF x, n
<1>2. \A i \in 1..n, j \in Nat : j = i + (o - 1) => items[j] = x[i]
  BY DEF x, n
<1>3. items[o] = x[1] /\ items[o + 1] = x[2] /\ items[o + 2] = x[3] /\ (n = 4 => items[o + 3] = x[4])
  <2>1. 1 \in 1..n /\ 2 \in 1..n /\ 3 \in 1..n /\ (n = 4 => 4 \in 1..n)
    BY <1>1
  <2>2. /\ o = 1 + (o - 1) /\ o + 1 = 2 + (o - 1) /\ o + 2 = 3 + (o - 1) /\ o + 3 = 4 + (o - 1)
        /\ o + 1 \in Nat /\ o + 2 \in Nat /\ o + 3 \in Nat
    OBVIOUS
  <2>. QED BY <1>2, <2>1, <2>2
<1>4. Value(items, o + 1, n - 2) = length
  <2>1. ((o + 1) + 0) + 1 = o + 2 /\ ((o + 1) + 1) + 1 = o + 3
    OBVIOUS
  <2>2. CASE n = 3
    <3>1. Value(items, o + 1, 1) = 256 * 0 + items[((o + 1) + 0) + 1]
      BY DEF Value
    <3>2. n - 2 = 1 /\ x[3] = length
      BY <1>1, <2>2
    <3>3. Value(items, o + 1, 1) = 256 * 0 + items[o + 2]
      BY ONLY <3>1, <2>1
    <3>0. length \in Nat
      BY DEF UInt16
    <3>4. 256 * 0 + items[o + 2] = length
      BY ONLY <1>3, <3>2, <3>0
    <3>. QED BY <3>2, <3>3, <3>4
  <2>3. CASE n = 4
    <3>1. Value(items, o + 1, 2)
            = 256 * (256 * 0 + items[((o + 1) + 0) + 1]) + items[((o + 1) + 1) + 1]
      BY DEF Value
    <3>2. n - 2 = 2 /\ 256 * x[3] + x[4] = length
      BY <1>1, <2>3
    <3>3. Value(items, o + 1, 2) = 256 * (256 * 0 + items[o + 2]) + items[o + 3]
      BY ONLY <3>1, <2>1
    <3>4. x[3] \in Byte /\ x[4] \in Byte
      <4>1. x \in Seq(Byte) /\ 3 \in 1..Len(x) /\ 4 \in 1..Len(x)
        BY <1>1, <2>3, ItemIs DEF x, n
      <4>. QED BY ONLY <4>1, ElementOfSeq
    <3>5. 256 * (256 * 0 + x[3]) + x[4] = 256 * x[3] + x[4]
      <4>1. \A p, q \in Byte : 256 * (256 * 0 + p) + q = 256 * p + q
        BY DEF Byte
      <4>. QED BY ONLY <3>4, <4>1
    <3>. QED BY <1>3, <2>3, <3>2, <3>3, <3>5
  <2>. QED BY <1>1, <2>2, <2>3
<1>. QED BY <1>1, <1>3, <1>4 DEF x, n

(* One item alone starts at 1.                                             *)
LEMMA OneStart ==
  ASSUME NEW s \in Seq(Byte), Len(s) \in 2..8, s[2] = Len(s) - 2
  PROVE  Starts(s) = {1}
<1>. DEFINE a == Len(s) + 1
<1>1. /\ a \in Nat /\ s[1 + 1] = Len(s) - 2 /\ 1 < Len(s) /\ ~(a < Len(s))
      /\ a = 1 + 2 + (Len(s) - 2) /\ 1 \in 1..Len(s) /\ ~(a \in 1..Len(s))
  OBVIOUS
<1>. HIDE DEF a
<1>2. Behind(s, 1) = a /\ Behind(s, a) = a
  BY ONLY <1>1 DEF Behind
<1>3. Starts(s) = {1, a, a} \cap (1..Len(s))
  BY <1>1, <1>2, StartsAre
<1>. QED BY ONLY <1>1, <1>3

(* It says a length of its own id, and of another id that there is none.   *)
LEMMA SaysOne ==
  ASSUME NEW s, NEW length, NEW id \in Nat, NEW other \in Nat, Starts(s) = {1}, s[1] = id,
         other # id, Value(s, 2, s[2]) = length
  PROVE  Says(s, id, length) /\ Says(s, other, 128)
<1>1. 1 + 1 = 2
  OBVIOUS
<1>2. {p \in Starts(s) : s[p] = id} = {1} /\ {p \in Starts(s) : s[p] = other} = {}
  OBVIOUS
<1>. QED BY ONLY <1>1, <1>2, Value(s, 2, s[2]) = length DEF Says

(* Where two items of 3 or 4 bytes start and end.                          *)
LEMMA TwoWidths ==
  ASSUME NEW p \in {3, 4}, NEW q \in {3, 4}, NEW c, NEW d, NEW e,
         c = p + 1, e = p + q, d = p + q + 1
  PROVE  /\ c \in Nat /\ d \in Nat /\ e \in 2..8 /\ c # 1
         /\ c \in 1..e /\ 1 \in 1..e /\ ~(d \in 1..e) /\ 1 < e /\ c < e
         /\ ~(d < e) /\ c = 1 + 2 + (p - 2) /\ d = c + 2 + (q - 2)
OBVIOUS

(* A length that is 128 is not mentioned, another one is where it starts.  *)
LEMMA Readable ==
  ASSUME NEW tx \in UInt16, NEW rx \in UInt16
  PROVE  Says(Item(5, tx) \o Item(6, rx), 5, tx) /\ Says(Item(5, tx) \o Item(6, rx), 6, rx)
<1>. DEFINE x == Item(5, tx)
            y == Item(6, rx)
            s == x \o y
<1>1. 5 \in Byte /\ 6 \in Byte
  BY DEF Byte
<1>2. /\ x \in Seq(Byte) /\ (tx = 128 => x = <<>>) /\ (tx # 128 => Len(x) \in {3, 4})
      /\ y \in Seq(Byte) /\ (rx = 128 => y = <<>>) /\ (rx # 128 => Len(y) \in {3, 4})
  BY <1>1, ItemIs
<1>3. /\ s \in Seq(Byte) /\ Len(s) = Len(x) + Len(y)
      /\ \A i \in 1..Len(x) : s[i] = x[i]
      /\ \A i \in 1..Len(y), j \in Nat : j = i + Len(x) => s[j] = y[i]
  <2>. HIDE DEF x, y
  <2>1. s \in Seq(Byte) /\ Len(s) = Len(x) + Len(y)
    BY <1>2, ConcatProperties
  <2>2. \A k \in 1..(Len(x) + Len(y)) : s[k] = IF k <= Len(x) THEN x[k] ELSE y[k - Len(x)]
    BY <1>2, ConcatProperties
  <2>3. Len(x) \in Nat /\ Len(y) \in Nat
    BY <1>2
  <2>. HIDE DEF s
  <2>4. \A i \in 1..Len(x) : s[i] = x[i]
    BY <2>2, <2>3
  <2>5. ASSUME NEW i \in 1..Len(y), NEW j \in Nat, j = i + Len(x) PROVE s[j] = y[i]
    <3>1. j \in 1..(Len(x) + Len(y)) /\ ~(j <= Len(x)) /\ j - Len(x) = i
      BY <2>3, <2>5
    <3>. QED BY <2>2, <3>1
  <2>. QED BY <2>1, <2>4, <2>5
<1>. DEFINE o == Len(x) + 1
<1>4. ASSUME tx # 128
      PROVE  s[1] = 5 /\ s[2] = Len(x) - 2 /\ Value(s, 2, s[2]) = tx
  <2>1. \A i \in 1..Len(x), j \in Nat : j = i + (1 - 1) => s[j] = x[i]
    BY <1>3
  <2>2. s[1] = 5 /\ s[1 + 1] = Len(x) - 2 /\ Value(s, 1 + 1, s[1 + 1]) = tx
    <3>. HIDE DEF s
    <3>1. 1 \in Nat
      OBVIOUS
    <3>. QED BY <1>1, <1>4, <2>1, <3>1, ItemRead
  <2>3. 1 + 1 = 2
    OBVIOUS
  <2>. QED BY ONLY <2>2, <2>3
<1>5. ASSUME rx # 128
      PROVE  s[o] = 6 /\ s[o + 1] = Len(y) - 2 /\ Value(s, o + 1, s[o + 1]) = rx
  <2>1. o \in Nat
    BY <1>2
  <2>2. \A i \in 1..Len(y), j \in Nat : j = i + (o - 1) => s[j] = y[i]
    BY <1>2, <1>3
  <2>. HIDE DEF s, o
  <2>. QED BY <1>1, <1>5, <2>1, <2>2, ItemRead
<1>11. o = Len(x) + 1 /\ Len(x) \in Nat /\ Len(y) \in Nat
  BY <1>2
<1>. HIDE DEF x, y, s, o
<1>6. /\ Len(x) = IF tx = 128 THEN 0 ELSE Len(x)
      /\ Len(y) = IF rx = 128 THEN 0 ELSE Len(y)
  BY <1>2, EmptySeq
<1>7. CASE tx = 128 /\ rx = 128
  <2>1. Len(s) = 0
    BY <1>3, <1>6, <1>7
  <2>2. Starts(s) = {}
    BY <2>1 DEF Starts
  <2>. QED BY <1>7, <2>2 DEF Says, s, x, y
<1>8. CASE tx # 128 /\ rx = 128
  <2>1. Len(s) = Len(x) /\ Len(s) \in 2..8 /\ s[2] = Len(s) - 2 /\ s[1] = 5
    BY <1>2, <1>3, <1>4, <1>11, <1>6, <1>8
  <2>2. Starts(s) = {1}
    BY <1>3, <2>1, OneStart
  <2>3. Says(s, 5, tx) /\ Says(s, 6, rx)
    BY <1>4, <1>8, <2>1, <2>2, SaysOne
  <2>. QED BY <2>3 DEF s, x, y
<1>9. CASE tx = 128 /\ rx # 128
  <2>1. o = 1 /\ o + 1 = 2
    BY <1>11, <1>6, <1>9
  <2>2. s[1] = 6 /\ s[2] = Len(y) - 2 /\ Value(s, 2, s[2]) = rx
    BY ONLY <1>5, <1>9, <2>1
  <2>3. Len(s) = Len(y) /\ Len(s) \in 2..8
    BY <1>2, <1>3, <1>11, <1>6, <1>9
  <2>4. Starts(s) = {1}
    BY <1>3, <2>2, <2>3, OneStart
  <2>5. Says(s, 6, rx) /\ Says(s, 5, 128)
    <3>1. 5 # 6 /\ 5 \in Nat /\ 6 \in Nat
      OBVIOUS
    <3>. QED BY ONLY <2>2, <2>4, <3>1, SaysOne
  <2>. QED BY <1>9, <2>5 DEF s, x, y
<1>10. CASE tx # 128 /\ rx # 128
  <2>1. /\ Len(x) \in {3, 4} /\ Len(y) \in {3, 4} /\ Len(s) = Len(x) + Len(y)
        /\ s[1] = 5 /\ s[2] = Len(x) - 2 /\ s[o] = 6 /\ s[o + 1] = Len(y) - 2
    BY <1>2, <1>3, <1>4, <1>5, <1>10
  <2>. DEFINE b == Len(s) + 1
  <2>2. /\ o \in Nat /\ b \in Nat /\ Len(s) \in 2..8 /\ s[1 + 1] = s[2] /\ o # 1
        /\ o \in 1..Len(s) /\ 1 \in 1..Len(s) /\ ~(b \in 1..Len(s)) /\ 1 < Len(s)
        /\ o < Len(s) /\ ~(b < Len(s)) /\ o = 1 + 2 + (Len(x) - 2)
        /\ b = o + 2 + (Len(y) - 2)
    <3>1. o = Len(x) + 1 /\ o + 1 \in Nat /\ Len(s) = Len(x) + Len(y) /\ b = Len(x) + Len(y) + 1
      BY <1>11, <2>1
    <3>2. 1 + 1 = 2
      OBVIOUS
    <3>. HIDE DEF b
    <3>4. o \in Int /\ b \in Int /\ Len(s) \in Int /\ Len(x) \in {3, 4} /\ Len(y) \in {3, 4}
      <4>1. \A p, q \in {3, 4} : p + 1 \in Int /\ p + q \in Int /\ p + q + 1 \in Int
        OBVIOUS
      <4>. QED BY ONLY <2>1, <3>1, <4>1
    <3>5. s[1 + 1] = s[2]
      BY ONLY <3>2
    <3>7. /\ o \in Nat /\ b \in Nat /\ Len(s) \in 2..8 /\ o # 1
          /\ o \in 1..Len(s) /\ 1 \in 1..Len(s) /\ ~(b \in 1..Len(s)) /\ 1 < Len(s) /\ o < Len(s)
          /\ ~(b < Len(s)) /\ o = 1 + 2 + (Len(x) - 2) /\ b = o + 2 + (Len(y) - 2)
      <4>1. PICK p \in {3, 4} : p = Len(x)
        BY ONLY <3>4
      <4>2. PICK q \in {3, 4} : q = Len(y)
        BY ONLY <3>4
      <4>3. o = p + 1 /\ Len(s) = p + q /\ b = p + q + 1
        BY ONLY <3>1, <4>1, <4>2
      <4>4. PICK e : e = Len(s)
        OBVIOUS
      <4>5. e = p + q
        BY ONLY <4>3, <4>4
      <4>6. /\ o \in Nat /\ b \in Nat /\ e \in 2..8 /\ o # 1
            /\ o \in 1..e /\ 1 \in 1..e /\ ~(b \in 1..e) /\ 1 < e /\ o < e
            /\ ~(b < e) /\ o = 1 + 2 + (p - 2) /\ b = o + 2 + (q - 2)
        BY ONLY <4>3, <4>5, TwoWidths
      <4>. QED BY ONLY <4>1, <4>2, <4>4, <4>6, Zenon
    <3>. QED BY ONLY <3>5, <3>7
  <2>. HIDE DEF b
  <2>3. Behind(s, 1) = o
    BY ONLY <2>1, <2>2 DEF Behind
  <2>4. Behind(s, o) = b /\ Behind(s, b) = b
    BY ONLY <2>1, <2>2 DEF Behind
  <2>5. Starts(s) = {1, o, b} \cap (1..Len(s))
    BY <1>3, <2>2, <2>3, <2>4, StartsAre
  <2>6. Starts(s) = {1, o}
    BY ONLY <2>2, <2>5
  <2>7. Value(s, 2, s[2]) = tx /\ Value(s, o + 1, s[o + 1]) = rx
    BY <1>4, <1>5, <1>10
  <2>8. {p \in Starts(s) : s[p] = 5} = {1} /\ {p \in Starts(s) : s[p] = 6} = {o}
    BY ONLY <2>1, <2>6
  <2>9. 1 + 1 = 2
    OBVIOUS
  <2>10. Says(s, 5, tx)
    BY ONLY <2>7, <2>8, <2>9 DEF Says
  <2>11. Says(s, 6, rx)
    BY ONLY <2>7, <2>8 DEF Says
  <2>. QED BY <2>10, <2>11 DEF s, x, y
<1>. QED BY <1>7, <1>8, <1>9, <1>10

(* Whatever lengths are proposed, the SNRM says those: none, one or two    *)
(* bytes, at every limit of serialize_snrm.                                *)
THEOREM ProposalsReadableHolds == Spec => []ProposalsReadable
<1>1. Inv => ProposalsReadable
  <2> SUFFICES ASSUME Inv PROVE ProposalsReadable
    OBVIOUS
  <2>1. params.tx \in UInt16 /\ params.rx \in UInt16
    BY DEF Inv, TypeOK, Lengths
  <2>2. /\ Says(Item(5, params.tx) \o Item(6, params.rx), 5, params.tx)
        /\ Says(Item(5, params.tx) \o Item(6, params.rx), 6, params.rx)
    BY <2>1, Readable
  <2> QED BY <2>2 DEF ProposalsReadable, serialize_snrm
<1> QED BY <1>1, Invariance, PTL
=============================================================================
