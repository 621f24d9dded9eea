---------------------------- MODULE WrapperProofs ----------------------------
(***************************************************************************)
(* Theorems about the wrapper codec and its client, for every APDU, every  *)
(* pair of ports, every place a stream may cut and any number of frames.   *)
(***************************************************************************)
EXTENDS WrapperClient, SequenceTheorems, TLAPS

-----------------------------------------------------------------------------
(* The codec.                                                              *)

LEMMA HiLo ==
  ASSUME NEW n \in Nat
  PROVE  /\ Hi(n) \in Byte /\ Lo(n) \in Byte
         /\ Number(Hi(n), Lo(n)) = n % 65536
         /\ n < 65536 => Hi(n) = n \div 256
<1>1. Hi(n) \in Byte /\ Lo(n) \in Byte
  BY DEF Hi, Lo, Byte
<1>2. Number(Hi(n), Lo(n)) = n % 65536
  BY DEF Hi, Lo, Number
<1>3. n < 65536 => Hi(n) = n \div 256
  BY DEF Hi
<1>. QED BY <1>1, <1>2, <1>3

(* Sums at the edge of 16 bits.                                            *)
LEMMA WrapAround ==
  ASSUME NEW n \in Nat
  PROVE  /\ n < 65536 => n % 65536 = n
         /\ n >= 65536 /\ n < 131072 => n % 65536 = n - 65536
         /\ n % 65536 \in Nat /\ n % 65536 < 65536 /\ n % 65536 <= n
<1>1. n < 65536 => n % 65536 = n
  OBVIOUS
<1>2. n >= 65536 /\ n < 131072 => n % 65536 = n - 65536
  OBVIOUS
<1>3. n % 65536 \in Nat /\ n % 65536 < 65536
  OBVIOUS
<1>4. n % 65536 <= n
  OBVIOUS
<1>. QED BY <1>1, <1>2, <1>3, <1>4

LEMMA ByteRange ==
  ASSUME NEW b \in Byte
  PROVE  b \in Nat /\ b < 256
BY DEF Byte

(* What serialize writes: eight bytes, then the data.                      *)
LEMMA SerializeType ==
  ASSUME NEW params \in WrapperParameters, NEW data \in Seq(Byte)
  PROVE  /\ serialize(params, data) \in Seq(Byte)
         /\ Len(serialize(params, data)) = Len(data) + 8
         /\ serialize(params, data)[3] = Hi(Len(data))
         /\ serialize(params, data)[4] = Lo(Len(data))
<1>. DEFINE src == params.w_port_source
            dst == params.w_port_destination
<1>1. src \in Nat /\ dst \in Nat /\ Len(data) \in Nat
  BY DEF WrapperParameters, UInt16
<1>2. /\ Hi(Len(data)) \in Byte /\ Lo(Len(data)) \in Byte
      /\ Hi(src) \in Byte /\ Lo(src) \in Byte
      /\ Hi(dst) \in Byte /\ Lo(dst) \in Byte
      /\ 0 \in Byte /\ 1 \in Byte
  <2>1. 0 \in Byte /\ 1 \in Byte
    BY DEF Byte
  <2>. QED BY <1>1, <2>1, HiLo
<1>. QED BY <1>2 DEF serialize

(* The sum that is compared with the size of the buffer wraps at 16 bits.  *)
(* Yet whatever bytes a stream returns, a buffer that is accepted is as    *)
(* long as its length field says: no short buffer passes for a frame       *)
(* (wrapper_frame_complete).                                               *)
THEOREM CompleteIsExact ==
  ASSUME NEW buffer \in Seq(Byte), wrapper_frame_complete(buffer)
  PROVE  Len(buffer) = Number(buffer[3], buffer[4]) + 8
<1>. DEFINE n == Number(buffer[3], buffer[4])
<1>1. Len(buffer) \in Nat /\ Len(buffer) >= 9
  BY DEF wrapper_frame_complete
<1>2. buffer[3] \in Nat /\ buffer[3] < 256 /\ buffer[4] \in Nat /\ buffer[4] < 256
  <2>1. buffer[3] \in Byte /\ buffer[4] \in Byte
    BY <1>1
  <2>. QED BY <2>1, ByteRange
<1>3. n \in Nat /\ n < 65536
  BY <1>2 DEF Number
<1>4. (n + 8) % 65536 = Len(buffer)
  BY DEF wrapper_frame_complete, MaxUInt16
<1>. HIDE DEF n
<1>5. n + 8 < 65536
  BY <1>1, <1>3, <1>4, WrapAround
<1>. QED BY <1>3, <1>4, <1>5, WrapAround DEF n

(* Which frames of the client's own codec the check lets through: those    *)
(* with 1 to 65527 bytes of data.  An APDU of the eight sizes above that,  *)
(* which the proposed PDU size of 0xFFFF allows, and an empty one are      *)
(* refused; so is every longer one, whose length is cut                    *)
(* (wrapper_frame_complete, serialize).                                    *)
THEOREM WrittenAccepted ==
  ASSUME NEW params \in WrapperParameters, NEW data \in Seq(Byte)
  PROVE  wrapper_frame_complete(serialize(params, data))
           <=> 1 <= Len(data) /\ Len(data) <= 65527
<1>. DEFINE frame == serialize(params, data)
            n == Len(data)
            cut == n % 65536
<1>1. Len(frame) = n + 8 /\ Number(frame[3], frame[4]) = cut /\ n \in Nat
  <2>1. n \in Nat
    OBVIOUS
  <2>2. Len(frame) = n + 8 /\ frame[3] = Hi(n) /\ frame[4] = Lo(n)
    BY SerializeType
  <2>. QED BY <2>1, <2>2, HiLo
<1>2. wrapper_frame_complete(frame) <=> n + 8 >= 9 /\ (cut + 8) % 65536 = n + 8
  BY <1>1 DEF wrapper_frame_complete, MaxUInt16
<1>. HIDE DEF frame, n
<1>3. cut \in Nat /\ cut < 65536 /\ cut <= n /\ (n < 65536 => cut = n)
  BY <1>1, WrapAround
<1>. HIDE DEF cut
<1>4. (cut + 8) % 65536 <= cut + 8 /\ (cut + 8) % 65536 < 65536
        /\ (cut + 8 < 65536 => (cut + 8) % 65536 = cut + 8)
  BY <1>3, WrapAround
<1>5. 1 <= n /\ n <= 65527 => n + 8 >= 9 /\ (cut + 8) % 65536 = n + 8
  BY <1>1, <1>3, <1>4
<1>6. n + 8 >= 9 /\ (cut + 8) % 65536 = n + 8 => 1 <= n /\ n <= 65527
  BY <1>1, <1>3, <1>4
<1>. QED BY <1>2, <1>5, <1>6 DEF frame, n

-----------------------------------------------------------------------------
(* Types.                                                                  *)

LEMMA WordRange ==
  ASSUME NEW n \in UInt16
  PROVE  n \in Nat /\ n < 65536
BY DEF UInt16, MaxUInt16

LEMMA LengthRange ==
  ASSUME NEW n \in 1..MaxUInt16
  PROVE  n \in Nat /\ 1 <= n /\ n < 65536
BY DEF MaxUInt16

LEMMA ApduRange ==
  ASSUME NEW apdu \in APDU
  PROVE  apdu \in Seq(Byte) /\ Len(apdu) \in Nat /\ 1 <= Len(apdu) /\ Len(apdu) < 65536
<1>1. apdu \in Seq(Byte) /\ Len(apdu) \in 1..MaxUInt16
  BY DEF APDU
<1>. QED BY <1>1, LengthRange

(* Four bytes, four ports' bytes, then the APDU.                           *)
LEMMA ThreeParts ==
  ASSUME NEW a \in Seq(Byte), NEW b \in Seq(Byte), NEW c \in Seq(Byte),
         Len(a) = 4, Len(b) = 4
  PROVE  /\ a \o b \o c \in Seq(Byte)
         /\ Len(a \o b \o c) = Len(c) + 8
         /\ \A i \in 1..4 : (a \o b \o c)[i] = a[i]
<1>1. Len(c) \in Nat
  OBVIOUS
<1>2. /\ a \o b \in Seq(Byte) /\ Len(a \o b) = 8
      /\ \A i \in 1..8 : (a \o b)[i] = IF i <= 4 THEN a[i] ELSE b[i - 4]
  <2>1. /\ a \o b \in Seq(Byte) /\ Len(a \o b) = Len(a) + Len(b)
        /\ \A i \in 1..(Len(a) + Len(b)) :
             (a \o b)[i] = IF i <= Len(a) THEN a[i] ELSE b[i - Len(a)]
    BY ConcatProperties
  <2>. QED BY <2>1
<1>. DEFINE ab == a \o b
<1>3. ab \in Seq(Byte) /\ Len(ab) = 8 /\ \A i \in 1..4 : ab[i] = a[i]
  BY <1>2
<1>. HIDE DEF ab
<1>4. /\ ab \o c \in Seq(Byte) /\ Len(ab \o c) = Len(ab) + Len(c)
      /\ \A i \in 1..(Len(ab) + Len(c)) :
           (ab \o c)[i] = IF i <= Len(ab) THEN ab[i] ELSE c[i - Len(ab)]
  BY <1>3, ConcatProperties
<1>5. \A i \in 1..4 : (ab \o c)[i] = ab[i]
  BY <1>1, <1>3, <1>4
<1>6. ab \o c \in Seq(Byte) /\ Len(ab \o c) = Len(c) + 8
  BY <1>1, <1>3, <1>4
<1>7. \A i \in 1..4 : (ab \o c)[i] = a[i]
  BY <1>3, <1>5
<1>. QED BY <1>6, <1>7 DEF ab

(* A length of 16 bits in two bytes.                                       *)
LEMMA TwoBytes ==
  ASSUME NEW n \in Nat, n < 65536
  PROVE  /\ n \div 256 \in Byte /\ n % 256 \in Byte
         /\ Number(n \div 256, n % 256) = n
<1>. DEFINE hi == n \div 256
            lo == n % 256
<1>1. hi \in Int /\ lo \in Int /\ 0 <= lo /\ lo <= 255 /\ n = 256 * hi + lo
  BY SMT
<1>. HIDE DEF hi, lo
<1>2. 0 <= hi /\ hi <= 255
  BY <1>1
<1>3. hi \in Byte /\ lo \in Byte
  BY <1>1, <1>2 DEF Byte
<1>. QED BY <1>1, <1>3 DEF Number, hi, lo

LEMMA FrameOfMeter ==
  ASSUME NEW apdu \in APDU
  PROVE  /\ MeterFrame(apdu) \in Seq(Byte)
         /\ Len(MeterFrame(apdu)) = Len(apdu) + 8
         /\ MeterFrame(apdu)[1] = 0
         /\ Number(MeterFrame(apdu)[3], MeterFrame(apdu)[4]) = Len(apdu)
<1>. DEFINE n == Len(apdu)
            head == <<0, 1, n \div 256, n % 256>>
<1>1. apdu \in Seq(Byte) /\ n \in Nat /\ n < 65536
  BY ApduRange
<1>. HIDE DEF n
<1>2. 0 \in Byte /\ 1 \in Byte
  BY DEF Byte
<1>3. /\ n \div 256 \in Byte /\ n % 256 \in Byte
      /\ Number(n \div 256, n % 256) = n
  BY <1>1, TwoBytes
<1>4. head \in Seq(Byte) /\ Len(head) = 4 /\ head[1] = 0
        /\ head[3] = n \div 256 /\ head[4] = n % 256
  BY <1>2, <1>3
<1>5. MeterPorts \in Seq(Byte) /\ Len(MeterPorts) = 4
  BY WrapperAssumption
<1>6. MeterFrame(apdu) = head \o MeterPorts \o apdu
  BY DEF MeterFrame, n
<1>. HIDE DEF head
<1>7. /\ MeterFrame(apdu) \in Seq(Byte) /\ Len(MeterFrame(apdu)) = Len(apdu) + 8
      /\ \A i \in 1..4 : MeterFrame(apdu)[i] = head[i]
  <2>1. /\ head \in Seq(Byte) /\ Len(head) = 4
        /\ MeterPorts \in Seq(Byte) /\ Len(MeterPorts) = 4
        /\ apdu \in Seq(Byte)
    BY ONLY <1>1, <1>4, <1>5
  <2>2. LET frame == head \o MeterPorts \o apdu
        IN  /\ frame \in Seq(Byte) /\ Len(frame) = Len(apdu) + 8
            /\ \A i \in 1..4 : frame[i] = head[i]
    BY ONLY <2>1, ThreeParts, Zenon
  <2>. QED BY ONLY <2>2, <1>6, Zenon
<1>8. /\ MeterFrame(apdu)[1] = head[1] /\ MeterFrame(apdu)[3] = head[3]
      /\ MeterFrame(apdu)[4] = head[4]
  BY <1>7
<1>. QED BY <1>3, <1>4, <1>7, <1>8 DEF n

LEMMA AnswerType ==
  ASSUME NEW re \in Nat, NEW bytes \in Seq(Byte)
  PROVE  [re |-> re, bytes |-> bytes] \in Answers
BY DEF Answers

LEMMA AnswerFields ==
  ASSUME NEW answer \in Answers
  PROVE  answer.re \in Nat /\ answer.bytes \in Seq(Byte)
BY DEF Answers

(* Whatever read() returns are bytes, and so is what it leaves.            *)
LEMMA ReadType ==
  ASSUME toClient \in Seq(Answers), NEW r \in read
  PROVE  r.bytes \in Seq(Byte) /\ r.re \in Nat /\ r.rest \in Seq(Answers)
<1>1. CASE r \in TimedOut
  <2>1. r = [bytes |-> <<>>, re |-> 0, rest |-> toClient]
    BY <1>1 DEF TimedOut
  <2>. QED BY <2>1, EmptySeq
<1>2. CASE r \in Oldest
  <2>1. toClient # <<>> /\ r.bytes = toClient[1].bytes /\ r.re = toClient[1].re
          /\ r.rest = Tail(toClient)
    BY <1>2 DEF Oldest
  <2>2. toClient[1] \in Answers /\ Tail(toClient) \in Seq(Answers)
    BY <2>1
  <2>. QED BY <2>1, <2>2, AnswerFields
<1>3. CASE r \in Joined
  <2>1. ~(Len(toClient) < 2 \/ stream = "timely")
    BY <1>3 DEF Joined
  <2>2. r = [bytes |-> toClient[1].bytes \o toClient[2].bytes, re |-> 0,
             rest |-> Tail(Tail(toClient))]
    BY <1>3, <2>1 DEF Joined
  <2>3. toClient[1] \in Answers /\ toClient[2] \in Answers
    BY <2>1
  <2>4. Tail(Tail(toClient)) \in Seq(Answers)
    <3>1. toClient # <<>> /\ Len(toClient) \in Nat /\ Len(toClient) >= 2
      BY <2>1
    <3>2. Tail(toClient) \in Seq(Answers) /\ Len(Tail(toClient)) = Len(toClient) - 1
      BY <3>1, HeadTailProperties
    <3>3. Len(Tail(toClient)) # 0
      BY <3>1, <3>2
    <3>4. Tail(toClient) # <<>>
      BY <3>2, <3>3, EmptySeq
    <3>. QED BY <3>2, <3>4, HeadTailProperties
  <2>5. toClient[1].bytes \o toClient[2].bytes \in Seq(Byte)
    BY <2>3, AnswerFields, ConcatProperties
  <2>. QED BY <2>2, <2>4, <2>5
<1>4. CASE r \in Cut
  <2>. DEFINE bytes == toClient[1].bytes
  <2>1. ~(toClient = <<>> \/ stream # "cut")
    BY <1>4 DEF Cut
  <2>2. PICK n \in Cuts :
          /\ n < Len(bytes)
          /\ r = [bytes |-> SubSeq(bytes, 1, n), re |-> 0,
                  rest |-> [toClient EXCEPT ![1] =
                         [re |-> 0, bytes |-> SubSeq(bytes, n + 1, Len(bytes))]]]
    BY <1>4, <2>1 DEF Cut
  <2>3. n \in Nat /\ n > 0
    BY WrapperAssumption
  <2>4. 1 \in 1..Len(toClient) /\ toClient[1] \in Answers
    BY <2>1
  <2>5. bytes \in Seq(Byte)
    BY <2>4, AnswerFields
  <2>6. r.bytes = SubSeq(bytes, 1, n) /\ r.re = 0
          /\ r.rest = [toClient EXCEPT ![1] =
                         [re |-> 0, bytes |-> SubSeq(bytes, n + 1, Len(bytes))]]
    BY <2>2
  <2>. HIDE DEF bytes
  <2>7. Len(bytes) \in Nat
    BY <2>5
  <2>8. \A i \in 1..n : bytes[i] \in Byte
    <3>1. \A i \in 1..n : i \in 1..Len(bytes)
      BY <2>2, <2>3, <2>7
    <3>. QED BY <2>5, <3>1, ElementOfSeq
  <2>9. \A i \in n + 1..Len(bytes) : bytes[i] \in Byte
    BY <2>3, <2>5, <2>7
  <2>10. SubSeq(bytes, 1, n) \in Seq(Byte)
    BY <2>3, <2>8, SubSeqProperties
  <2>11. SubSeq(bytes, n + 1, Len(bytes)) \in Seq(Byte)
    BY <2>3, <2>7, <2>9, SubSeqProperties
  <2>12. [re |-> 0, bytes |-> SubSeq(bytes, n + 1, Len(bytes))] \in Answers
    BY <2>11, AnswerType
  <2>13. r.rest \in Seq(Answers)
    BY <2>4, <2>6, <2>12, ExceptSeq
  <2>. QED BY <2>6, <2>10, <2>13
<1>. QED BY <1>1, <1>2, <1>3, <1>4 DEF read

LEMMA SendType ==
  ASSUME toMeter \in Seq(Requests), written \in [num : Nat, size : Nat],
         NEW apdu \in {Aarq} \cup Gets, Send(apdu)
  PROVE  /\ toMeter' \in Seq(Requests)
         /\ written' \in [num : Nat, size : Nat]
<1>1. apdu \in Seq(Byte) /\ Ports \in WrapperParameters
  BY WrapperAssumption
<1>2. apdu \in Seq(Byte) /\ serialize(Ports, apdu) \in Seq(Byte)
  BY <1>1, SerializeType
<1>3. written.num + 1 \in Nat \ {0}
  OBVIOUS
<1>4. [num |-> written.num + 1, bytes |-> serialize(Ports, apdu)] \in Requests
  BY <1>2, <1>3 DEF Requests
<1>5. toMeter' \in Seq(Requests)
  BY <1>4, AppendProperties DEF Send
<1>6. written' = [num |-> written.num + 1, size |-> Len(apdu)]
  BY DEF Send
<1>7. Len(apdu) \in Nat
  BY <1>1, LenProperties
<1>. QED BY <1>3, <1>5, <1>6, <1>7

LEMMA ReturnType ==
  ASSUME NEW r, r.re \in Nat, NEW op \in {"connect", "get"}, Return(op, r) \/ Throw(op)
  PROVE  /\ call' \in {"idle", "connect", "get"}
         /\ outcome' \in [op : {"none", "connect", "disconnect", "get"},
                          result : {"returns", "throw"}, re : Nat]
BY DEF Return, Throw

LEMMA MeterStepType ==
  ASSUME TypeOK, MeterStep
  PROVE  TypeOK'
<1>1. toMeter[1] \in Requests /\ toMeter' \in Seq(Requests)
  BY DEF TypeOK, MeterStep
<1>2. toMeter[1].num \in Nat
  BY <1>1 DEF Requests
<1>3. executed' \in Nat /\ toClient' \in Seq(Answers)
  <2>1. CASE MeterAnswers
    <3>1. PICK apdu \in Aares \cup Responses :
            toClient' = Append(toClient, [re |-> toMeter[1].num, bytes |-> MeterFrame(apdu)])
      BY <2>1 DEF MeterAnswers
    <3>2. apdu \in APDU
      BY WrapperAssumption
    <3>3. MeterFrame(apdu) \in Seq(Byte)
      BY <3>2, FrameOfMeter
    <3>4. toClient' \in Seq(Answers)
      BY <1>2, <3>1, <3>3, AnswerType, AppendProperties DEF TypeOK
    <3>. QED BY <1>2, <2>1, <3>4 DEF MeterAnswers
  <2>2. CASE MeterDrops
    BY <2>2 DEF MeterDrops, TypeOK
  <2>. QED BY <2>1, <2>2 DEF MeterStep
<1>. QED BY <1>1, <1>3 DEF TypeOK, MeterStep

LEMMA ClientStepType ==
  ASSUME TypeOK, ClientStep
  PROVE  TypeOK'
<1>. USE DEF TypeOK
<1>1. CASE Connect
  <2>1. Send(Aarq)
    BY <1>1 DEF Connect
  <2>2. toMeter' \in Seq(Requests) /\ written' \in [num : Nat, size : Nat]
    BY <2>1, SendType
  <2>. QED BY <1>1, <2>2 DEF Connect
<1>2. CASE ConnectAare
  <2>1. PICK r \in read : toClient' = r.rest /\ (Return("connect", r) \/ Throw("connect"))
    BY <1>2 DEF ConnectAare
  <2>2. r.re \in Nat /\ r.rest \in Seq(Answers)
    BY ReadType
  <2>. QED BY <1>2, <2>1, <2>2, ReturnType DEF ConnectAare
<1>3. CASE Disconnect
  BY <1>3 DEF Disconnect
<1>4. CASE GetRequest
  <2>1. PICK apdu \in Gets : Send(apdu)
    BY <1>4 DEF GetRequest
  <2>2. toMeter' \in Seq(Requests) /\ written' \in [num : Nat, size : Nat]
    BY <2>1, SendType
  <2>. QED BY <1>4, <2>2 DEF GetRequest
<1>5. CASE GetResponse
  <2>1. PICK r \in read : toClient' = r.rest /\ (Return("get", r) \/ Throw("get"))
    BY <1>5 DEF GetResponse
  <2>2. r.re \in Nat /\ r.rest \in Seq(Answers)
    BY ReadType
  <2>. QED BY <1>5, <2>1, <2>2, ReturnType DEF GetResponse
<1>. QED BY <1>1, <1>2, <1>3, <1>4, <1>5 DEF ClientStep

(* The types of the module's state hold for every APDU, every pair of      *)
(* ports and every stream: what is written is bytes, of 8 bits, whatever   *)
(* the length of the APDU (serialize).                                     *)
THEOREM TypeCorrect == Spec => []TypeOK
<1>1. Init => TypeOK
  BY WrapperAssumption, EmptySeq DEF Init, TypeOK
<1>2. TypeOK /\ [Next]_vars => TypeOK'
  <2>1. ASSUME TypeOK, UNCHANGED vars PROVE TypeOK'
    BY <2>1 DEF TypeOK, vars
  <2>. QED BY <2>1, ClientStepType, MeterStepType DEF Next
<1>. QED BY <1>1, <1>2, PTL DEF Spec

-----------------------------------------------------------------------------
(* Whole frames.                                                           *)

LEMMA WholeFields ==
  ASSUME NEW answer \in WholeAnswers
  PROVE  /\ answer.re # 0 /\ answer.bytes \in Seq(Byte)
         /\ Len(answer.bytes) \in Nat /\ Len(answer.bytes) >= 9
         /\ answer.bytes[1] = 0
         /\ Number(answer.bytes[3], answer.bytes[4]) = Len(answer.bytes) - 8
         /\ Len(answer.bytes) < 65544
<1>1. PICK apdu \in Aares \cup Responses : answer.bytes = MeterFrame(apdu)
  BY DEF WholeAnswers
<1>2. apdu \in APDU
  BY WrapperAssumption
<1>3. Len(apdu) \in Nat /\ 1 <= Len(apdu) /\ Len(apdu) < 65536
  BY <1>2, ApduRange
<1>4. /\ answer.bytes \in Seq(Byte) /\ Len(answer.bytes) = Len(apdu) + 8
      /\ answer.bytes[1] = 0
      /\ Number(answer.bytes[3], answer.bytes[4]) = Len(apdu)
  BY <1>1, <1>2, FrameOfMeter
<1>5. answer.re # 0
  BY DEF WholeAnswers
<1>. QED BY <1>3, <1>4, <1>5

(* Two frames that were read together are never complete: the length of    *)
(* the first does not reach over the second, also when the sum wraps.      *)
LEMMA JoinedRefused ==
  ASSUME NEW a \in WholeAnswers, NEW b \in WholeAnswers
  PROVE  ~wrapper_frame_complete(a.bytes \o b.bytes)
<1>. DEFINE n == Len(a.bytes)
            m == Len(b.bytes)
            both == a.bytes \o b.bytes
<1>1. /\ n \in Nat /\ n >= 9 /\ n < 65544
      /\ Number(a.bytes[3], a.bytes[4]) = n - 8
  BY WholeFields
<1>2. /\ a.bytes \in Seq(Byte) /\ b.bytes \in Seq(Byte)
      /\ m \in Nat /\ m >= 9
  BY WholeFields
<1>3. /\ Len(both) = n + m
      /\ \A i \in 1..(n + m) :
           both[i] = IF i <= n THEN a.bytes[i] ELSE b.bytes[i - n]
  BY <1>2, ConcatProperties
<1>. HIDE DEF n, m
<1>4. /\ 3 \in 1..(n + m) /\ 3 <= n
      /\ 4 \in 1..(n + m) /\ 4 <= n
  BY <1>1, <1>2
<1>5. both[3] = a.bytes[3] /\ both[4] = a.bytes[4]
  BY <1>3, <1>4
<1>6. Number(both[3], both[4]) = n - 8
  BY <1>1, <1>5
<1>. HIDE DEF both
<1>7. n - 8 + 8 = n
  BY <1>1
<1>8. n % 65536 <= n
  BY <1>1, WrapAround
<1>9. n % 65536 # Len(both)
  BY <1>1, <1>2, <1>3, <1>8
<1>10. (Number(both[3], both[4]) + 8) % 65536 # Len(both)
  BY <1>6, <1>7, <1>9
<1>11. ~wrapper_frame_complete(both)
  BY <1>10 DEF wrapper_frame_complete, MaxUInt16
<1>. QED BY <1>11 DEF both

(* What a read of a stream that cuts nothing can return.                   *)
LEMMA ReadWhole ==
  ASSUME toClient \in Seq(WholeAnswers), stream # "cut", NEW r \in read
  PROVE  /\ r.rest \in Seq(WholeAnswers)
         /\ wrapper_frame_complete(r.bytes) => r.re # 0 /\ r.bytes[1] = 0
<1>1. CASE r \in TimedOut
  <2>1. r = [bytes |-> <<>>, re |-> 0, rest |-> toClient]
    BY <1>1 DEF TimedOut
  <2>2. ~(Len(r.bytes) >= 9)
    BY <2>1
  <2>. QED BY <2>1, <2>2 DEF wrapper_frame_complete
<1>2. CASE r \in Oldest
  <2>1. toClient # <<>> /\ r.bytes = toClient[1].bytes /\ r.re = toClient[1].re
          /\ r.rest = Tail(toClient)
    BY <1>2 DEF Oldest
  <2>2. toClient[1] \in WholeAnswers /\ Tail(toClient) \in Seq(WholeAnswers)
    BY <2>1
  <2>. QED BY <2>1, <2>2, WholeFields
<1>3. CASE r \in Joined
  <2>1. ~(Len(toClient) < 2 \/ stream = "timely")
    BY <1>3 DEF Joined
  <2>2. r = [bytes |-> toClient[1].bytes \o toClient[2].bytes, re |-> 0,
             rest |-> Tail(Tail(toClient))]
    BY <1>3, <2>1 DEF Joined
  <2>3. toClient[1] \in WholeAnswers /\ toClient[2] \in WholeAnswers
    BY <2>1
  <2>4. Tail(Tail(toClient)) \in Seq(WholeAnswers)
    <3>1. toClient # <<>> /\ Len(toClient) \in Nat /\ Len(toClient) >= 2
      BY <2>1
    <3>2. Tail(toClient) \in Seq(WholeAnswers) /\ Len(Tail(toClient)) = Len(toClient) - 1
      BY <3>1, HeadTailProperties
    <3>3. Len(Tail(toClient)) # 0
      BY <3>1, <3>2
    <3>4. Tail(toClient) # <<>>
      BY <3>2, <3>3, EmptySeq
    <3>. QED BY <3>2, <3>4, HeadTailProperties
  <2>. QED BY <2>2, <2>3, <2>4, JoinedRefused
<1>4. CASE r \in Cut
  BY <1>4 DEF Cut
<1>. QED BY <1>1, <1>2, <1>3, <1>4 DEF read

LEMMA WholeStep == TypeOK /\ WholeInv /\ [Next]_vars => WholeInv'
<1>. SUFFICES ASSUME TypeOK, WholeInv, [Next]_vars, stream' # "cut"
              PROVE  toClient' \in Seq(WholeAnswers) /\ AcceptedWhole' /\ GetAlwaysThrows'
  BY DEF WholeInv
<1>0. stream' = stream
  BY DEF Next, ClientStep, Connect, ConnectAare, Disconnect, GetRequest, GetResponse,
         MeterStep, vars
<1>. USE <1>0
<1>1. toClient \in Seq(WholeAnswers) /\ AcceptedWhole /\ GetAlwaysThrows
  BY DEF WholeInv
<1>2. CASE UNCHANGED vars
  BY <1>1, <1>2 DEF AcceptedWhole, GetAlwaysThrows, vars
<1>3. CASE Connect
  BY <1>1, <1>3 DEF Connect, AcceptedWhole, GetAlwaysThrows
<1>4. CASE ConnectAare
  <2>1. PICK r \in read :
          /\ toClient' = r.rest
          /\ IF wrapper_frame_complete(r.bytes) THEN Return("connect", r) ELSE Throw("connect")
    BY <1>4 DEF ConnectAare
  <2>2. /\ r.rest \in Seq(WholeAnswers)
        /\ wrapper_frame_complete(r.bytes) => r.re # 0
    BY <1>1, ReadWhole
  <2>. QED BY <2>1, <2>2 DEF Return, Throw, AcceptedWhole, GetAlwaysThrows
<1>5. CASE Disconnect
  BY <1>1, <1>5 DEF Disconnect, AcceptedWhole, GetAlwaysThrows
<1>6. CASE GetRequest
  BY <1>1, <1>6 DEF GetRequest, AcceptedWhole, GetAlwaysThrows
<1>7. CASE GetResponse
  <2>1. PICK r \in read :
          /\ toClient' = r.rest
          /\ IF wrapper_frame_complete(r.bytes) /\ IsGetResponse(parse(r.bytes))
             THEN Return("get", r) ELSE Throw("get")
    BY <1>7 DEF GetResponse
  <2>2. /\ r.rest \in Seq(WholeAnswers)
        /\ wrapper_frame_complete(r.bytes) => r.bytes[1] = 0
    BY <1>1, ReadWhole
  <2>3. ~(wrapper_frame_complete(r.bytes) /\ IsGetResponse(parse(r.bytes)))
    BY <2>2 DEF IsGetResponse, parse
  <2>. QED BY <2>1, <2>2, <2>3 DEF Throw, AcceptedWhole, GetAlwaysThrows
<1>8. CASE MeterStep
  <2>1. toMeter[1] \in Requests
    BY <1>8 DEF TypeOK, MeterStep
  <2>2. toMeter[1].num \in Nat /\ toMeter[1].num # 0
    BY <2>1 DEF Requests
  <2>3. toClient' \in Seq(WholeAnswers)
    <3>1. CASE MeterAnswers
      <4>1. PICK apdu \in Aares \cup Responses :
              toClient' = Append(toClient, [re |-> toMeter[1].num, bytes |-> MeterFrame(apdu)])
        BY <3>1 DEF MeterAnswers
      <4>2. MeterFrame(apdu) \in Seq(Byte)
        BY WrapperAssumption, FrameOfMeter
      <4>3. [re |-> toMeter[1].num, bytes |-> MeterFrame(apdu)] \in WholeAnswers
        BY <2>2, <4>2, AnswerType DEF WholeAnswers
      <4>. QED BY <1>1, <4>1, <4>3, AppendProperties
    <3>2. CASE MeterDrops
      BY <1>1, <3>2 DEF MeterDrops
    <3>. QED BY <1>8, <3>1, <3>2 DEF MeterStep
  <2>4. outcome' = outcome /\ stream' = stream
    BY <1>8 DEF MeterStep
  <2>. QED BY <1>1, <2>3, <2>4 DEF AcceptedWhole, GetAlwaysThrows
<1>. QED BY <1>2, <1>3, <1>4, <1>5, <1>6, <1>7, <1>8 DEF Next, ClientStep

LEMMA WholeCorrect == Spec => []WholeInv
<1>1. Init => WholeInv
  BY EmptySeq DEF Init, WholeInv, AcceptedWhole, GetAlwaysThrows
<1>. QED BY <1>1, WholeStep, TypeCorrect, PTL DEF Spec

(* connect returns only on one whole frame of the meter, never on two that *)
(* a read has joined, for every length of the two (parse).                 *)
THEOREM AcceptedWholeHolds == Spec => []AcceptedWhole
<1>1. WholeInv => AcceptedWhole
  BY DEF WholeInv, AcceptedWhole
<1>. QED BY <1>1, WholeCorrect, PTL

(* get_request throws at every answer of every meter over a stream that    *)
(* cuts no frame, because parse leaves the header on it.                   *)
THEOREM GetAlwaysThrowsHolds == Spec => [](stream # "cut" => GetAlwaysThrows)
<1>1. WholeInv => (stream # "cut" => GetAlwaysThrows)
  BY DEF WholeInv
<1>. QED BY <1>1, WholeCorrect, PTL

-----------------------------------------------------------------------------
(* A stream that is timely.                                                *)

LEMMA SendAsks ==
  ASSUME TypeOK, Silent, call = "idle", executed <= written.num,
         NEW apdu, Send(apdu), call' # "idle",
         UNCHANGED <<stream, toClient, executed, outcome>>
  PROVE  TimelyInv' /\ Discipline!Next
<1>1. /\ toMeter' = <<[num |-> written.num + 1, bytes |-> serialize(Ports, apdu)]>>
      /\ written'.num = written.num + 1
  BY DEF Send, Silent
<1>2. written.num \in Nat /\ executed \in Nat
  BY DEF TypeOK
<1>3. Len(toMeter') = 1 /\ toMeter'[1].num = written'.num
  BY <1>1
<1>4. executed' < written'.num
  BY <1>1, <1>2
<1>5. TimelyInv'
  BY <1>3, <1>4 DEF TimelyInv, Silent
<1>6. Phase = "idle" /\ Phase' = "asked"
  BY <1>1, <1>2 DEF Phase
<1>. QED BY <1>1, <1>5, <1>6 DEF Discipline!Next, Discipline!Ask

(* A read ends with the answer to the request, or with nothing if the      *)
(* meter has dropped it.                                                   *)
LEMMA ReadTimely ==
  ASSUME TypeOK, TimelyInv, stream = "timely", call # "idle", NEW r \in read
  PROVE  /\ toMeter = <<>> /\ r.rest = <<>>
         /\ \/ r.re = written.num /\ executed = written.num
            \/ r.re = 0 /\ executed < written.num
<1>1. r \in Oldest \/ r \in TimedOut
  BY DEF read, Joined, Cut
<1>2. CASE r \in Oldest
  <2>1. toClient # <<>> /\ r.re = toClient[1].re /\ r.rest = Tail(toClient)
    BY <1>2 DEF Oldest
  <2>2. /\ toMeter = <<>> /\ Len(toClient) = 1
        /\ toClient[1].re = written.num /\ executed = written.num
    BY <2>1 DEF TimelyInv, Silent
  <2>3. Tail(toClient) \in Seq(Answers) /\ Len(Tail(toClient)) = 0
    BY <2>1, <2>2, HeadTailProperties DEF TypeOK
  <2>4. Tail(toClient) = <<>>
    BY <2>3, EmptySeq
  <2>. QED BY <2>1, <2>2, <2>4
<1>3. CASE r \in TimedOut
  <2>1. Silent /\ r = [bytes |-> <<>>, re |-> 0, rest |-> toClient]
    BY <1>3 DEF TimedOut
  <2>2. toMeter = <<>> /\ toClient = <<>> /\ Len(<<>>) = 0
    BY <2>1 DEF Silent
  <2>3. executed < written.num
    BY <2>2 DEF TimelyInv
  <2>. QED BY <2>1, <2>2, <2>3
<1>. QED BY <1>1, <1>2, <1>3

LEMMA ReadEnds ==
  ASSUME TypeOK, TimelyInv, stream = "timely", call # "idle",
         NEW r \in read, toClient' = r.rest, NEW op, Return(op, r) \/ Throw(op),
         UNCHANGED <<stream, toMeter, executed, written>>
  PROVE  TimelyInv' /\ Discipline!Next
<1>1. /\ toMeter = <<>> /\ r.rest = <<>>
      /\ \/ r.re = written.num /\ executed = written.num
         \/ r.re = 0 /\ executed < written.num
  BY ReadTimely
<1>2. call' = "idle" /\ outcome'.re \in {0, r.re}
  BY DEF Return, Throw
<1>3. executed \in Nat /\ written.num \in Nat
  BY DEF TypeOK
<1>4. TimelyInv'
  BY <1>1, <1>2, <1>3 DEF TimelyInv, Silent
<1>5. Phase' = "idle"
  BY <1>2 DEF Phase
<1>6. CASE r.re = written.num /\ executed = written.num
  <2>1. Phase = "served"
    BY <1>6 DEF Phase
  <2>2. Discipline!Answer \/ Discipline!Fail
    BY <1>2, <1>5, <1>6, <2>1 DEF Discipline!Answer, Discipline!Fail
  <2>. QED BY <1>4, <2>2 DEF Discipline!Next
<1>7. CASE r.re = 0
  <2>1. Discipline!Fail
    BY <1>2, <1>5, <1>7 DEF Discipline!Fail
  <2>. QED BY <1>4, <2>1 DEF Discipline!Next
<1>. QED BY <1>1, <1>6, <1>7

LEMMA MeterServes ==
  ASSUME TypeOK, TimelyInv, stream = "timely", MeterStep
  PROVE  TimelyInv' /\ (Discipline!Next \/ UNCHANGED Discipline!vars)
<1>1. /\ toMeter # <<>> /\ toMeter' = Tail(toMeter)
      /\ UNCHANGED <<stream, call, written, outcome>>
  BY DEF MeterStep
<1>2. /\ call # "idle" /\ toClient = <<>> /\ Len(toMeter) = 1
      /\ toMeter[1].num = written.num /\ executed < written.num
  BY <1>1 DEF TimelyInv, Silent
<1>3. Tail(toMeter) \in Seq(Requests) /\ Len(Tail(toMeter)) = 0
  BY <1>1, <1>2, HeadTailProperties DEF TypeOK
<1>4. toMeter' = <<>>
  BY <1>1, <1>3, EmptySeq
<1>5. CASE MeterAnswers
  <2>1. executed' = written.num
    BY <1>2, <1>5 DEF MeterAnswers
  <2>2. PICK apdu \in Aares \cup Responses :
          toClient' = Append(toClient, [re |-> toMeter[1].num, bytes |-> MeterFrame(apdu)])
    BY <1>5 DEF MeterAnswers
  <2>3. toClient' = <<[re |-> written.num, bytes |-> MeterFrame(apdu)]>>
    BY <1>2, <2>2
  <2>4. Len(toClient') = 1 /\ toClient'[1].re = written.num
    BY <2>3
  <2>5. TimelyInv'
    BY <1>1, <1>2, <1>4, <2>1, <2>4 DEF TimelyInv
  <2>6. executed # written.num
    BY <1>2 DEF TypeOK
  <2>7. Phase = "asked" /\ Phase' = "served"
    BY <1>1, <1>2, <2>1, <2>6 DEF Phase
  <2>8. Discipline!Execute
    BY <1>1, <2>1, <2>7 DEF Discipline!Execute
  <2>. QED BY <2>5, <2>8 DEF Discipline!Next
<1>6. CASE MeterDrops
  <2>1. toClient' = <<>> /\ executed' = executed
    BY <1>2, <1>6 DEF MeterDrops
  <2>2. TimelyInv'
    BY <1>1, <1>2, <1>4, <2>1 DEF TimelyInv, Silent
  <2>3. UNCHANGED Discipline!vars
    BY <1>1, <2>1 DEF Discipline!vars, Phase
  <2>. QED BY <2>2, <2>3
<1>. QED BY <1>5, <1>6 DEF MeterStep

LEMMA TimelyStep ==
  ASSUME TypeOK, TimelyInv, [Next]_vars, stream = "timely"
  PROVE  TimelyInv' /\ (Discipline!Next \/ UNCHANGED Discipline!vars)
<1>1. CASE UNCHANGED vars
  BY <1>1 DEF TimelyInv, Silent, Discipline!vars, Phase, vars
<1>2. CASE Connect
  <2>1. Silent /\ executed <= written.num
    BY <1>2 DEF Connect, TimelyInv
  <2>. QED BY <1>2, <2>1, SendAsks DEF Connect
<1>3. CASE ConnectAare
  <2>1. PICK r \in read : toClient' = r.rest /\ (Return("connect", r) \/ Throw("connect"))
    BY <1>3 DEF ConnectAare
  <2>. QED BY <1>3, <2>1, ReadEnds DEF ConnectAare
<1>4. CASE Disconnect
  <2>1. TimelyInv'
    BY <1>4 DEF Disconnect, TimelyInv, Silent
  <2>2. Phase' = "idle" /\ outcome'.re = 0
    BY <1>4 DEF Disconnect, Phase
  <2>3. Discipline!Fail
    BY <1>4, <2>2 DEF Disconnect, Discipline!Fail
  <2>. QED BY <2>1, <2>3 DEF Discipline!Next
<1>5. CASE GetRequest
  <2>1. PICK apdu \in Gets : Send(apdu)
    BY <1>5 DEF GetRequest
  <2>2. Silent /\ executed <= written.num
    BY <1>5 DEF GetRequest, TimelyInv
  <2>. QED BY <1>5, <2>1, <2>2, SendAsks DEF GetRequest
<1>6. CASE GetResponse
  <2>1. PICK r \in read : toClient' = r.rest /\ (Return("get", r) \/ Throw("get"))
    BY <1>6 DEF GetResponse
  <2>. QED BY <1>6, <2>1, ReadEnds DEF GetResponse
<1>7. CASE MeterStep
  BY <1>7, MeterServes
<1>. QED BY <1>1, <1>2, <1>3, <1>4, <1>5, <1>6, <1>7 DEF Next, ClientStep

LEMMA TimelyCorrect == Spec => []TimelyInv
<1>1. Init => TimelyInv
  BY DEF Init, TimelyInv, Silent
<1>2. TypeOK /\ TimelyInv /\ [Next]_vars => TimelyInv'
  <2>1. ASSUME [Next]_vars PROVE stream' = stream
    BY <2>1 DEF Next, ClientStep, Connect, ConnectAare, Disconnect, GetRequest,
                GetResponse, MeterStep, vars
  <2>2. CASE stream = "timely"
    BY <2>2, TimelyStep
  <2>3. CASE stream # "timely"
    BY <2>1, <2>3 DEF TimelyInv
  <2>. QED BY <2>2, <2>3
<1>. QED BY <1>1, <1>2, TypeCorrect, PTL DEF Spec

(* As long as no answer is late, nothing is on the stream between two      *)
(* calls and at most one frame during a call, for any number of calls.     *)
THEOREM InStepHolds == Spec => []InStep
<1>1. ASSUME TimelyInv, stream = "timely"
      PROVE  Len(toMeter) + Len(toClient) <= IF call = "idle" THEN 0 ELSE 1
  <2>1. CASE call = "idle"
    <3>1. toMeter = <<>> /\ toClient = <<>>
      BY <1>1, <2>1 DEF TimelyInv, Silent
    <3>. QED BY <2>1, <3>1
  <2>2. CASE call # "idle"
    <3>1. \/ toMeter = <<>> /\ Len(toClient) = 1
          \/ toClient = <<>> /\ Len(toMeter) = 1
          \/ toClient = <<>> /\ toMeter = <<>>
      BY <1>1, <2>2 DEF TimelyInv, Silent
    <3>2. Len(<<>>) = 0
      OBVIOUS
    <3>3. Len(toMeter) + Len(toClient) <= 1
      <4>1. CASE toMeter = <<>> /\ Len(toClient) = 1
        BY <3>2, <4>1
      <4>2. CASE toClient = <<>> /\ Len(toMeter) = 1
        BY <3>2, <4>2
      <4>3. CASE toClient = <<>> /\ toMeter = <<>>
        BY <3>2, <4>3
      <4>. QED BY <3>1, <4>1, <4>2, <4>3
    <3>. QED BY <2>2, <3>3
  <2>. QED BY <2>1, <2>2
<1>2. TimelyInv => InStep
  BY <1>1 DEF InStep
<1>. QED BY <1>2, TimelyCorrect, PTL

(* Every step of the client and of the meter on a timely stream is a step  *)
(* of the discipline of Exchange, or none of its business.                 *)
THEOREM KeepsDisciplineHolds == Spec => KeepsDiscipline
<1>1. TypeOK /\ TimelyInv /\ [Next]_vars =>
        [stream = "timely" => Discipline!Next \/ UNCHANGED Discipline!vars]_vars
  BY TimelyStep
<1>. QED BY <1>1, TypeCorrect, TimelyCorrect, PTL DEF Spec, KeepsDiscipline

-----------------------------------------------------------------------------
(* What is written.                                                        *)

LastWritten ==
  toMeter # <<>> =>
    \E apdu \in Seq(Byte) :
      /\ toMeter[Len(toMeter)].bytes = serialize(Ports, apdu)
      /\ Len(apdu) >= 1 /\ written.size = Len(apdu)

LEMMA SendLast ==
  ASSUME TypeOK, NEW apdu \in {Aarq} \cup Gets, Send(apdu)
  PROVE  LastWritten'
<1>. DEFINE frame == [num |-> written.num + 1, bytes |-> serialize(Ports, apdu)]
<1>1. toMeter' = Append(toMeter, frame) /\ written'.size = Len(apdu)
  BY DEF Send
<1>2. apdu \in Seq(Byte) /\ apdu # <<>>
  BY WrapperAssumption
<1>3. Len(apdu) \in Nat /\ Len(apdu) # 0
  BY <1>2, EmptySeq, LenProperties
<1>4. frame.bytes = serialize(Ports, apdu)
  OBVIOUS
<1>. HIDE DEF frame
<1>5. toMeter'[Len(toMeter')] = frame
  BY <1>1 DEF TypeOK
<1>6. Len(apdu) >= 1
  BY <1>3
<1>. QED BY <1>1, <1>2, <1>4, <1>5, <1>6 DEF LastWritten

LEMMA TakenLast ==
  ASSUME TypeOK, LastWritten, MeterStep
  PROVE  LastWritten'
<1>1. /\ toMeter # <<>> /\ toMeter' = Tail(toMeter) /\ written' = written
      /\ toMeter \in Seq(Requests) /\ Len(toMeter) \in Nat
  BY DEF MeterStep, TypeOK
<1>2. CASE toMeter' = <<>>
  BY <1>2 DEF LastWritten
<1>3. CASE toMeter' # <<>>
  <2>1. /\ toMeter' \in Seq(Requests) /\ Len(toMeter') = Len(toMeter) - 1
        /\ \A i \in 1..Len(toMeter') : toMeter'[i] = toMeter[i + 1]
    BY <1>1, HeadTailProperties
  <2>2. Len(toMeter') # 0 /\ Len(toMeter') \in Nat
    BY <1>3, <2>1, EmptySeq, LenProperties
  <2>3. Len(toMeter') \in 1..Len(toMeter') /\ Len(toMeter') + 1 = Len(toMeter)
    BY <1>1, <2>1, <2>2
  <2>4. toMeter'[Len(toMeter')] = toMeter[Len(toMeter)]
    BY <2>1, <2>3
  <2>. QED BY <1>1, <2>4 DEF LastWritten
<1>. QED BY <1>2, <1>3

LEMMA LastCorrect == Spec => []LastWritten
<1>1. Init => LastWritten
  BY DEF Init, LastWritten
<1>2. TypeOK /\ LastWritten /\ [Next]_vars => LastWritten'
  <2>. SUFFICES ASSUME TypeOK, LastWritten, [Next]_vars PROVE LastWritten'
    OBVIOUS
  <2>1. CASE UNCHANGED <<toMeter, written>>
    BY <2>1 DEF LastWritten
  <2>2. CASE Connect
    BY <2>2, SendLast DEF Connect
  <2>3. CASE GetRequest
    BY <2>3, SendLast DEF GetRequest
  <2>4. CASE MeterStep
    BY <2>4, TakenLast
  <2>5. CASE UNCHANGED vars
    BY <2>1, <2>5 DEF vars
  <2>6. CASE ConnectAare
    BY <2>1, <2>6 DEF ConnectAare
  <2>7. CASE Disconnect
    BY <2>1, <2>7 DEF Disconnect
  <2>8. CASE GetResponse
    BY <2>1, <2>8 DEF GetResponse
  <2>. QED BY <2>2, <2>3, <2>4, <2>5, <2>6, <2>7, <2>8 DEF Next, ClientStep
<1>. QED BY <1>1, <1>2, TypeCorrect, PTL DEF Spec

(* For APDUs of every length, cut length fields and wrapped sums included, *)
(* the frame the client writes passes the check the client itself applies  *)
(* to a frame exactly when the APDU has at most 65527 bytes (serialize,    *)
(* wrapper_frame_complete).                                                *)
THEOREM WrittenCompleteHolds == Spec => []WrittenComplete
<1>1. TypeOK /\ LastWritten => WrittenComplete
  <2>. SUFFICES ASSUME TypeOK, LastWritten, toMeter # <<>>
                PROVE  wrapper_frame_complete(toMeter[Len(toMeter)].bytes)
                         <=> written.size <= 65527
    BY DEF WrittenComplete
  <2>1. PICK apdu \in Seq(Byte) :
          /\ toMeter[Len(toMeter)].bytes = serialize(Ports, apdu)
          /\ Len(apdu) >= 1 /\ written.size = Len(apdu)
    BY DEF LastWritten
  <2>2. Ports \in WrapperParameters
    BY WrapperAssumption
  <2>. QED BY <2>1, <2>2, WrittenAccepted
<1>. QED BY <1>1, TypeCorrect, LastCorrect, PTL
=============================================================================
