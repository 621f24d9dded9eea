---------------------------- MODULE HdlcOrderProofs ----------------------------
(***************************************************************************)
(* The order of requests and answers in HdlcClient, on lines of any kind:  *)
(* whatever is lost, damaged, late, cut or joined, and however often the   *)
(* meter restarts.                                                         *)
(***************************************************************************)
EXTENDS HdlcClientProofs

(* AnswersInOrder, of any values of the state it speaks of.                *)
InOrder(requests, answers, last, taken, result) ==
  /\ \A i, j \in DOMAIN answers : i < j => answers[i].re < answers[j].re
  /\ \A i, j \in DOMAIN requests : i < j => requests[i].num < requests[j].num
  /\ \A i \in DOMAIN answers : result < answers[i].re /\ answers[i].re <= taken
  /\ \A i \in DOMAIN requests : taken < requests[i].num /\ requests[i].num <= last
  /\ result <= taken

(* What makes it inductive: no request is taken before it is written.      *)
OrderInv == AnswersInOrder /\ executed <= written.num

(* What is left of a queue when its first frames are gone.                 *)
Rest(rest, queue, k) ==
  /\ Len(rest) = Len(queue) - k
  /\ \A i \in 1..Len(rest) : rest[i].re = queue[i + k].re

LEMMA InOrderIs ==
  AnswersInOrder <=> InOrder(toMeter, toClient, written.num, executed, outcome.re)
BY DEF AnswersInOrder, InOrder

LEMMA OrderTypes ==
  ASSUME TypeOK
  PROVE  /\ toMeter \in Seq(Requests) /\ toClient \in Seq(Answers)
         /\ written.num \in Nat /\ executed \in Nat /\ outcome.re \in Nat
BY DEF TypeOK, MeterTypeOK, Requests, Outcomes

LEMMA NumbersOfRequests ==
  ASSUME NEW requests \in Seq(Requests)
  PROVE  \A i \in 1..Len(requests) : requests[i] \in Requests /\ requests[i].num \in Nat
<1>1. ASSUME NEW f \in Requests PROVE f.num \in Nat
  BY DEF Requests
<1>. QED BY <1>1

LEMMA NumbersOfAnswers ==
  ASSUME NEW answers \in Seq(Answers)
  PROVE  \A i \in 1..Len(answers) : answers[i] \in Answers /\ answers[i].re \in Nat
<1>1. ASSUME NEW a \in Answers PROVE a.re \in Nat
  BY DEF Answers
<1>. QED BY <1>1

(* An answer that is gone leaves the others in order, and one that was     *)
(* returned is older than those that are left.                             *)
LEMMA OrderOfRest ==
  ASSUME NEW requests \in Seq(Requests), NEW answers \in Seq(Answers), NEW last \in Nat,
         NEW taken \in Nat, NEW result \in Nat, InOrder(requests, answers, last, taken, result),
         NEW k \in Nat, NEW rest \in Seq(Answers), Rest(rest, answers, k),
         NEW returned,
         \/ returned \in {0, result}
         \/ k = 1 /\ 1 \in DOMAIN answers /\ returned = answers[1].re
  PROVE  InOrder(requests, rest, last, taken, returned)
<1>1. DOMAIN answers = 1..Len(answers) /\ DOMAIN rest = 1..Len(rest)
      /\ Len(answers) \in Nat /\ Len(rest) \in Nat
  OBVIOUS
<1>2. \A i \in 1..Len(answers) : answers[i].re \in Nat
  BY NumbersOfAnswers
<1>3. \A i \in 1..Len(rest) : i + k \in 1..Len(answers) /\ rest[i].re = answers[i + k].re
  <2>1. TAKE i \in 1..Len(rest)
  <2>2. Len(rest) = Len(answers) - k /\ rest[i].re = answers[i + k].re
    BY DEF Rest
  <2>3. i + k \in 1..Len(answers)
    BY <1>1, <2>2
  <2>. QED BY <2>2, <2>3
<1>4. returned \in Nat
  BY <1>1, <1>2
<1>5. ASSUME NEW i \in DOMAIN rest, NEW j \in DOMAIN rest, i < j
      PROVE  rest[i].re < rest[j].re
  <2>1. i + k < j + k
    BY <1>1, <1>5
  <2>. QED BY <1>1, <1>3, <2>1 DEF InOrder
<1>6. ASSUME NEW i \in DOMAIN rest
      PROVE  returned < rest[i].re /\ rest[i].re <= taken
  <2>1. i + k \in DOMAIN answers /\ rest[i].re = answers[i + k].re
    BY <1>1, <1>3
  <2>2. result < rest[i].re /\ rest[i].re <= taken /\ rest[i].re \in Nat
    BY <1>1, <1>2, <2>1 DEF InOrder
  <2>3. CASE k = 1 /\ 1 \in DOMAIN answers /\ returned = answers[1].re
    <3>1. 1 < i + 1
      BY <1>1
    <3>. QED BY <2>1, <2>2, <2>3, <3>1 DEF InOrder
  <2>. QED BY <2>2, <2>3
<1>7. returned <= taken
  BY <1>1, <1>2 DEF InOrder
<1>. QED BY <1>5, <1>6, <1>7 DEF InOrder

(* A request that is written is newer than all the others.                 *)
LEMMA OrderOfSend ==
  ASSUME TypeOK, executed <= written.num, NEW answers,
         InOrder(toMeter, answers, written.num, executed, outcome.re),
         NEW cmd, NEW apdu, Send(cmd, apdu)
  PROVE  /\ InOrder(toMeter', answers, written'.num, executed, outcome.re)
         /\ executed <= written'.num
<1>1. toMeter' = Append(toMeter, written') /\ written'.num = written.num + 1
  BY DEF Send, write, serialize
<1>2. toMeter \in Seq(Requests) /\ written.num \in Nat /\ executed \in Nat
  BY DEF TypeOK, MeterTypeOK, Requests
<1>3. \A i \in 1..Len(toMeter) : toMeter[i].num \in Nat
  BY <1>2, NumbersOfRequests
<1>4. \A i \in 1..Len(toMeter) :
        executed < toMeter[i].num /\ toMeter[i].num <= written.num
  BY <1>2 DEF InOrder
<1>5. /\ DOMAIN toMeter' = 1..(Len(toMeter) + 1) /\ Len(toMeter) \in Nat
      /\ \A i \in 1..Len(toMeter) : toMeter'[i] = toMeter[i]
      /\ toMeter'[Len(toMeter) + 1] = written'
  BY <1>1, <1>2
<1>6. executed < written.num + 1
  BY <1>2
<1>7. ASSUME NEW i \in DOMAIN toMeter', NEW j \in DOMAIN toMeter', i < j
      PROVE  toMeter'[i].num < toMeter'[j].num
  <2>1. i \in 1..Len(toMeter)
    BY <1>5, <1>7
  <2>2. CASE j \in 1..Len(toMeter)
    BY <1>2, <1>5, <1>7, <2>1, <2>2 DEF InOrder
  <2>3. CASE j = Len(toMeter) + 1
    BY <1>1, <1>2, <1>3, <1>4, <1>5, <2>1, <2>3
  <2>. QED BY <1>5, <2>2, <2>3
<1>8. ASSUME NEW i \in DOMAIN toMeter'
      PROVE  executed < toMeter'[i].num /\ toMeter'[i].num <= written'.num
  <2>1. CASE i \in 1..Len(toMeter)
    BY <1>1, <1>2, <1>3, <1>4, <1>5, <2>1
  <2>2. CASE i = Len(toMeter) + 1
    BY <1>1, <1>2, <1>5, <1>6, <2>2
  <2>. QED BY <1>5, <2>1, <2>2
<1>. QED BY <1>1, <1>2, <1>6, <1>7, <1>8 DEF InOrder

(* A request that is gone leaves the others in order too.                  *)
LEMMA OrderOfLoss ==
  ASSUME NEW requests \in Seq(Requests), NEW answers, NEW last \in Nat, NEW taken \in Nat,
         NEW result, InOrder(requests, answers, last, taken, result), requests # <<>>
  PROVE  /\ InOrder(Tail(requests), answers, last, taken, result)
         /\ InOrder(Tail(requests), <<>>, last, requests[1].num, 0)
         /\ taken < requests[1].num /\ requests[1].num <= last /\ requests[1].num \in Nat
<1>. DEFINE tail == Tail(requests)
<1>1. /\ Len(requests) \in Nat /\ Len(requests) >= 1 /\ DOMAIN requests = 1..Len(requests)
  BY EmptySeq
<1>2. /\ DOMAIN tail = 1..(Len(requests) - 1)
      /\ \A i \in 1..(Len(requests) - 1) : tail[i] = requests[i + 1]
  BY HeadTailProperties
<1>. HIDE DEF tail
<1>3. \A i \in 1..Len(requests) : requests[i].num \in Nat
  BY NumbersOfRequests
<1>4. ASSUME NEW i \in DOMAIN tail
      PROVE  /\ i + 1 \in DOMAIN requests /\ tail[i] = requests[i + 1]
             /\ taken < tail[i].num /\ tail[i].num <= last
             /\ requests[1].num < tail[i].num
  <2>1. i + 1 \in DOMAIN requests /\ 1 \in DOMAIN requests /\ 1 < i + 1 /\ tail[i] = requests[i + 1]
    BY <1>1, <1>2
  <2>. QED BY <2>1 DEF InOrder
<1>5. ASSUME NEW i \in DOMAIN tail, NEW j \in DOMAIN tail, i < j
      PROVE  tail[i].num < tail[j].num
  <2>1. i + 1 < j + 1
    BY <1>2, <1>5
  <2>. QED BY <1>4, <2>1 DEF InOrder
<1>6. InOrder(tail, answers, last, taken, result)
  BY <1>4, <1>5 DEF InOrder
<1>7. taken < requests[1].num /\ requests[1].num <= last /\ requests[1].num \in Nat
  BY <1>1, <1>3 DEF InOrder
<1>8. InOrder(tail, <<>>, last, requests[1].num, 0)
  BY <1>4, <1>5, <1>7 DEF InOrder
<1>. QED BY <1>6, <1>7, <1>8 DEF tail

(* If the meter took it, its answer is the newest of all.                  *)
LEMMA OrderOfTake ==
  ASSUME NEW requests \in Seq(Requests), NEW answers \in Seq(Answers), NEW last \in Nat,
         NEW taken \in Nat, NEW result \in Nat, InOrder(requests, answers, last, taken, result),
         requests # <<>>, NEW answer \in Answers, answer.re = requests[1].num
  PROVE  InOrder(Tail(requests), Append(answers, answer), last, requests[1].num, result)
<1>. DEFINE added == Append(answers, answer)
<1>1. Len(answers) \in Nat /\ DOMAIN answers = 1..Len(answers)
  OBVIOUS
<1>2. \A i \in 1..Len(answers) : answers[i].re \in Nat
  BY NumbersOfAnswers
<1>3. /\ DOMAIN added = 1..(Len(answers) + 1)
      /\ \A i \in 1..Len(answers) : added[i] = answers[i]
      /\ added[Len(answers) + 1] = answer
  OBVIOUS
<1>. HIDE DEF added
<1>4. taken < requests[1].num /\ requests[1].num <= last /\ requests[1].num \in Nat
  BY OrderOfLoss
<1>5. result <= requests[1].num /\ result < answer.re
  BY <1>4 DEF InOrder
<1>6. ASSUME NEW i \in 1..Len(answers)
      PROVE  result < answers[i].re /\ answers[i].re < requests[1].num
  <2>1. result < answers[i].re /\ answers[i].re <= taken
    BY <1>1 DEF InOrder
  <2>. QED BY <1>2, <1>4, <2>1
<1>7. ASSUME NEW i \in DOMAIN added
      PROVE  result < added[i].re /\ added[i].re <= requests[1].num
  <2>1. CASE i \in 1..Len(answers)
    BY <1>2, <1>3, <1>4, <1>6, <2>1
  <2>2. CASE i = Len(answers) + 1
    BY <1>3, <1>4, <1>5, <2>2
  <2>. QED BY <1>1, <1>3, <2>1, <2>2
<1>8. ASSUME NEW i \in DOMAIN added, NEW j \in DOMAIN added, i < j
      PROVE  added[i].re < added[j].re
  <2>1. i \in 1..Len(answers)
    BY <1>1, <1>3, <1>8
  <2>2. CASE j \in 1..Len(answers)
    BY <1>1, <1>3, <1>8, <2>1, <2>2 DEF InOrder
  <2>3. CASE j = Len(answers) + 1
    BY <1>3, <1>6, <2>1, <2>3
  <2>. QED BY <1>1, <1>3, <2>2, <2>3
<1>9. InOrder(Tail(requests), <<>>, last, requests[1].num, 0)
  BY OrderOfLoss
<1>10. InOrder(Tail(requests), added, last, requests[1].num, result)
  BY <1>5, <1>7, <1>8, <1>9 DEF InOrder
<1>. QED BY <1>10 DEF added

(* The meter takes the oldest request; its answer is the newest.           *)
LEMMA OrderOfMeterStep ==
  ASSUME TypeOK, OrderInv, MeterStep, UNCHANGED clientVars
  PROVE  OrderInv'
<1>1. toMeter \in Seq(Requests) /\ toClient \in Seq(Answers) /\ toMeter # <<>>
  BY DEF TypeOK, MeterTypeOK, MeterStep
<1>2. PICK cmd, info : Reply(Head(toMeter), cmd, info)
  <2>. DEFINE f == Head(toMeter)
  <2>. SUFFICES \E cmd, info : Reply(f, cmd, info)
    OBVIOUS
  <2>1. CASE TakeSnrm(f)
    BY <2>1 DEF TakeSnrm
  <2>2. CASE TakeDisc(f)
    BY <2>2 DEF TakeDisc
  <2>3. CASE RefuseDisconnected(f)
    BY <2>3 DEF RefuseDisconnected
  <2>4. CASE RejectSendNumber(f)
    BY <2>4 DEF RejectSendNumber
  <2>5. CASE Associate(f)
    BY <2>5 DEF Associate
  <2>6. CASE ReadAttribute(f)
    BY <2>6 DEF ReadAttribute
  <2>. QED BY <2>1, <2>2, <2>3, <2>4, <2>5, <2>6 DEF MeterStep
<1>. DEFINE answer == Answer(toMeter[1].num, cmd, info)
<1>3. /\ toMeter' = Tail(toMeter) /\ executed' = toMeter[1].num
      /\ toClient' = Append(toClient, answer) /\ answer.re = toMeter[1].num
  <2>1. Head(toMeter) = toMeter[1]
    BY <1>1
  <2>2. toMeter' = Tail(toMeter) /\ executed' = Head(toMeter).num
    BY DEF MeterStep
  <2>3. toClient' = Append(toClient, Answer(Head(toMeter).num, cmd, info))
    BY <1>2 DEF Reply
  <2>4. answer.re = toMeter[1].num
    BY DEF Answer
  <2>. QED BY <2>1, <2>2, <2>3, <2>4
<1>4. answer \in Answers
  <2>1. toClient' \in Seq(Answers)
    BY MeterStepType DEF TypeOK, MeterTypeOK
  <2>2. Len(toClient) + 1 \in 1..Len(toClient') /\ toClient'[Len(toClient) + 1] = answer
    BY <1>1, <1>3
  <2>. QED BY <2>1, <2>2
<1>5. written.num \in Nat /\ executed \in Nat /\ outcome.re \in Nat
  BY DEF TypeOK, MeterTypeOK, Requests, Outcomes
<1>6. InOrder(toMeter, toClient, written.num, executed, outcome.re) /\ executed <= written.num
  BY DEF OrderInv, AnswersInOrder, InOrder
<1>. HIDE DEF answer
<1>7. /\ InOrder(toMeter', toClient', written.num, executed', outcome.re)
      /\ executed' <= written.num
  BY <1>1, <1>3, <1>4, <1>5, <1>6, OrderOfLoss, OrderOfTake
<1>8. written' = written /\ outcome' = outcome
  BY DEF clientVars
<1>. QED BY <1>7, <1>8 DEF OrderInv, AnswersInOrder, InOrder

(* A damaged answer is in its place.                                       *)
LEMMA OrderOfDamage ==
  ASSUME NEW answers \in Seq(Answers), answers # <<>>
  PROVE  Rest([answers EXCEPT ![1] = Damaged(@)], answers, 0)
<1>1. 1 \in DOMAIN answers /\ Len(answers) \in Nat /\ DOMAIN answers = 1..Len(answers)
  BY EmptySeq
<1>2. \A a \in Answers : Damaged(a) \in Answers /\ Damaged(a).re = a.re
  BY DEF Damaged, Answers
<1>. DEFINE rest == [answers EXCEPT ![1] = Damaged(@)]
<1>3. /\ rest \in Seq(Answers) /\ Len(rest) = Len(answers)
      /\ \A i \in 1..Len(answers) : rest[i] = IF i = 1 THEN Damaged(answers[1]) ELSE answers[i]
  BY <1>1, <1>2, ExceptSeq
<1>4. \A i \in 1..Len(answers) : rest[i].re = answers[i].re
  BY <1>1, <1>2, <1>3
<1>. HIDE DEF rest
<1>5. Rest(rest, answers, 0)
  BY <1>1, <1>3, <1>4 DEF Rest
<1>. QED BY <1>5 DEF rest

(* What a read() leaves is what was there without its first frames, and    *)
(* what is valid of it is the first of them.                               *)
LEMMA OrderOfRead ==
  ASSUME TypeOK, NEW r \in read
  PROVE  \E k \in Nat : /\ r.rest \in Seq(Answers)
                        /\ Rest(r.rest, toClient, k)
                        /\ r.buf.valid => k = 1 /\ 1 \in DOMAIN toClient /\ r.buf = toClient[1]
<1>1. toClient \in Seq(Answers) /\ Len(toClient) \in Nat /\ r.rest \in Seq(Answers)
  BY OrderTypes, ReadType
<1>2. CASE r \in Oldest
  <2>1. toClient # <<>> /\ r = [buf |-> Head(toClient), rest |-> Tail(toClient)]
    BY <1>2 DEF Oldest
  <2>2. r.buf = toClient[1] /\ 1 \in DOMAIN toClient /\ Rest(r.rest, toClient, 1)
    BY <1>1, <2>1, HeadTailProperties, EmptySeq DEF Rest
  <2>. QED BY <1>1, <2>2
<1>3. CASE r \in TimedOut
  <2>1. r = [buf |-> NoFrame, rest |-> toClient]
    BY <1>3 DEF TimedOut
  <2>2. Rest(r.rest, toClient, 0)
    BY <1>1, <2>1 DEF Rest
  <2>. QED BY <1>1, <2>1, <2>2 DEF NoFrame
<1>4. CASE r \in Cut
  <2>1. toClient # <<>> /\ r = [buf |-> NoFrame, rest |-> [toClient EXCEPT ![1] = Damaged(@)]]
    BY <1>4 DEF Cut
  <2>2. Rest(r.rest, toClient, 0)
    BY <1>1, <2>1, OrderOfDamage
  <2>. QED BY <1>1, <2>1, <2>2 DEF NoFrame
<1>5. CASE r \in Joined
  <2>1. r = [buf |-> NoFrame, rest |-> <<>>]
    BY <1>5 DEF Joined
  <2>2. Rest(r.rest, toClient, Len(toClient))
    BY <1>1, <2>1 DEF Rest
  <2>. QED BY <1>1, <2>1, <2>2 DEF NoFrame
<1>. QED BY <1>2, <1>3, <1>4, <1>5 DEF read

(* A read() leaves the line in order, also for the answer it returns.      *)
LEMMA OrderAfterRead ==
  ASSUME TypeOK, OrderInv, NEW r \in read
  PROVE  /\ InOrder(toMeter, r.rest, written.num, executed, outcome.re)
         /\ InOrder(toMeter, r.rest, written.num, executed, 0)
         /\ r.buf.valid => InOrder(toMeter, r.rest, written.num, executed, r.buf.re)
<1>1. InOrder(toMeter, toClient, written.num, executed, outcome.re)
  BY InOrderIs DEF OrderInv
<1>2. PICK k \in Nat : /\ r.rest \in Seq(Answers)
                       /\ Rest(r.rest, toClient, k)
                       /\ r.buf.valid => k = 1 /\ 1 \in DOMAIN toClient /\ r.buf = toClient[1]
  BY OrderOfRead
<1>3. ASSUME NEW returned, \/ returned \in {0, outcome.re}
                           \/ r.buf.valid /\ returned = r.buf.re
      PROVE  InOrder(toMeter, r.rest, written.num, executed, returned)
  <2>1. \/ returned \in {0, outcome.re}
        \/ k = 1 /\ 1 \in DOMAIN toClient /\ returned = toClient[1].re
    BY <1>2, <1>3
  <2>2. r.rest \in Seq(Answers) /\ Rest(r.rest, toClient, k)
    BY <1>2
  <2>. QED BY <1>1, <2>1, <2>2, OrderTypes, OrderOfRest
<1>. QED BY <1>3

(* A call that begins writes and reads nothing.                            *)
LEMMA OrderOfBegin ==
  ASSUME TypeOK, OrderInv, UNCHANGED <<meterVars, toClient, outcome>>,
         NEW cmd, NEW apdu, Send(cmd, apdu)
  PROVE  OrderInv'
<1>1. InOrder(toMeter, toClient, written.num, executed, outcome.re)
  BY InOrderIs DEF OrderInv
<1>2. /\ InOrder(toMeter', toClient, written'.num, executed, outcome.re)
      /\ executed <= written'.num
  BY <1>1, OrderOfSend DEF OrderInv
<1>. QED BY <1>2 DEF OrderInv, AnswersInOrder, InOrder, meterVars

(* One that ends reads and writes nothing.                                 *)
LEMMA OrderOfEnd ==
  ASSUME TypeOK, OrderInv, NEW r \in read, toClient' = r.rest,
         UNCHANGED <<meterVars, toMeter, written>>,
         outcome'.re = 0 \/ (r.buf.valid /\ outcome'.re = r.buf.re)
  PROVE  OrderInv'
<1>1. InOrder(toMeter, r.rest, written.num, executed, outcome'.re)
  BY OrderAfterRead
<1>. QED BY <1>1 DEF OrderInv, AnswersInOrder, InOrder, meterVars

LEMMA OrderOfClientStep ==
  ASSUME TypeOK, OrderInv, ClientStep, UNCHANGED meterVars
  PROVE  OrderInv'
<1>. USE DEF Throws
<1>1. CASE Connect
  BY <1>1, OrderOfBegin DEF Connect
<1>2. CASE Disconnect
  BY <1>2, OrderOfBegin DEF Disconnect
<1>3. CASE GetRequest
  BY <1>3, OrderOfBegin DEF GetRequest
<1>4. CASE ConnectUa
  <2>1. PICK r \in read : ConnectUa!2!(r)
    BY <1>4 DEF ConnectUa
  <2>2. CASE Send("I", Aarq) /\ UNCHANGED outcome
    <3>1. InOrder(toMeter, r.rest, written.num, executed, outcome.re)
      BY OrderAfterRead
    <3>2. /\ InOrder(toMeter', r.rest, written'.num, executed, outcome.re)
          /\ executed <= written'.num
      BY <2>2, <3>1, OrderOfSend DEF OrderInv
    <3>. QED BY <2>1, <2>2, <3>2 DEF OrderInv, AnswersInOrder, InOrder, meterVars
  <2>3. CASE /\ UNCHANGED <<toMeter, ctx, written>>
             /\ \/ Throw("connect")
                \/ r.buf.valid /\ Return("connect", "false", r.buf, NoInfo)
    <3>1. toClient' = r.rest /\ UNCHANGED <<toMeter, written>>
      BY <2>1, <2>3
    <3>2. outcome'.re = 0 \/ (r.buf.valid /\ outcome'.re = r.buf.re)
      BY <2>3 DEF Throw, Return
    <3>. QED BY <3>1, <3>2, OrderOfEnd
  <2>. QED BY <2>1, <2>2, <2>3
<1>5. CASE ConnectAare
  <2>1. PICK r \in read : ConnectAare!2!(r)
    BY <1>5 DEF ConnectAare
  <2>. QED BY <1>5, <2>1, OrderOfEnd DEF ConnectAare, Throw, Return
<1>6. CASE DisconnectUa
  <2>1. PICK r \in read : DisconnectUa!2!(r)
    BY <1>6 DEF DisconnectUa
  <2>. QED BY <1>6, <2>1, OrderOfEnd DEF DisconnectUa, Throw, Return
<1>7. CASE GetResponse
  <2>1. PICK r \in read : GetResponse!2!(r)
    BY <1>7 DEF GetResponse
  <2>. QED BY <1>7, <2>1, OrderOfEnd DEF GetResponse, Throw, Return
<1>8. CASE Authenticate
  <2>1. InOrder(toMeter, toClient, written.num, executed, outcome.re)
    BY InOrderIs DEF OrderInv
  <2>2. Rest(toClient, toClient, 0)
    BY OrderTypes DEF Rest
  <2>3. InOrder(toMeter, toClient, written.num, executed, 0)
    BY <2>1, <2>2, OrderTypes, OrderOfRest
  <2>. QED BY <1>8, <2>3 DEF Authenticate, Throw, OrderInv, AnswersInOrder, InOrder, meterVars
<1>. QED BY <1>1, <1>2, <1>3, <1>4, <1>5, <1>6, <1>7, <1>8 DEF ClientStep

LEMMA OrderOfLineStep ==
  ASSUME TypeOK, OrderInv, LineStep, UNCHANGED <<meterVars, clientVars>>
  PROVE  OrderInv'
<1>1. InOrder(toMeter, toClient, written.num, executed, outcome.re)
  BY InOrderIs DEF OrderInv
<1>2. executed' = executed /\ written' = written /\ outcome' = outcome
  BY DEF meterVars, clientVars
<1>3. toMeter' \in Seq(Requests) /\ toClient' \in Seq(Answers)
  BY LineStepType DEF TypeOK, MeterTypeOK
<1>4. InOrder(toMeter', toClient', written.num, executed, outcome.re)
  <2>1. CASE LoseRequest
    <3>1. toMeter # <<>> /\ toMeter' = Tail(toMeter) /\ toClient' = toClient
      BY <2>1 DEF LoseRequest
    <3>. QED BY <1>1, <3>1, OrderTypes, OrderOfLoss
  <2>2. CASE LoseAnswer
    <3>1. toClient # <<>> /\ toClient' = Tail(toClient) /\ toMeter' = toMeter
      BY <2>2 DEF LoseAnswer
    <3>2. Rest(toClient', toClient, 1)
      BY <3>1, OrderTypes, HeadTailProperties, EmptySeq DEF Rest
    <3>. QED BY <1>1, <1>3, <3>1, <3>2, OrderTypes, OrderOfRest
  <2>3. CASE DamageAnswer
    <3>1. toClient # <<>> /\ toMeter' = toMeter
          /\ toClient' = [toClient EXCEPT ![1] = Damaged(@)]
      BY <2>3 DEF DamageAnswer
    <3>2. Rest(toClient', toClient, 0)
      BY <3>1, OrderTypes, OrderOfDamage
    <3>. QED BY <1>1, <1>3, <3>1, <3>2, OrderTypes, OrderOfRest
  <2>. QED BY <2>1, <2>2, <2>3 DEF LineStep
<1>. QED BY <1>2, <1>4 DEF OrderInv, AnswersInOrder, InOrder

LEMMA OrderOfStep ==
  ASSUME TypeOK, OrderInv, [Next]_vars
  PROVE  OrderInv'
<1>1. CASE Restart /\ UNCHANGED clientVars
  BY <1>1 DEF Restart, clientVars, OrderInv, AnswersInOrder
<1>2. CASE UNCHANGED vars
  BY <1>2 DEF vars, lineVars, meterVars, clientVars, OrderInv, AnswersInOrder
<1>. QED BY <1>1, <1>2, OrderOfClientStep, OrderOfMeterStep, OrderOfLineStep DEF Next

LEMMA OrderInit == Init => OrderInv
BY DEF Init, MeterInit, OrderInv, AnswersInOrder

(* However many answers are lost, late, cut, joined or damaged, and        *)
(* however often the meter restarts: answers are read in the order of      *)
(* their requests, each at most once, and never one older than the answer  *)
(* the last call returned (every call of dlms.h reads once per write).     *)
THEOREM AnswersInOrderHolds == Spec => []AnswersInOrder
<1>1. TypeOK /\ OrderInv /\ [Next]_vars => OrderInv'
  BY OrderOfStep
<1>2. OrderInv => AnswersInOrder
  BY DEF OrderInv
<1>. QED BY <1>1, <1>2, OrderInit, TypeCorrect, PTL DEF Spec
=============================================================================
