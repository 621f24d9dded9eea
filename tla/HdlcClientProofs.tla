-------------------------- MODULE HdlcClientProofs --------------------------
(***************************************************************************)
(* Theorems about HdlcClient, for every set of attributes, of granted      *)
(* lengths and of faults, and for every number of frames.                  *)
(***************************************************************************)
EXTENDS HdlcClient, SequenceTheorems, TLAPS

-----------------------------------------------------------------------------
(* Types.                                                                  *)

LEMMA SerializeType ==
  ASSUME written \in Requests, NEW cmd \in {"SNRM", "DISC", "I"}, NEW apdu \in Apdus
  PROVE  serialize(get_frame(cmd, apdu)) \in Requests
BY DEF Requests, serialize, get_frame

(* Whatever read() returns is an answer, and what it leaves are answers.   *)
LEMMA ReadType ==
  ASSUME toClient \in Seq(Answers), NEW r \in read
  PROVE  r.buf \in Answers /\ r.rest \in Seq(Answers)
<1>1. NoFrame \in Answers
  BY DEF NoFrame, Answers, Infos
<1>2. ASSUME NEW a \in Answers PROVE Damaged(a) \in Answers
  BY <1>2 DEF Damaged, Answers
<1>3. CASE r \in Oldest
  BY <1>3 DEF Oldest
<1>4. CASE r \in TimedOut
  BY <1>1, <1>4 DEF TimedOut
<1>5. CASE r \in Cut
  <2>1. toClient # <<>> /\ r = [buf |-> NoFrame, rest |-> [toClient EXCEPT ![1] = Damaged(@)]]
    BY <1>5 DEF Cut
  <2>2. 1 \in 1..Len(toClient) /\ toClient[1] \in Answers
    BY <2>1
  <2>3. [toClient EXCEPT ![1] = Damaged(@)] \in Seq(Answers)
    BY <1>2, <2>2
  <2>. QED BY <1>1, <2>1, <2>3
<1>6. CASE r \in Joined
  <2>1. r = [buf |-> NoFrame, rest |-> <<>>]
    BY <1>6 DEF Joined
  <2>. QED BY <1>1, <2>1
<1>. QED BY <1>3, <1>4, <1>5, <1>6 DEF read

(* A request is written at the end of the queue and remembered.            *)
LEMMA SendType ==
  ASSUME toMeter \in Seq(Requests), written \in Requests,
         NEW cmd \in {"SNRM", "DISC", "I"}, NEW apdu \in Apdus,
         Send(cmd, apdu)
  PROVE  toMeter' \in Seq(Requests) /\ written' \in Requests
<1>1. serialize(get_frame(cmd, apdu)) \in Requests
  BY SerializeType
<1>. QED BY <1>1 DEF Send, write

LEMMA ReplyType ==
  ASSUME toClient \in Seq(Answers), NEW f \in Requests,
         NEW cmd \in {"UA", "DM", "FRMR", "I"}, NEW info \in Infos, Reply(f, cmd, info)
  PROVE  toClient' \in Seq(Answers)
<1>1. Answer(f.num, cmd, info) \in Answers
  BY DEF Answer, Answers, Requests
<1>. QED BY <1>1 DEF Reply

LEMMA MeterStepType ==
  ASSUME TypeOK, MeterStep, UNCHANGED clientVars
  PROVE  TypeOK'
<1>. DEFINE f == Head(toMeter)
<1>1. f \in Requests /\ toMeter' \in Seq(Requests)
  BY DEF TypeOK, MeterTypeOK, MeterStep
<1>2. f.num \in Nat /\ f.ns \in 0..7 /\ f.apdu \in Apdus
  BY <1>1 DEF Requests
<1>3. toClient \in Seq(Answers)
  BY DEF TypeOK, MeterTypeOK
<1>4. NoInfo \in Infos /\ Foreign \in Infos /\ AccessError \in Infos
  BY DEF Infos
<1>5. toClient' \in Seq(Answers) /\ connected' \in BOOLEAN /\ associated' \in BOOLEAN
        /\ expected' \in 0..7
  <2>. USE DEF TypeOK, MeterTypeOK
  <2>1. CASE TakeSnrm(f)
    <3>1. PICK info \in {NoInfo, Foreign} \cup Grants :
            Reply(f, "UA", info)
      BY <2>1 DEF TakeSnrm
    <3>2. info \in Infos
      BY DEF Infos
    <3>3. toClient' \in Seq(Answers)
      BY <1>1, <1>3, <3>1, <3>2, ReplyType
    <3>4. expected' \in 0..7
      BY <2>1 DEF TakeSnrm
    <3>5. connected' \in BOOLEAN /\ associated' \in BOOLEAN
      BY <2>1 DEF TakeSnrm
    <3>. QED BY <3>3, <3>4, <3>5
  <2>2. CASE TakeDisc(f)
    <3>1. Reply(f, "UA", NoInfo) \/ Reply(f, "DM", NoInfo)
      BY <2>2 DEF TakeDisc
    <3>. QED BY <1>1, <1>3, <1>4, <2>2, <3>1, ReplyType DEF TakeDisc
  <2>3. CASE RefuseDisconnected(f)
    BY <1>1, <1>3, <1>4, ReplyType, <2>3 DEF RefuseDisconnected
  <2>4. CASE RejectSendNumber(f)
    BY <1>1, <1>3, <1>4, ReplyType, <2>4 DEF RejectSendNumber
  <2>5. CASE Associate(f)
    <3>1. \A r \in {"accepted", "rejected"} : Aare(r) \in Infos
      BY DEF Infos, Aare
    <3>2. toClient' \in Seq(Answers) /\ associated' \in BOOLEAN
      BY <1>1, <1>3, <2>5, <3>1, ReplyType DEF Associate
    <3>. QED BY <1>2, <2>5, <3>2 DEF Associate
  <2>6. CASE ReadAttribute(f)
    <3>1. f.apdu.attribute \in Attributes
      BY <1>2, <2>6 DEF ReadAttribute, Apdus, NoInfo, Aarq, Get
    <3>2. Data(f.apdu.attribute) \in Infos
      BY <3>1 DEF Infos, Data
    <3>3. toClient' \in Seq(Answers)
      BY <1>1, <1>3, <1>4, <2>6, <3>2, ReplyType DEF ReadAttribute
    <3>. QED BY <1>2, <2>6, <3>3 DEF ReadAttribute
  <2>. QED BY <2>1, <2>2, <2>3, <2>4, <2>5, <2>6 DEF MeterStep
<1>6. executed' \in Nat
  BY <1>2 DEF MeterStep
<1>. QED BY <1>1, <1>5, <1>6 DEF TypeOK, MeterTypeOK, clientVars

LEMMA ReturnType ==
  ASSUME NEW buf \in Answers, NEW data \in Infos,
         NEW op \in {"connect", "disconnect", "get"},
         NEW result \in {"true", "false", "SUCCESS", "HARDWARE_FAULT"},
         Return(op, result, buf, data)
  PROVE  call' = "idle" /\ outcome' \in Outcomes
BY DEF Return, Outcomes, Answers

LEMMA ThrowType ==
  ASSUME NEW op \in {"connect", "disconnect", "authenticate", "get"}, Throw(op)
  PROVE  call' = "idle" /\ outcome' \in Outcomes
<1>1. NoInfo \in Infos
  BY DEF Infos
<1>. QED BY <1>1 DEF Throw, Outcomes

LEMMA NegotiatedType ==
  ASSUME NEW buf \in Answers, parse_snrm_response(buf)
  PROVE  NegotiatedLimits(buf) \in [tx : UInt16, rx : UInt16]
<1>1. buf.info \in Grants
  BY DEF Answers, Infos, parse_snrm_response, NoInfo, Foreign, AccessError
<1>2. buf.info.tx \in UInt16 /\ buf.info.rx \in UInt16
  BY <1>1, LimitsAssumption DEF Grants
<1>. QED BY <1>2, ParametersAssumption DEF NegotiatedLimits, std_min

LEMMA ClientStepType ==
  ASSUME TypeOK, ClientStep, UNCHANGED meterVars
  PROVE  TypeOK'
<1>. USE DEF TypeOK, MeterTypeOK, meterVars
<1>1. NoInfo \in Infos /\ NoInfo \in Apdus /\ Aarq \in Apdus
  BY DEF Infos, Apdus
<1>2. CASE Connect
  BY <1>1, <1>2, SendType DEF Connect
<1>3. CASE ConnectUa
  <2>1. PICK r \in read : ConnectUa!2!(r)
    BY <1>3 DEF ConnectUa
  <2>2. r.buf \in Answers /\ toClient' \in Seq(Answers)
    BY <2>1, ReadType
  <2>3. CASE Throws(r.buf) /\ Throw("connect") /\ UNCHANGED <<toMeter, ctx, written>>
    BY <1>3, <2>2, <2>3, ThrowType DEF ConnectUa
  <2>4. CASE Return("connect", "false", r.buf, NoInfo) /\ UNCHANGED <<toMeter, ctx, written>>
    BY <1>1, <1>3, <2>2, <2>4, ReturnType DEF ConnectUa
  <2>5. CASE /\ parse_snrm_response(r.buf)
             /\ ctx' = NegotiatedLimits(r.buf)
             /\ Send("I", Aarq)
             /\ call' = "aarq"
             /\ UNCHANGED outcome
    BY <1>1, <1>3, <2>2, <2>5, NegotiatedType, SendType DEF ConnectUa
  <2>. QED BY <2>1, <2>3, <2>4, <2>5
<1>4. CASE ConnectAare
  <2>1. PICK r \in read : ConnectAare!2!(r)
    BY <1>4 DEF ConnectAare
  <2>2. r.buf \in Answers /\ toClient' \in Seq(Answers)
    BY <2>1, ReadType
  <2>3. call' = "idle" /\ outcome' \in Outcomes
    BY <1>1, <2>1, <2>2, ThrowType, ReturnType
  <2>. QED BY <1>4, <2>2, <2>3 DEF ConnectAare
<1>5. CASE Disconnect
  BY <1>1, <1>5, SendType DEF Disconnect
<1>6. CASE DisconnectUa
  <2>1. PICK r \in read : DisconnectUa!2!(r)
    BY <1>6 DEF DisconnectUa
  <2>2. r.buf \in Answers /\ toClient' \in Seq(Answers)
    BY <2>1, ReadType
  <2>3. call' = "idle" /\ outcome' \in Outcomes
    BY <1>1, <2>1, <2>2, ThrowType, ReturnType
  <2>. QED BY <1>6, <2>2, <2>3 DEF DisconnectUa
<1>7. CASE GetRequest
  <2>1. PICK attribute \in Attributes : req' = attribute /\ Send("I", Get(attribute))
    BY <1>7 DEF GetRequest
  <2>2. Get(attribute) \in Apdus
    BY DEF Apdus, Get
  <2>3. toMeter' \in Seq(Requests) /\ written' \in Requests
    BY <2>1, <2>2, SendType
  <2>. QED BY <1>7, <2>1, <2>3 DEF GetRequest
<1>8. CASE GetResponse
  <2>1. PICK r \in read : GetResponse!2!(r)
    BY <1>8 DEF GetResponse
  <2>2. r.buf \in Answers /\ toClient' \in Seq(Answers)
    BY <2>1, ReadType
  <2>3. CASE Throw("get")
    BY <1>8, <2>2, <2>3, ThrowType DEF GetResponse
  <2>4. CASE Return("get", DataAccessResult(r.buf.info), r.buf, r.buf.info)
    <3>1. r.buf.info \in Infos
      BY <2>2 DEF Answers
    <3>2. DataAccessResult(r.buf.info) \in {"SUCCESS", "HARDWARE_FAULT"}
      BY DEF DataAccessResult
    <3>3. call' = "idle" /\ outcome' \in Outcomes
      BY <2>2, <2>4, <3>1, <3>2, ReturnType
    <3>. QED BY <1>8, <2>2, <3>3 DEF GetResponse
  <2>. QED BY <2>1, <2>3, <2>4
<1>9. CASE Authenticate
  BY <1>9, ThrowType DEF Authenticate
<1>. QED BY <1>2, <1>3, <1>4, <1>5, <1>6, <1>7, <1>8, <1>9 DEF ClientStep

LEMMA LineStepType ==
  ASSUME TypeOK, LineStep, UNCHANGED <<meterVars, clientVars>>
  PROVE  TypeOK'
<1>. USE DEF TypeOK, MeterTypeOK, meterVars, clientVars
<1>1. CASE LoseRequest
  BY <1>1 DEF LoseRequest
<1>2. CASE LoseAnswer
  BY <1>2 DEF LoseAnswer
<1>3. CASE DamageAnswer
  <2>1. 1 \in 1..Len(toClient) /\ toClient[1] \in Answers
    BY <1>3 DEF DamageAnswer
  <2>2. Damaged(toClient[1]) \in Answers
    BY <2>1 DEF Damaged, Answers
  <2>3. toClient' \in Seq(Answers)
    BY <1>3, <2>1, <2>2 DEF DamageAnswer
  <2>. QED BY <1>3, <2>3 DEF DamageAnswer
<1>. QED BY <1>1, <1>2, <1>3 DEF LineStep

LEMMA StepType ==
  ASSUME TypeOK, [Next]_vars
  PROVE  TypeOK'
<1>1. CASE ClientStep /\ UNCHANGED meterVars
  BY <1>1, ClientStepType
<1>2. CASE MeterStep /\ UNCHANGED clientVars
  BY <1>2, MeterStepType
<1>3. CASE Restart /\ UNCHANGED clientVars
  BY <1>3 DEF Restart, clientVars, TypeOK, MeterTypeOK
<1>4. CASE LineStep /\ UNCHANGED <<meterVars, clientVars>>
  BY <1>4, LineStepType
<1>5. CASE UNCHANGED vars
  BY <1>5 DEF vars, lineVars, meterVars, clientVars, TypeOK, MeterTypeOK
<1>. QED BY <1>1, <1>2, <1>3, <1>4, <1>5 DEF Next

LEMMA InitType == Init => TypeOK
<1>. SUFFICES ASSUME Init PROVE TypeOK
  OBVIOUS
<1>1. MeterTypeOK
  <2>1. toMeter \in Seq(Requests)
    BY DEF Init, MeterInit
  <2>2. toClient \in Seq(Answers)
    BY DEF Init, MeterInit
  <2>3. expected \in 0..7 /\ executed \in Nat
    BY DEF Init, MeterInit
  <2>4. connected \in BOOLEAN /\ associated \in BOOLEAN
    BY DEF Init, MeterInit
  <2>. QED BY <2>1, <2>2, <2>3, <2>4 DEF MeterTypeOK
<1>2. NoInfo \in Infos /\ NoInfo \in Apdus
  BY DEF Infos, Apdus
<1>3. outcome \in Outcomes /\ written \in Requests
  BY <1>2 DEF Init, Outcomes, Requests
<1>4. ctx \in [tx : UInt16, rx : UInt16]
  BY DEF Init, UInt16
<1>. QED BY <1>1, <1>3, <1>4 DEF Init, TypeOK

(* The state of client, line and meter stays well formed: lengths within   *)
(* 16 bits, frame numbers within three, results the caller knows.          *)
THEOREM TypeCorrect == Spec => []TypeOK
<1>. QED BY InitType, StepType, PTL DEF Spec

-----------------------------------------------------------------------------
(* Lines that are never late.                                              *)

Timely == "late" \notin Faults

LEMMA One ==
  ASSUME NEW S, NEW s \in Seq(S), Len(s) = 1
  PROVE  s # <<>> /\ Head(s) = s[1] /\ Tail(s) = <<>>
<1>1. s # <<>>
  BY EmptySeq
<1>2. Tail(s) \in Seq(S) /\ Len(Tail(s)) = 0
  BY <1>1, HeadTailProperties
<1>3. Tail(s) = <<>>
  BY <1>2, EmptySeq
<1>4. Head(s) = s[1]
  OBVIOUS
<1>. QED BY <1>1, <1>3, <1>4

(* read() leaves an empty line; a frame it returns answers the request.    *)
LEMMA TimelyRead ==
  ASSUME Timely, TypeOK, TimelyInv, call # "idle", NEW r \in read
  PROVE  /\ toMeter = <<>> /\ r.rest = <<>>
         /\ r.buf.valid => AnswerOfCall(r.buf)
<1>1. toMeter \in Seq(Requests) /\ toClient \in Seq(Answers)
  BY DEF TypeOK, MeterTypeOK
<1>2. CASE r \in Oldest
  <2>1. toClient # <<>> /\ r = [buf |-> Head(toClient), rest |-> Tail(toClient)]
    BY <1>2 DEF Oldest
  <2>2. toMeter = <<>> /\ Len(toClient) = 1 /\ AnswerOfCall(toClient[1])
    BY <2>1 DEF TimelyInv, LineOfCall, Silent
  <2>3. Tail(toClient) = <<>> /\ Head(toClient) = toClient[1]
    BY <1>1, <2>2, One
  <2>. QED BY <2>1, <2>2, <2>3
<1>3. CASE r \in TimedOut
  BY <1>3 DEF Timely, TimedOut, Silent, NoFrame
<1>. QED BY <1>2, <1>3 DEF read, Timely

(* A call that ends leaves an empty line, whatever it returns.             *)
LEMMA TimelyEnd ==
  ASSUME Timely, TypeOK, TimelyInv, call # "idle", NEW r \in read,
         toClient' = r.rest, UNCHANGED <<meterVars, toMeter, written, req>>,
         call' = "idle", outcome'.re = 0 \/ (r.buf.valid /\ outcome'.re = r.buf.re)
  PROVE  /\ LineOfCall' /\ RequestOfCall'
         /\ executed' <= written'.num /\ outcome'.re <= executed'
<1>1. toMeter = <<>> /\ r.rest = <<>> /\ (r.buf.valid => r.buf.re = executed)
  BY TimelyRead DEF AnswerOfCall
<1>2. LineOfCall'
  BY <1>1 DEF LineOfCall, Silent
<1>3. RequestOfCall'
  BY DEF RequestOfCall
<1>4. executed' = executed /\ written' = written /\ executed \in Nat
  BY DEF meterVars, TypeOK, MeterTypeOK
<1>5. executed' <= written'.num
  BY <1>4 DEF TimelyInv
<1>6. outcome'.re <= executed'
  BY <1>1, <1>4
<1>. QED BY <1>2, <1>3, <1>5, <1>6

(* A call that writes, from an empty line, waits with its own request.     *)
LEMMA TimelySend ==
  ASSUME TypeOK, TimelyInv, toMeter = <<>>, toClient' = <<>>,
         NEW cmd \in {"SNRM", "DISC", "I"}, NEW apdu \in Apdus, Send(cmd, apdu),
         call' # "idle", UNCHANGED <<meterVars, outcome>>
  PROVE  /\ LineOfCall'
         /\ executed' <= written'.num /\ outcome'.re <= executed'
         /\ written'.cmd = cmd /\ written'.apdu = apdu
<1>. DEFINE frame == serialize(get_frame(cmd, apdu))
<1>1. written' = frame /\ toMeter' = <<frame>>
  BY DEF Send, write
<1>2. frame.num = written.num + 1 /\ frame.cmd = cmd /\ frame.apdu = apdu
  BY DEF serialize, get_frame
<1>3. written.num \in Nat /\ executed \in Nat /\ executed <= written.num
  BY DEF TypeOK, MeterTypeOK, Requests, TimelyInv
<1>4. executed' = executed /\ outcome' = outcome
  BY DEF meterVars
<1>5. executed' < written'.num /\ executed' <= written'.num
  BY <1>1, <1>2, <1>3, <1>4
<1>6. LineOfCall'
  BY <1>1, <1>5 DEF LineOfCall
<1>7. outcome'.re <= executed'
  BY <1>4 DEF TimelyInv
<1>. QED BY <1>1, <1>2, <1>5, <1>6, <1>7

(* Between two calls the line is empty.                                    *)
LEMMA IdleLine ==
  ASSUME LineOfCall, call = "idle"
  PROVE  toMeter = <<>> /\ toClient = <<>>
BY DEF LineOfCall, Silent

LEMMA TimelyClientStep ==
  ASSUME Timely, TypeOK, TimelyInv, ClientStep, UNCHANGED meterVars
  PROVE  TimelyInv'
<1>. USE DEF TimelyInv
<1>1. NoInfo \in Apdus /\ Aarq \in Apdus
  BY DEF Apdus
<1>2. CASE Connect
  <2>1. toMeter = <<>> /\ toClient' = <<>>
    BY <1>2, IdleLine DEF Connect
  <2>2. /\ LineOfCall' /\ executed' <= written'.num /\ outcome'.re <= executed'
        /\ written'.cmd = "SNRM"
    BY <1>1, <1>2, <2>1, TimelySend DEF Connect
  <2>3. RequestOfCall' /\ GetReturnsAttribute' /\ DisconnectMeansDisconnected'
    BY <1>2, <2>2 DEF Connect, RequestOfCall, GetReturnsAttribute, DisconnectMeansDisconnected
  <2>. QED BY <2>2, <2>3
<1>3. CASE ConnectUa
  <2>1. PICK r \in read : ConnectUa!2!(r)
    BY <1>3 DEF ConnectUa
  <2>2. call = "snrm" /\ UNCHANGED req
    BY <1>3 DEF ConnectUa
  <2>3. toMeter = <<>> /\ r.rest = <<>>
    BY <2>2, TimelyRead
  <2>4. CASE Throw("connect") /\ UNCHANGED <<toMeter, ctx, written>>
    <3>1. GetReturnsAttribute' /\ DisconnectMeansDisconnected'
      BY <2>4 DEF Throw, GetReturnsAttribute, DisconnectMeansDisconnected
    <3>. QED BY <2>1, <2>2, <2>4, <3>1, TimelyEnd DEF Throw
  <2>5. CASE /\ ~Throws(r.buf)
             /\ Return("connect", "false", r.buf, NoInfo)
             /\ UNCHANGED <<toMeter, ctx, written>>
    BY <2>1, <2>2, <2>5, TimelyEnd
       DEF Throws, Return, GetReturnsAttribute, DisconnectMeansDisconnected
  <2>6. CASE Send("I", Aarq) /\ call' = "aarq" /\ UNCHANGED outcome
    <3>1. /\ LineOfCall' /\ executed' <= written'.num /\ outcome'.re <= executed'
          /\ written'.cmd = "I" /\ written'.apdu = Aarq
      BY <1>1, <2>1, <2>3, <2>6, TimelySend
    <3>2. RequestOfCall' /\ GetReturnsAttribute' /\ DisconnectMeansDisconnected'
      BY <2>6, <3>1 DEF RequestOfCall, GetReturnsAttribute, DisconnectMeansDisconnected
    <3>. QED BY <3>1, <3>2
  <2>. QED BY <2>1, <2>4, <2>5, <2>6
<1>4. CASE ConnectAare
  <2>1. PICK r \in read : ConnectAare!2!(r)
    BY <1>4 DEF ConnectAare
  <2>2. call = "aarq" /\ UNCHANGED <<toMeter, req, ctx, written>>
    BY <1>4 DEF ConnectAare
  <2>3. /\ call' = "idle" /\ outcome'.op = "connect"
        /\ outcome'.re = 0 \/ (r.buf.valid /\ outcome'.re = r.buf.re)
    <3>1. CASE Throws(r.buf)
      BY <2>1, <3>1 DEF Throw
    <3>2. CASE ~Throws(r.buf)
      BY <2>1, <3>2 DEF Throws, Return
    <3>. QED BY <3>1, <3>2
  <2>4. GetReturnsAttribute' /\ DisconnectMeansDisconnected'
    BY <2>3 DEF GetReturnsAttribute, DisconnectMeansDisconnected
  <2>. QED BY <2>1, <2>2, <2>3, <2>4, TimelyEnd
<1>5. CASE Disconnect
  <2>1. toMeter = <<>> /\ toClient' = <<>>
    BY <1>5, IdleLine DEF Disconnect
  <2>2. /\ LineOfCall' /\ executed' <= written'.num /\ outcome'.re <= executed'
        /\ written'.cmd = "DISC"
    BY <1>1, <1>5, <2>1, TimelySend DEF Disconnect
  <2>3. RequestOfCall' /\ GetReturnsAttribute' /\ DisconnectMeansDisconnected'
    BY <1>5, <2>2 DEF Disconnect, RequestOfCall, GetReturnsAttribute, DisconnectMeansDisconnected
  <2>. QED BY <2>2, <2>3
<1>6. CASE DisconnectUa
  <2>1. PICK r \in read : DisconnectUa!2!(r)
    BY <1>6 DEF DisconnectUa
  <2>2. call = "disc" /\ UNCHANGED <<toMeter, req, ctx, written>>
    BY <1>6 DEF DisconnectUa
  <2>3. /\ call' = "idle" /\ outcome'.op = "disconnect"
        /\ outcome'.re = 0 \/ (r.buf.valid /\ outcome'.re = r.buf.re)
        /\ outcome'.result = "true" => r.buf.valid
    <3>1. CASE Throws(r.buf)
      BY <2>1, <3>1 DEF Throw
    <3>2. CASE ~Throws(r.buf)
      BY <2>1, <3>2 DEF Throws, Return
    <3>. QED BY <3>1, <3>2
  <2>4. r.buf.valid => ~connected'
    BY <2>2, TimelyRead DEF AnswerOfCall, meterVars
  <2>. QED BY <2>1, <2>2, <2>3, <2>4, TimelyEnd
           DEF GetReturnsAttribute, DisconnectMeansDisconnected
<1>7. CASE GetRequest
  <2>1. toMeter = <<>> /\ toClient' = <<>> /\ call' = "get" /\ UNCHANGED outcome
    BY <1>7, IdleLine DEF GetRequest
  <2>2. PICK attribute \in Attributes : req' = attribute /\ Send("I", Get(attribute))
    BY <1>7 DEF GetRequest
  <2>3. Get(attribute) \in Apdus
    BY DEF Apdus, Get
  <2>4. /\ LineOfCall' /\ executed' <= written'.num /\ outcome'.re <= executed'
        /\ written'.cmd = "I" /\ written'.apdu = Get(attribute)
    BY <2>1, <2>2, <2>3, TimelySend
  <2>5. RequestOfCall' /\ GetReturnsAttribute' /\ DisconnectMeansDisconnected'
    BY <2>1, <2>2, <2>4 DEF RequestOfCall, GetReturnsAttribute, DisconnectMeansDisconnected
  <2>. QED BY <2>4, <2>5
<1>8. CASE GetResponse
  <2>1. PICK r \in read : GetResponse!2!(r)
    BY <1>8 DEF GetResponse
  <2>2. call = "get" /\ UNCHANGED <<toMeter, req, ctx, written>>
    BY <1>8 DEF GetResponse
  <2>3. CASE Throw("get")
    <3>1. GetReturnsAttribute' /\ DisconnectMeansDisconnected'
      BY <2>3 DEF Throw, GetReturnsAttribute, DisconnectMeansDisconnected
    <3>. QED BY <2>1, <2>2, <2>3, <3>1, TimelyEnd DEF Throw
  <2>4. CASE /\ ~Throws(r.buf)
             /\ Return("get", DataAccessResult(r.buf.info), r.buf, r.buf.info)
    <3>1. r.buf.info.kind = "data" => r.buf.info = Data(req)
      BY <2>2, <2>4, TimelyRead DEF Throws, AnswerOfCall, RequestOfCall, Get
    <3>2. GetReturnsAttribute' /\ DisconnectMeansDisconnected'
      BY <2>2, <2>4, <3>1
         DEF Return, DataAccessResult, GetReturnsAttribute, DisconnectMeansDisconnected
    <3>. QED BY <2>1, <2>2, <2>4, <3>2, TimelyEnd DEF Throws, Return
  <2>. QED BY <2>1, <2>3, <2>4
<1>9. CASE Authenticate
  <2>1. LineOfCall'
    BY <1>9, IdleLine DEF Authenticate, LineOfCall, Silent
  <2>2. executed' <= written'.num /\ outcome'.re <= executed'
    BY <1>9 DEF Authenticate, Throw, meterVars, TypeOK, MeterTypeOK
  <2>3. RequestOfCall' /\ GetReturnsAttribute' /\ DisconnectMeansDisconnected'
    BY <1>9 DEF Authenticate, Throw, RequestOfCall, GetReturnsAttribute,
                DisconnectMeansDisconnected
  <2>. QED BY <2>1, <2>2, <2>3
<1>. QED BY <1>2, <1>3, <1>4, <1>5, <1>6, <1>7, <1>8, <1>9 DEF ClientStep

(* The meter answers the request it takes, and with the data asked for.    *)
LEMMA TimelyMeterStep ==
  ASSUME TypeOK, TimelyInv, MeterStep, UNCHANGED clientVars
  PROVE  TimelyInv'
<1>. DEFINE f == Head(toMeter)
<1>1. /\ call # "idle" /\ toClient = <<>> /\ toMeter = <<written>>
      /\ f = written /\ toMeter' = <<>> /\ executed' = written.num
  BY DEF TimelyInv, LineOfCall, Silent, MeterStep
<1>2. UNCHANGED <<call, req, outcome, written>>
  BY DEF clientVars
<1>3. written \in Requests
  BY DEF TypeOK
<1>4. \E cmd, info : Reply(f, cmd, info) /\ (info.kind = "data" =>
        written.cmd = "I" /\ info = Data(written.apdu.attribute))
  <2>. USE DEF NoInfo, Foreign, Aare, AccessError
  <2>1. CASE TakeSnrm(f)
    BY <2>1 DEF TakeSnrm, Grants
  <2>2. CASE TakeDisc(f)
    BY <2>2 DEF TakeDisc
  <2>3. CASE RefuseDisconnected(f)
    BY <2>3 DEF RefuseDisconnected
  <2>4. CASE RejectSendNumber(f)
    BY <2>4 DEF RejectSendNumber
  <2>5. CASE Associate(f)
    BY <2>5 DEF Associate
  <2>6. CASE ReadAttribute(f)
    BY <1>1, <2>6 DEF ReadAttribute
  <2>. QED BY <2>1, <2>2, <2>3, <2>4, <2>5, <2>6 DEF MeterStep
<1>5. PICK cmd, info : Reply(f, cmd, info) /\ (info.kind = "data" =>
        written.cmd = "I" /\ info = Data(written.apdu.attribute))
  BY <1>4
<1>6. toClient' = <<Answer(written.num, cmd, info)>>
  BY <1>1, <1>5 DEF Reply
<1>7. call = "disc" => ~connected'
  <2>1. call = "disc" => written.cmd = "DISC"
    BY DEF TimelyInv, RequestOfCall
  <2>. QED BY <1>1, <2>1 DEF MeterStep, TakeSnrm, TakeDisc, RefuseDisconnected,
               RejectSendNumber, Associate, ReadAttribute
<1>8. AnswerOfCall(toClient[1])'
  BY <1>1, <1>2, <1>5, <1>6, <1>7 DEF AnswerOfCall, Answer
<1>9. LineOfCall'
  BY <1>1, <1>2, <1>6, <1>8 DEF LineOfCall
<1>10. RequestOfCall'
  BY <1>2 DEF TimelyInv, RequestOfCall
<1>11. executed' <= written'.num /\ outcome'.re <= executed'
  BY <1>1, <1>2, <1>3 DEF TimelyInv, TypeOK, MeterTypeOK, Requests, Outcomes
<1>12. GetReturnsAttribute' /\ DisconnectMeansDisconnected'
  BY <1>1, <1>2 DEF GetReturnsAttribute, DisconnectMeansDisconnected
<1>. QED BY <1>9, <1>10, <1>11, <1>12 DEF TimelyInv

LEMMA TimelyRestart ==
  ASSUME TimelyInv, Restart, UNCHANGED clientVars
  PROVE  TimelyInv'
<1>1. UNCHANGED <<toMeter, toClient, executed, call, req, outcome, written>> /\ ~connected'
  BY DEF Restart, clientVars
<1>2. LineOfCall'
  BY <1>1 DEF TimelyInv, LineOfCall, Silent, AnswerOfCall
<1>. QED BY <1>1, <1>2 DEF TimelyInv, RequestOfCall, GetReturnsAttribute,
                           DisconnectMeansDisconnected

LEMMA TimelyLineStep ==
  ASSUME TypeOK, TimelyInv, LineStep, UNCHANGED <<meterVars, clientVars>>
  PROVE  TimelyInv'
<1>1. UNCHANGED <<connected, executed, call, req, outcome, written>>
  BY DEF meterVars, clientVars
<1>2. toMeter \in Seq(Requests) /\ toClient \in Seq(Answers)
  BY DEF TypeOK, MeterTypeOK
<1>3. ASSUME LoseRequest PROVE LineOfCall'
  <2>1. toMeter = <<written>> /\ toClient = <<>>
    BY <1>3 DEF LoseRequest, TimelyInv, LineOfCall, Silent
  <2>. QED BY <1>3, <2>1 DEF LoseRequest, LineOfCall, Silent
<1>4. ASSUME LoseAnswer PROVE LineOfCall'
  <2>1. toMeter = <<>> /\ Len(toClient) = 1
    BY <1>4 DEF LoseAnswer, TimelyInv, LineOfCall, Silent
  <2>2. Tail(toClient) = <<>>
    BY <1>2, <2>1, One
  <2>. QED BY <1>4, <2>1, <2>2 DEF LoseAnswer, LineOfCall, Silent
<1>5. ASSUME DamageAnswer PROVE LineOfCall'
  <2>1. call # "idle" /\ toMeter = <<>> /\ Len(toClient) = 1 /\ AnswerOfCall(toClient[1])
    BY <1>5 DEF DamageAnswer, TimelyInv, LineOfCall, Silent
  <2>2. toClient[1] \in Answers
    BY <1>2, <2>1
  <2>3. toMeter' = <<>> /\ Len(toClient') = 1 /\ toClient'[1] = Damaged(toClient[1])
    BY <1>2, <1>5, <2>1 DEF DamageAnswer
  <2>4. AnswerOfCall(toClient[1])'
    BY <1>1, <2>1, <2>2, <2>3 DEF AnswerOfCall, Damaged, Answers
  <2>. QED BY <1>1, <2>1, <2>3, <2>4 DEF LineOfCall
<1>6. LineOfCall'
  BY <1>3, <1>4, <1>5 DEF LineStep
<1>. QED BY <1>1, <1>6 DEF TimelyInv, RequestOfCall, GetReturnsAttribute,
                           DisconnectMeansDisconnected

LEMMA TimelyStep ==
  ASSUME Timely, TypeOK, TimelyInv, [Next]_vars
  PROVE  TimelyInv'
<1>1. CASE UNCHANGED vars
  BY <1>1 DEF vars, lineVars, meterVars, clientVars, TimelyInv, LineOfCall, Silent,
              AnswerOfCall, RequestOfCall, GetReturnsAttribute, DisconnectMeansDisconnected
<1>. QED BY <1>1, TimelyClientStep, TimelyMeterStep, TimelyRestart, TimelyLineStep DEF Next

LEMMA TimelyInit == Init => TimelyInv
<1>. SUFFICES ASSUME Init PROVE TimelyInv
  OBVIOUS
<1>1. LineOfCall
  BY DEF Init, MeterInit, LineOfCall, Silent
<1>. QED BY <1>1 DEF Init, MeterInit, TimelyInv, RequestOfCall, GetReturnsAttribute,
                     DisconnectMeansDisconnected

(* On a line that is never late, whatever is lost or damaged and however   *)
(* often the meter restarts: what is on the line belongs to the waiting    *)
(* call, get_request returns the attribute it was asked for and disconnect *)
(* returns true only when the meter is disconnected.                       *)
THEOREM TimelyCorrect == Timely /\ Spec => []TimelyInv
<1>1. Spec => []TypeOK
  BY TypeCorrect
<1>2. Timely /\ TypeOK /\ TimelyInv /\ [Next]_vars => TimelyInv'
  BY TimelyStep
<1>3. Timely /\ Spec => []TimelyInv
  <2>. SUFFICES ASSUME Timely PROVE Spec => []TimelyInv
    OBVIOUS
  <2>1. TypeOK /\ TimelyInv /\ [Next]_vars => TimelyInv'
    BY <1>2
  <2>. QED BY <1>1, <2>1, TimelyInit, PTL DEF Spec
<1>. QED BY <1>3

(* The line is half duplex: between calls it is empty.                     *)
THEOREM WindowOneHolds == Timely /\ Spec => []WindowOne
<1>1. TimelyInv => WindowOne
  <2>. SUFFICES ASSUME TimelyInv PROVE WindowOne
    OBVIOUS
  <2>1. CASE Silent
    BY <2>1 DEF Silent, WindowOne
  <2>2. CASE call # "idle" /\ toClient = <<>> /\ toMeter = <<written>>
    BY <2>2 DEF WindowOne
  <2>3. CASE call # "idle" /\ toMeter = <<>> /\ Len(toClient) = 1
    BY <2>3 DEF WindowOne
  <2>. QED BY <2>1, <2>2, <2>3 DEF TimelyInv, LineOfCall
<1>. QED BY <1>1, TimelyCorrect, PTL

(* get_request returns the attribute it was asked for though the code      *)
(* compares no number: a stale answer needs a late line.                   *)
THEOREM GetReturnsAttributeHolds == Timely /\ Spec => []GetReturnsAttribute
<1>1. TimelyInv => GetReturnsAttribute
  BY DEF TimelyInv
<1>. QED BY <1>1, TimelyCorrect, PTL

(* disconnect returns true only when the meter is disconnected.            *)
THEOREM DisconnectMeansDisconnectedHolds == Timely /\ Spec => []DisconnectMeansDisconnected
<1>1. TimelyInv => DisconnectMeansDisconnected
  BY DEF TimelyInv
<1>. QED BY <1>1, TimelyCorrect, PTL

-----------------------------------------------------------------------------
(* The refinement: every step of the client, the meter and the line is a   *)
(* step of Exchange or leaves its variables alone.                         *)

(* A request that is written is newer than the last one executed.          *)
LEMMA SendAsks ==
  ASSUME TypeOK, TimelyInv, NEW cmd, NEW apdu, Send(cmd, apdu), call' # "idle",
         UNCHANGED <<executed, outcome>>, Phase \in {"idle", "served"}
  PROVE  Discipline!Ask
<1>1. written'.num = written.num + 1
  BY DEF Send, serialize
<1>2. written.num \in Nat /\ executed \in Nat /\ executed <= written.num
  BY DEF TypeOK, MeterTypeOK, Requests, TimelyInv
<1>3. executed # written.num + 1
  BY <1>2
<1>4. Phase' = "asked"
  BY <1>1, <1>3 DEF Phase
<1>. QED BY <1>1, <1>4 DEF Discipline!Ask

LEMMA ThrowFails ==
  ASSUME NEW op, Throw(op), UNCHANGED <<executed, written>>
  PROVE  Discipline!Fail
BY DEF Throw, Phase, Discipline!Fail

LEMMA ReturnAnswers ==
  ASSUME Timely, TypeOK, TimelyInv, call # "idle", NEW r \in read, ~Throws(r.buf),
         NEW op, NEW result, NEW data, Return(op, result, r.buf, data),
         UNCHANGED <<executed, written>>
  PROVE  Discipline!Answer
<1>1. AnswerOfCall(r.buf)
  BY TimelyRead DEF Throws
<1>2. Phase = "served" /\ r.buf.re = written.num
  BY <1>1 DEF AnswerOfCall, Phase
<1>. QED BY <1>2 DEF Return, Phase, Discipline!Answer

LEMMA ClientStepRefines ==
  ASSUME Timely, TypeOK, TimelyInv, ClientStep, UNCHANGED meterVars
  PROVE  Discipline!Next
<1>. USE DEF Discipline!Next
<1>0. UNCHANGED executed
  BY DEF meterVars
<1>1. CASE Connect
  BY <1>0, <1>1, SendAsks DEF Connect, Phase
<1>2. CASE ConnectUa
  <2>1. PICK r \in read : ConnectUa!2!(r)
    BY <1>2 DEF ConnectUa
  <2>2. call # "idle"
    BY <1>2 DEF ConnectUa
  <2>3. CASE Throw("connect") /\ UNCHANGED <<toMeter, ctx, written>>
    BY <1>0, <2>3, ThrowFails
  <2>4. CASE ~Throws(r.buf) /\ Return("connect", "false", r.buf, NoInfo) /\ UNCHANGED <<toMeter, ctx, written>>
    BY <1>0, <2>2, <2>4, ReturnAnswers
  <2>5. CASE ~Throws(r.buf) /\ Send("I", Aarq) /\ call' = "aarq" /\ UNCHANGED outcome
    <3>1. Phase = "served"
      BY <2>2, <2>5, TimelyRead DEF Throws, AnswerOfCall, Phase
    <3>. QED BY <1>0, <2>5, <3>1, SendAsks
  <2>. QED BY <2>1, <2>3, <2>4, <2>5
<1>3. CASE ConnectAare
  <2>1. PICK r \in read : ConnectAare!2!(r)
    BY <1>3 DEF ConnectAare
  <2>. QED BY <1>0, <1>3, <2>1, ThrowFails, ReturnAnswers DEF ConnectAare
<1>4. CASE Disconnect
  BY <1>0, <1>4, SendAsks DEF Disconnect, Phase
<1>5. CASE DisconnectUa
  <2>1. PICK r \in read : DisconnectUa!2!(r)
    BY <1>5 DEF DisconnectUa
  <2>. QED BY <1>0, <1>5, <2>1, ThrowFails, ReturnAnswers DEF DisconnectUa
<1>6. CASE GetRequest
  <2>1. PICK attribute \in Attributes : Send("I", Get(attribute))
    BY <1>6 DEF GetRequest
  <2>. QED BY <1>0, <1>6, <2>1, SendAsks DEF GetRequest, Phase
<1>7. CASE GetResponse
  <2>1. PICK r \in read : GetResponse!2!(r)
    BY <1>7 DEF GetResponse
  <2>. QED BY <1>0, <1>7, <2>1, ThrowFails, ReturnAnswers DEF GetResponse
<1>8. CASE Authenticate
  BY <1>0, <1>8, ThrowFails DEF Authenticate
<1>. QED BY <1>1, <1>2, <1>3, <1>4, <1>5, <1>6, <1>7, <1>8 DEF ClientStep

LEMMA MeterStepRefines ==
  ASSUME TypeOK, TimelyInv, MeterStep, UNCHANGED clientVars
  PROVE  Discipline!Next
<1>1. call # "idle" /\ toMeter = <<written>> /\ executed < written.num
  BY DEF TimelyInv, LineOfCall, Silent, MeterStep
<1>2. executed # written.num
  BY <1>1 DEF TypeOK, MeterTypeOK, Requests
<1>3. executed' = written.num
  BY <1>1 DEF MeterStep
<1>. QED BY <1>1, <1>2, <1>3 DEF clientVars, Phase, Discipline!Next, Discipline!Execute

LEMMA StepRefines ==
  ASSUME Timely, TypeOK, TimelyInv, [Next]_vars
  PROVE  [Discipline!Next]_Discipline!vars
<1>. USE DEF Discipline!vars, Phase
<1>1. CASE Restart /\ UNCHANGED clientVars
  BY <1>1 DEF Restart, clientVars
<1>2. CASE LineStep /\ UNCHANGED <<meterVars, clientVars>>
  BY <1>2 DEF meterVars, clientVars
<1>3. CASE UNCHANGED vars
  BY <1>3 DEF vars, meterVars, clientVars
<1>. QED BY <1>1, <1>2, <1>3, ClientStepRefines, MeterStepRefines DEF Next

LEMMA InitRefines == Init => Discipline!Init
BY DEF Init, MeterInit, Phase, Discipline!Init

(* On a line that is never late the client implements Exchange: every      *)
(* request is executed at most once, while its call waits, and a call that *)
(* returns an answer returns the answer to the request it wrote last.      *)
THEOREM ClientImplementsExchange == Timely /\ Spec => ImplementsExchange
<1>. SUFFICES ASSUME Timely PROVE Spec => ImplementsExchange
  OBVIOUS
<1>1. TypeOK /\ TimelyInv /\ [Next]_vars => [Discipline!Next]_Discipline!vars
  BY StepRefines
<1>. QED BY <1>1, InitRefines, TypeCorrect, TimelyCorrect, PTL
         DEF Spec, ImplementsExchange, Discipline!Spec
=============================================================================
