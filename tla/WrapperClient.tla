---------------------------- MODULE WrapperClient ----------------------------
(***************************************************************************)
(* CosemWrapperClient of include/yadi/dlms.h: connect, disconnect and      *)
(* get_request over a stream, with the frames of module WrapperFrame.      *)
(* set_request does not compile, as in module HdlcClient.                  *)
(*                                                                         *)
(* The stream and the meter are external: write() hands over a frame, and  *)
(* read() returns bytes.  A stream loses and damages nothing, but it keeps *)
(* no frames apart.  What its reads may return is the variable stream,     *)
(* which never changes:                                                    *)
(*   "timely"  the next answer, or nothing when none is under way;         *)
(*   "late"    nothing though an answer is to come, and two answers joined;*)
(*   "cut"     the first bytes of an answer too.                           *)
(***************************************************************************)
EXTENDS WrapperFrame

CONSTANTS
  Streams,    \* which kinds of stream there are
  Ports,      \* wrapper_params
  Aarq,       \* the APDU of serialize_aarq
  Gets,       \* those of serialize_get_request, of any length
  Aares,      \* a meter's answers to an AARQ
  Responses,  \* and to a Get-Request
  MeterPorts, \* the two ports in a meter's frames, which nothing looks at
  Cuts,       \* bound: where a stream may cut
  MaxFrames   \* bound: how many frames the client writes

APDU == {apdu \in Seq(Byte) : Len(apdu) \in 1..MaxUInt16}

ASSUME WrapperAssumption ==
  /\ Streams \subseteq {"timely", "late", "cut"}
  /\ Ports \in WrapperParameters
  /\ {Aarq} \cup Gets \subseteq Seq(Byte) \ {<<>>}
  /\ Aares \cup Responses \subseteq APDU
  /\ MeterPorts \in Seq(Byte) /\ Len(MeterPorts) = 4
  /\ Cuts \subseteq Nat \ {0}
  /\ MaxFrames \in Nat

VARIABLES
  stream,    \* what this stream's reads may return
  toMeter,   \* the frames written and not yet taken by the meter
  toClient,  \* the answers sent and not yet returned by read()
  executed,  \* ghost: the number of the last request the meter took
  call,      \* the read() the client is blocked in, or "idle"
  written,   \* the last request: its number, and the size of its APDU
  outcome    \* how the last call ended, re the request its answer answers

vars == <<stream, toMeter, toClient, executed, call, written, outcome>>

Init ==
  /\ stream \in Streams
  /\ toMeter = <<>>
  /\ toClient = <<>>
  /\ executed = 0
  /\ call = "idle"
  /\ written = [num |-> 0, size |-> 0]
  /\ outcome = [op |-> "none", result |-> "throw", re |-> 0]

-----------------------------------------------------------------------------
(* read(): the bytes, and the number of the request they answer, 0 unless  *)
(* they are one whole answer.                                              *)

Silent == toMeter = <<>> /\ toClient = <<>>

TimedOut ==
  IF Silent \/ stream # "timely"
  THEN {[bytes |-> <<>>, re |-> 0, rest |-> toClient]} ELSE {}

Oldest ==
  IF toClient = <<>> THEN {}
  ELSE {[bytes |-> toClient[1].bytes, re |-> toClient[1].re, rest |-> Tail(toClient)]}

Joined ==
  IF Len(toClient) < 2 \/ stream = "timely" THEN {}
  ELSE {[bytes |-> toClient[1].bytes \o toClient[2].bytes, re |-> 0,
         rest |-> Tail(Tail(toClient))]}

Cut ==
  IF toClient = <<>> \/ stream # "cut" THEN {}
  ELSE LET bytes == toClient[1].bytes
       IN  {[bytes |-> SubSeq(bytes, 1, n), re |-> 0,
             rest |-> [toClient EXCEPT ![1] =
                         [re |-> 0, bytes |-> SubSeq(bytes, n + 1, Len(bytes))]]] :
              n \in {n \in Cuts : n < Len(bytes)}}

read == TimedOut \cup Oldest \cup Joined \cup Cut

(* A meter's frame: the version, the length of its APDU, two ports.        *)
MeterFrame(apdu) ==
  <<0, 1, Len(apdu) \div 256, Len(apdu) % 256>> \o MeterPorts \o apdu

(* The meter answers an AARQ and a Get-Request, if the frame is as long as *)
(* it says; an APDU that is longer than 16 bits can say it drops.          *)
AsLongAsItSays(bytes) == Len(bytes) = Number(bytes[3], bytes[4]) + 8

MeterAnswers ==
  /\ AsLongAsItSays(toMeter[1].bytes)
  /\ executed' = toMeter[1].num
  /\ \E apdu \in IF toMeter[1].bytes[9] = 96 THEN Aares ELSE Responses :
       toClient' = Append(toClient, [re |-> toMeter[1].num, bytes |-> MeterFrame(apdu)])

MeterDrops ==
  /\ ~AsLongAsItSays(toMeter[1].bytes)
  /\ UNCHANGED <<executed, toClient>>

MeterStep ==
  /\ toMeter # <<>>
  /\ toMeter' = Tail(toMeter)
  /\ MeterAnswers \/ MeterDrops
  /\ UNCHANGED <<stream, call, written, outcome>>

-----------------------------------------------------------------------------
Send(apdu) ==
  /\ toMeter' = Append(toMeter, [num |-> written.num + 1, bytes |-> serialize(Ports, apdu)])
  /\ written' = [num |-> written.num + 1, size |-> Len(apdu)]

Budget == written.num < MaxFrames

Return(op, r) ==
  /\ call' = "idle"
  /\ outcome' = [op |-> op, result |-> "returns", re |-> r.re]

Throw(op) ==
  /\ call' = "idle"
  /\ outcome' = [op |-> op, result |-> "throw", re |-> 0]

Connect ==
  /\ call = "idle"
  /\ Budget
  /\ Send(Aarq)
  /\ call' = "connect"
  /\ UNCHANGED <<stream, toClient, executed, outcome>>

(* parse_aare accepts whatever parse does not throw at.                    *)
ConnectAare ==
  /\ call = "connect"
  /\ \E r \in read :
       /\ toClient' = r.rest
       /\ IF wrapper_frame_complete(r.bytes) THEN Return("connect", r) ELSE Throw("connect")
  /\ UNCHANGED <<stream, toMeter, executed, written>>

(* Returns true, and leaves the association as it is.                      *)
Disconnect ==
  /\ call = "idle"
  /\ outcome' = [op |-> "disconnect", result |-> "returns", re |-> 0]
  /\ UNCHANGED <<stream, toMeter, toClient, executed, call, written>>

(* Mutant: a second request goes out without waiting.                      *)
GetRequestTwice ==
  /\ call = "idle"
  /\ Budget
  /\ \E apdu \in Gets :
       /\ toMeter' = toMeter \o [i \in 1..2 |->
            [num |-> written.num + 1, bytes |-> serialize(Ports, apdu)]]
       /\ written' = [num |-> written.num + 1, size |-> Len(apdu)]
  /\ call' = "get"
  /\ UNCHANGED <<stream, toClient, executed, outcome>>

GetRequest ==
  /\ call = "idle"
  /\ Budget
  /\ \E apdu \in Gets : Send(apdu)
  /\ call' = "get"
  /\ UNCHANGED <<stream, toClient, executed, outcome>>

(* parse_get_response of src/cosem.cpp throws at anything else.            *)
IsGetResponse(data) == Len(data) >= 4 /\ data[1] = 196 /\ data[2] = 1

(* Mutant: what is not complete yet is waited for.                         *)
GetResponseInsists ==
  /\ call = "get"
  /\ \E r \in read :
       /\ toClient' = r.rest
       /\ IF wrapper_frame_complete(r.bytes)
          THEN IF IsGetResponse(parse(r.bytes)) THEN Return("get", r) ELSE Throw("get")
          ELSE UNCHANGED <<call, outcome>>
  /\ UNCHANGED <<stream, toMeter, executed, written>>

GetResponse ==
  /\ call = "get"
  /\ \E r \in read :
       /\ toClient' = r.rest
       /\ IF wrapper_frame_complete(r.bytes) /\ IsGetResponse(parse(r.bytes))
          THEN Return("get", r) ELSE Throw("get")
  /\ UNCHANGED <<stream, toMeter, executed, written>>

ClientStep == Connect \/ ConnectAare \/ Disconnect \/ GetRequest \/ GetResponse

Next == ClientStep \/ MeterStep

Spec == Init /\ [][Next]_vars

(* read() comes back, and a meter that has a request answers it or drops   *)
(* it, within the timeout of a stream that is timely.                      *)
Fairness == WF_vars(ConnectAare \/ GetResponse) /\ WF_vars(MeterStep)

FairSpec == Spec /\ Fairness

-----------------------------------------------------------------------------
(* What goes over the stream are bytes.                                    *)
Requests == [num : Nat \ {0}, bytes : Seq(Byte)]
Answers == [re : Nat, bytes : Seq(Byte)]

TypeOK ==
  /\ stream \in Streams
  /\ toMeter \in Seq(Requests)
  /\ toClient \in Seq(Answers)
  /\ executed \in Nat
  /\ call \in {"idle", "connect", "get"}
  /\ written \in [num : Nat, size : Nat]
  /\ outcome \in [op : {"none", "connect", "disconnect", "get"},
                  result : {"returns", "throw"}, re : Nat]

(* The two halves of the codec agree, whose lengths are cut to 16 bits in  *)
(* two ways: the frame that serialize makes of an APDU is one for which    *)
(* wrapper_frame_complete, which every answer has to pass, finds all bytes *)
(* there, up to 65527 bytes of APDU and for none longer, although 65535    *)
(* bytes are what the AARQ proposes and what the length field holds.       *)
WrittenComplete ==
  toMeter # <<>> =>
    (wrapper_frame_complete(toMeter[Len(toMeter)].bytes) <=> written.size <= 65527)

(* A call that returns rests on one whole answer, not on two that were     *)
(* read together, as long as the stream cuts none.                         *)
AcceptedWhole ==
  outcome.result = "returns" /\ outcome.op # "disconnect" /\ stream # "cut" => outcome.re # 0

(* The exchange is in step while no answer is late: between two calls the  *)
(* stream is empty, and during one a single frame is on it.                *)
InStep ==
  stream = "timely" =>
    Len(toMeter) + Len(toClient) <= IF call = "idle" THEN 0 ELSE 1

(* get_request of this client never returns: parse leaves the header on    *)
(* (wrapper.cpp:63 has unpacking to do), so that parse_get_response throws *)
(* at every frame of a meter, and at what a cut leaves of one shorter than *)
(* 49416 bytes.                                                            *)
GetAlwaysThrows == outcome.op = "get" => outcome.result = "throw"

(* What the three above rest on: but for a stream that cuts, what is under *)
(* way to the client are whole frames of the meter.                        *)
WholeAnswers ==
  {answer \in Answers :
     answer.re # 0 /\ \E apdu \in Aares \cup Responses : answer.bytes = MeterFrame(apdu)}

WholeInv ==
  stream # "cut" => toClient \in Seq(WholeAnswers) /\ AcceptedWhole /\ GetAlwaysThrows

(* A timely stream is empty, or holds the request the waiting call wrote,  *)
(* or the answer to that very request, unless the meter has dropped it.    *)
TimelyInv ==
  stream = "timely" =>
    \/ call = "idle" /\ Silent /\ executed <= written.num
    \/ call # "idle" /\ Silent /\ executed < written.num
    \/ /\ call # "idle"
       /\ toClient = <<>> /\ Len(toMeter) = 1
       /\ toMeter[1].num = written.num
       /\ executed < written.num
    \/ /\ call # "idle"
       /\ toMeter = <<>> /\ Len(toClient) = 1
       /\ toClient[1].re = written.num
       /\ executed = written.num

(* The discipline of module Exchange, step by step, on a timely stream.    *)
Phase ==
  IF call = "idle" THEN "idle"
  ELSE IF executed = written.num THEN "served" ELSE "asked"

Discipline ==
  INSTANCE Exchange WITH phase <- Phase, asked <- written.num,
                         executed <- executed, result <- outcome.re

KeepsDiscipline == [][stream = "timely" => Discipline!Next \/ UNCHANGED Discipline!vars]_vars

(* Every call ends, on any stream.                                         *)
CallReturns == call # "idle" ~> call = "idle"
=============================================================================
