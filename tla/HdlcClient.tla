----------------------------- MODULE HdlcClient -----------------------------
(***************************************************************************)
(* CosemHdlcClient of include/yadi/dlms.h: connect, disconnect,            *)
(* authenticate and get_request, with what they call in src/hdlc.cpp and   *)
(* src/cosem.cpp.  A call writes a frame and then blocks in read(); the    *)
(* application makes one call at a time, in any order, and catches what a  *)
(* call throws.  The frame codec itself is module HdlcFrame.               *)
(*                                                                         *)
(* set_request is absent: it names parse_set_response, which is declared   *)
(* nowhere, so no program that calls it compiles.                          *)
(***************************************************************************)
EXTENDS Meter

CONSTANTS
  ProposedTx,  \* hdlc_params.max_information_field_length_tx
  ProposedRx,  \* hdlc_params.max_information_field_length_rx
  MaxFrames    \* bound: how many frames the client writes in all

ASSUME ParametersAssumption ==
  /\ ProposedTx \in UInt16
  /\ ProposedRx \in UInt16
  /\ MaxFrames \in Nat

VARIABLES
  call,     \* the read() the client is blocked in; "idle" between two calls
  req,      \* the argument of the last get_request
  ctx,      \* hdlc_ctx: the negotiated field lengths
  outcome,  \* how the last call ended
  written   \* the last frame written; its num counts the frames

clientVars == <<call, req, ctx, outcome, written>>

vars == <<lineVars, meterVars, clientVars>>

NoAttribute == "no attribute"

Outcomes ==
  [op : {"none", "connect", "disconnect", "authenticate", "get"},
   result : {"throw", "true", "false", "SUCCESS", "HARDWARE_FAULT"},
   data : Infos,
   re : Nat]

(* The state stays within what the code can hold: field lengths of 16 bits, *)
(* three bit frame numbers, results the callers of yadi/cosem.h know.      *)
TypeOK ==
  /\ MeterTypeOK
  /\ call \in {"idle", "snrm", "aarq", "disc", "get"}
  /\ req \in Attributes \cup {NoAttribute}
  /\ ctx \in [tx : UInt16, rx : UInt16]
  /\ outcome \in Outcomes
  /\ written \in Requests

Init ==
  /\ MeterInit
  /\ call = "idle"
  /\ req = NoAttribute
  /\ ctx = [tx |-> 128, rx |-> 128]
  /\ outcome = [op |-> "none", result |-> "throw", data |-> NoInfo, re |-> 0]
  /\ written = [num |-> 0, cmd |-> "DISC", apdu |-> NoInfo, ns |-> 0, nr |-> 0]

-----------------------------------------------------------------------------
(* Writing.  get_frame fills rrr and sss with the same numbers every time; *)
(* hdlc_frame_serialize puts rrr where the send number goes and sss + 1    *)
(* where the receive number goes, in I frames only.                        *)

get_frame(cmd, apdu) == [cmd |-> cmd, apdu |-> apdu, rrr |-> 0, sss |-> 1]

serialize(frame) ==
  [num  |-> written.num + 1,
   cmd  |-> frame.cmd,
   apdu |-> frame.apdu,
   ns   |-> IF frame.cmd = "I" THEN frame.rrr % 8 ELSE 0,
   nr   |-> IF frame.cmd = "I" THEN (frame.sss + 1) % 8 ELSE 0]

(* Mutant: a blind retransmission, every frame written twice.              *)
SendTwice(cmd, apdu) ==
  LET frame == serialize(get_frame(cmd, apdu))
  IN  /\ toMeter' = toMeter \o <<frame, frame>>
      /\ written' = frame

Send(cmd, apdu) ==
  LET frame == serialize(get_frame(cmd, apdu))
  IN  /\ write(frame)
      /\ written' = frame

(* The model's bound, checked where a call starts so that it never blocks  *)
(* one half way.                                                           *)
Budget(n) == written.num + n <= MaxFrames

-----------------------------------------------------------------------------
(* Parsing.  hdlc::parse and parse_disc_response throw when                *)
(* hdlc_frame_parse does; parse drops the type of the frame.               *)

Throws(buf) == ~buf.valid

parse_snrm_response(buf) == buf.info.kind = "params" /\ buf.cmd = "UA"

(* The loop over the items of the UA leaves a value for each length (the   *)
(* proposal where it finds none); module Negotiation has the loop itself.  *)
std_min(a, b) == IF b < a THEN b ELSE a

NegotiatedLimits(buf) ==
  [tx |-> std_min(ProposedTx, buf.info.tx), rx |-> std_min(ProposedRx, buf.info.rx)]

(* parse_aare does not look at the AARE.                                   *)
parse_aare(info) == "ACCEPTED"

(* parse_get_response throws unless the bytes start as a normal            *)
(* Get-Response.  Its fourth byte, which tells data (0) from an error (1), *)
(* is taken for the result: an error of any kind reads as HARDWARE_FAULT.  *)
IsGetResponse(info) == info.kind \in {"data", "error"}

(* Mutant: the answer's own code is handed on without being decoded.       *)
DataAccessResultRaw(info) == info.kind

DataAccessResult(info) == IF info.kind = "data" THEN "SUCCESS" ELSE "HARDWARE_FAULT"

-----------------------------------------------------------------------------
(* The end of a call: by a return that rests on the answer buf, or by an   *)
(* exception.                                                              *)
Return(op, result, buf, data) ==
  /\ call' = "idle"
  /\ outcome' = [op |-> op, result |-> result, data |-> data, re |-> buf.re]

Throw(op) ==
  /\ call' = "idle"
  /\ outcome' = [op |-> op, result |-> "throw", data |-> NoInfo, re |-> 0]

(* Mutant: connect goes straight to the association.                       *)
ConnectWithoutSnrm ==
  /\ call = "idle"
  /\ Budget(2)
  /\ Send("I", Aarq)
  /\ call' = "aarq"
  /\ UNCHANGED <<toClient, req, ctx, outcome>>

Connect ==
  /\ call = "idle"
  /\ Budget(2)
  /\ Send("SNRM", NoInfo)
  /\ call' = "snrm"
  /\ UNCHANGED <<toClient, req, ctx, outcome>>

(* Mutant: connect reads on until the meter says something usable.         *)
ConnectUaInsists ==
  /\ call = "snrm"
  /\ \E r \in read :
       /\ toClient' = r.rest
       /\ IF Throws(r.buf) \/ ~parse_snrm_response(r.buf)
          THEN UNCHANGED <<toMeter, ctx, written, call>>
          ELSE /\ ctx' = NegotiatedLimits(r.buf)
               /\ Send("I", Aarq)
               /\ call' = "aarq"
  /\ UNCHANGED <<req, outcome>>

ConnectUa ==
  /\ call = "snrm"
  /\ \E r \in read :
       /\ toClient' = r.rest
       /\ \/ /\ Throws(r.buf)
             /\ Throw("connect")
             /\ UNCHANGED <<toMeter, ctx, written>>
          \/ /\ ~Throws(r.buf)
             /\ ~parse_snrm_response(r.buf)
             /\ Return("connect", "false", r.buf, NoInfo)
             /\ UNCHANGED <<toMeter, ctx, written>>
          \/ /\ ~Throws(r.buf)
             /\ parse_snrm_response(r.buf)
             /\ ctx' = NegotiatedLimits(r.buf)
             /\ Send("I", Aarq)
             /\ call' = "aarq"
             /\ UNCHANGED outcome
  /\ UNCHANGED req

ConnectAare ==
  /\ call = "aarq"
  /\ \E r \in read :
       /\ toClient' = r.rest
       /\ \/ Throws(r.buf) /\ Throw("connect")
          \/ /\ ~Throws(r.buf)
             /\ Return("connect",
                       IF parse_aare(r.buf.info) = "ACCEPTED" THEN "true" ELSE "false",
                       r.buf, NoInfo)
  /\ UNCHANGED <<toMeter, req, ctx, written>>

(* Mutant: disconnect does not wait for the answer.                        *)
DisconnectAndGo ==
  /\ call = "idle"
  /\ Budget(1)
  /\ Send("DISC", NoInfo)
  /\ outcome' = [op |-> "disconnect", result |-> "true", data |-> NoInfo, re |-> 0]
  /\ UNCHANGED <<call, toClient, req, ctx>>

Disconnect ==
  /\ call = "idle"
  /\ Budget(1)
  /\ Send("DISC", NoInfo)
  /\ call' = "disc"
  /\ UNCHANGED <<toClient, req, ctx, outcome>>

(* Mutant: whatever becomes of the DISC, the client calls itself           *)
(* disconnected.                                                           *)
DisconnectUaSwallows ==
  /\ call = "disc"
  /\ \E r \in read :
       /\ toClient' = r.rest
       /\ Return("disconnect", "true", r.buf, NoInfo)
  /\ UNCHANGED <<toMeter, req, ctx, written>>

DisconnectUa ==
  /\ call = "disc"
  /\ \E r \in read :
       /\ toClient' = r.rest
       /\ \/ Throws(r.buf) /\ Throw("disconnect")
          \/ /\ ~Throws(r.buf)
             /\ Return("disconnect", IF r.buf.cmd = "UA" THEN "true" ELSE "false",
                       r.buf, NoInfo)
  /\ UNCHANGED <<toMeter, req, ctx, written>>

(* Mutant: the request sent is the one built for the previous call.        *)
GetRequestStale ==
  /\ call = "idle"
  /\ Budget(1)
  /\ \E attribute \in Attributes :
       /\ req' = attribute
       /\ Send("I", Get(IF req = NoAttribute THEN attribute ELSE req))
  /\ call' = "get"
  /\ UNCHANGED <<toClient, ctx, outcome>>

GetRequest ==
  /\ call = "idle"
  /\ Budget(1)
  /\ \E attribute \in Attributes :
       /\ req' = attribute
       /\ Send("I", Get(attribute))
  /\ call' = "get"
  /\ UNCHANGED <<toClient, ctx, outcome>>

GetResponse ==
  /\ call = "get"
  /\ \E r \in read :
       /\ toClient' = r.rest
       /\ \/ Throws(r.buf) /\ Throw("get")
          \/ /\ ~Throws(r.buf)
             /\ ~IsGetResponse(r.buf.info)
             /\ Throw("get")
          \/ /\ ~Throws(r.buf)
             /\ IsGetResponse(r.buf.info)
             /\ Return("get", DataAccessResult(r.buf.info), r.buf, r.buf.info)
  /\ UNCHANGED <<toMeter, req, ctx, written>>

(* Mutant: the request is built and written, and nobody reads the answer.  *)
AuthenticateWrites ==
  /\ call = "idle"
  /\ Budget(1)
  /\ Send("I", Aarq)
  /\ outcome' = [op |-> "authenticate", result |-> "true", data |-> NoInfo, re |-> 0]
  /\ UNCHANGED <<call, toClient, req, ctx>>

(* authenticate() builds its request from {}: the empty initializer list   *)
(* reaches LogicalName, which throws because it is not 6 bytes long.       *)
(* Nothing has been written by then.                                       *)
Authenticate ==
  /\ call = "idle"
  /\ Throw("authenticate")
  /\ UNCHANGED <<toMeter, toClient, req, ctx, written>>

ClientStep ==
  \/ Connect
  \/ ConnectUa
  \/ ConnectAare
  \/ Disconnect
  \/ DisconnectUa
  \/ GetRequest
  \/ GetResponse
  \/ Authenticate

LineStep == LoseRequest \/ LoseAnswer \/ DamageAnswer

Next ==
  \/ ClientStep /\ UNCHANGED meterVars
  \/ MeterStep /\ UNCHANGED clientVars
  \/ Restart /\ UNCHANGED clientVars
  \/ LineStep /\ UNCHANGED <<meterVars, clientVars>>

Spec == Init /\ [][Next]_vars

(* A call goes on with what its read() returned.                           *)
Reading == ConnectUa \/ ConnectAare \/ DisconnectUa \/ GetResponse

-----------------------------------------------------------------------------
(* The line is half duplex and the window is one frame (src/hdlc.cpp:47):  *)
(* between two calls nothing is on its way, and during a call at most one  *)
(* frame is.  Holds as long as no answer is late.                          *)
WindowOne ==
  Len(toMeter) + Len(toClient) <= IF call = "idle" THEN 0 ELSE 1

(* get_request returns the attribute it was asked for, never the answer to *)
(* an earlier request.  The code compares neither the frame's numbers nor  *)
(* the invoke id (always 1): only the discipline of the line can give this.*)
GetReturnsAttribute ==
  call = "idle" /\ outcome.op = "get" /\ outcome.result = "SUCCESS" =>
    outcome.data = Data(req)

(* When disconnect returns true the meter is disconnected: the UA it read  *)
(* is that of its own DISC and not that of an earlier SNRM.                *)
DisconnectMeansDisconnected ==
  call = "idle" /\ outcome.op = "disconnect" /\ outcome.result = "true" => ~connected

(* What makes the two properties above hold on a line that is never late,  *)
(* though the code compares no number: the line is empty, or holds the     *)
(* request the waiting call wrote, or an answer to that very request.      *)
AnswerOfCall(answer) ==
  /\ answer.re = written.num
  /\ executed = written.num
  /\ answer.info.kind = "data" =>
       written.cmd = "I" /\ answer.info = Data(written.apdu.attribute)
  /\ call = "disc" => ~connected

LineOfCall ==
  \/ Silent
  \/ /\ call # "idle"
     /\ toClient = <<>>
     /\ toMeter = <<written>>
     /\ executed < written.num
  \/ /\ call # "idle"
     /\ toMeter = <<>>
     /\ Len(toClient) = 1
     /\ AnswerOfCall(toClient[1])

(* A call waits with the request it wrote.                                 *)
RequestOfCall ==
  /\ call = "snrm" => written.cmd = "SNRM"
  /\ call = "aarq" => written.cmd = "I" /\ written.apdu = Aarq
  /\ call = "disc" => written.cmd = "DISC"
  /\ call = "get" => written.cmd = "I" /\ written.apdu = Get(req)

(* The invariant of a line that is never late: every call starts and ends  *)
(* with an empty line, and what is on it in between belongs to the call.   *)
TimelyInv ==
  /\ LineOfCall
  /\ RequestOfCall
  /\ executed <= written.num
  /\ outcome.re <= executed
  /\ GetReturnsAttribute
  /\ DisconnectMeansDisconnected

(* When connect returns true the meter is in normal response mode, though  *)
(* the second answer it reads, whatever its type, is not looked at.        *)
ConnectMeansConnected ==
  call = "idle" /\ outcome.op = "connect" /\ outcome.result = "true" => connected

(* When connect returns true the meter has accepted the association: what  *)
(* the comment on parse_aare promises of its result.                       *)
ConnectMeansAssociated ==
  call = "idle" /\ outcome.op = "connect" /\ outcome.result = "true" => associated

(* However late answers are, they are read in the order of their requests, *)
(* each at most once, and an answer that was returned is never read again: *)
(* requests not yet taken are newer than all answers on their way, and     *)
(* those are newer than the answer the last call returned.                 *)
AnswersInOrder ==
  /\ \A i, j \in DOMAIN toClient : i < j => toClient[i].re < toClient[j].re
  /\ \A i, j \in DOMAIN toMeter : i < j => toMeter[i].num < toMeter[j].num
  /\ \A i \in DOMAIN toClient : outcome.re < toClient[i].re /\ toClient[i].re <= executed
  /\ \A i \in DOMAIN toMeter : executed < toMeter[i].num /\ toMeter[i].num <= written.num
  /\ outcome.re <= executed

(* I frames are numbered (UI is "information without sequence number"):    *)
(* of two I frames written one after the other on one connection, with no  *)
(* other frame between them, the second carries the next send number.      *)
SendNumbersFollow ==
  [][connected /\ written.cmd = "I" /\ written'.cmd = "I" /\ written' # written =>
       written'.ns = (written.ns + 1) % 8]_vars

(* The client implements the request/answer discipline of module Exchange. *)
Phase ==
  IF call = "idle" THEN "idle"
  ELSE IF executed = written.num THEN "served" ELSE "asked"

Discipline ==
  INSTANCE Exchange WITH phase <- Phase, asked <- written.num,
                         executed <- executed, result <- outcome.re

(* At most once, only while the call waits, and the right answer: the      *)
(* promise of Exchange, kept by every call on a line that is never late.   *)
ImplementsExchange == Discipline!Spec
=============================================================================
