--------------------------- MODULE OpticalSession ---------------------------
(***************************************************************************)
(* A session over an optical head: emode_process of include/yadi/emode.h   *)
(* before, between and after the calls of module HdlcClient, on the same   *)
(* serial port.  A meter with such a port speaks text until it is asked to *)
(* change over; the other kind speaks HDLC from the start and knows no     *)
(* text.  What a meter cannot make out it drops without a word.            *)
(*                                                                         *)
(* Text has no check sequence: all emode_process asks of an answer is 15   *)
(* bytes and a line end.  It is declared to return an EmodeBaud and its    *)
(* body ends without a return statement: control flows off its end, which  *)
(* is undefined behaviour.  A build may come back to the caller with no    *)
(* value that means anything, or not come back at all; the module has      *)
(* both, the second as a call that is lost until the program is started    *)
(* again.  The line is never late here.                                    *)
(***************************************************************************)
EXTENDS HdlcClient

ASSUME OpticalAssumption == "late" \notin Faults

VARIABLES
  optical,   \* the meter starts with text; never changes
  mode,      \* what the meter listens for: "text", "asked" for text, "hdlc"
  restarted  \* history: the meter has restarted since the last connect began

opticalVars == <<optical, mode, restarted>>

allVars == <<vars, opticalVars>>

StartMode == IF optical THEN "text" ELSE "hdlc"

OpticalInit ==
  /\ Init
  /\ optical \in BOOLEAN
  /\ mode = StartMode
  /\ restarted = FALSE

-----------------------------------------------------------------------------
(* emode_process.                                                          *)

WriteText(cmd) ==
  LET text == [num |-> written.num + 1, cmd |-> cmd, apdu |-> NoInfo, ns |-> 0, nr |-> 0]
  IN  /\ write(text)
      /\ written' = text

EmodeAsk ==
  /\ call = "idle"
  /\ Budget(2)
  /\ WriteText("ASK")
  /\ call' = "ident"
  /\ UNCHANGED <<toClient, req, ctx, outcome>>

(* An identification of 15 bytes or more passes; on a line that is never   *)
(* late nothing else is that long and no text.  Noise may spoil its line   *)
(* end, or other bytes of it that nobody looks at.                         *)
MayPass(buf) == buf.cmd = "IDENT"

MayFail(buf) == buf.cmd # "IDENT" \/ "noise" \in Faults

(* Mutant: the acknowledgement is left for others to read.                 *)
EmodeIdentAndGo ==
  /\ call = "ident"
  /\ \E r \in read :
       /\ toClient' = r.rest
       /\ \/ /\ MayPass(r.buf)
             /\ WriteText("ACCEPT")
             /\ Return("emode", "true", r.buf, NoInfo)
          \/ /\ MayFail(r.buf)
             /\ Throw("emode")
             /\ UNCHANGED <<toMeter, written>>
  /\ UNCHANGED <<req, ctx>>

(* Mutant: the request to sign on is written a second time.                *)
EmodeIdentAskAgain ==
  /\ call = "ident"
  /\ \E r \in read :
       /\ toClient' = r.rest
       /\ \/ /\ MayPass(r.buf)
             /\ WriteText("ASK")
             /\ call' = "ack"
             /\ UNCHANGED outcome
          \/ /\ MayFail(r.buf)
             /\ Throw("emode")
             /\ UNCHANGED <<toMeter, written>>
  /\ UNCHANGED <<req, ctx>>

EmodeIdent ==
  /\ call = "ident"
  /\ \E r \in read :
       /\ toClient' = r.rest
       /\ \/ /\ MayPass(r.buf)
             /\ WriteText("ACCEPT")
             /\ call' = "ack"
             /\ UNCHANGED outcome
          \/ /\ MayFail(r.buf)
             /\ Throw("emode")
             /\ UNCHANGED <<toMeter, written>>
  /\ UNCHANGED <<req, ctx>>

(* Whatever the second read() returns, nothing included, control flows off *)
(* the end of the function, and with that one of two things happens: the   *)
(* caller gets a value that means nothing, or it never goes on.            *)
EmodeAck ==
  /\ call = "ack"
  /\ \E r \in read :
       /\ toClient' = r.rest
       /\ \/ Return("emode", "undefined", r.buf, NoInfo)
          \/ call' = "lost" /\ UNCHANGED outcome
  /\ UNCHANGED <<toMeter, req, ctx, written>>

(* A program that was lost may be started again, with an hdlc_ctx and a    *)
(* request of its own.  Its frames are counted on: that is a ghost.        *)
ProgramStarts ==
  /\ call = "lost"
  /\ call' = "idle"
  /\ req' = NoAttribute
  /\ ctx' = [tx |-> 128, rx |-> 128]
  /\ outcome' = [op |-> "none", result |-> "throw", data |-> NoInfo, re |-> 0]
  /\ UNCHANGED <<lineVars, written>>

EmodeProcess == EmodeAsk \/ EmodeIdent \/ EmodeAck \/ ProgramStarts

-----------------------------------------------------------------------------
(* The meter's port.                                                       *)

IsText(f) == f.cmd \in {"ASK", "ACCEPT"}

(* A text answer is no valid HDLC frame.                                   *)
Say(f, cmd) ==
  toClient' = Append(toClient, [Answer(f.num, cmd, NoInfo) EXCEPT !.valid = FALSE])

Understands(f) ==
  CASE f.cmd = "ASK"    -> mode # "hdlc"
    [] f.cmd = "ACCEPT" -> mode = "asked"
    [] OTHER            -> mode = "hdlc"

(* It identifies itself, in 15 bytes or more or in fewer.                  *)
TakeAsk(f) ==
  /\ f.cmd = "ASK"
  /\ mode' = "asked"
  /\ \E ident \in {"IDENT", "SHORT"} : Say(f, ident)

(* It changes over, and may acknowledge that.                              *)
TakeAccept(f) ==
  /\ f.cmd = "ACCEPT"
  /\ mode' = "hdlc"
  /\ Say(f, "ACK") \/ UNCHANGED toClient

TakeText ==
  /\ toMeter # <<>>
  /\ LET f == Head(toMeter)
     IN  /\ IsText(f)
         /\ Understands(f)
         /\ TakeAsk(f) \/ TakeAccept(f)
         /\ executed' = f.num
  /\ toMeter' = Tail(toMeter)
  /\ UNCHANGED <<connected, associated, expected, optical, restarted>>

(* After a DISC it may go back to text.                                    *)
TakeFrame ==
  /\ toMeter # <<>>
  /\ ~IsText(Head(toMeter))
  /\ Understands(Head(toMeter))
  /\ MeterStep
  /\ mode' \in IF Head(toMeter).cmd = "DISC" THEN {mode, StartMode} ELSE {mode}
  /\ UNCHANGED <<optical, restarted>>

Ignore ==
  /\ toMeter # <<>>
  /\ ~Understands(Head(toMeter))
  /\ toMeter' = Tail(toMeter)
  /\ UNCHANGED <<toClient, meterVars, opticalVars>>

PortStep == (TakeText \/ TakeFrame \/ Ignore) /\ UNCHANGED clientVars

(* A mains failure: the meter comes back as it was when switched on.       *)
PortRestart ==
  /\ "restart" \in Faults
  /\ connected \/ mode # StartMode
  /\ connected' = FALSE
  /\ associated' = FALSE
  /\ mode' = StartMode
  /\ restarted' = TRUE
  /\ UNCHANGED <<lineVars, expected, executed, clientVars, optical>>

-----------------------------------------------------------------------------
(* Connect begins the time that restarted covers.                          *)
SessionStep ==
  /\ ClientStep
  /\ restarted' = (restarted /\ call' # "snrm")
  /\ UNCHANGED <<meterVars, optical, mode>>

HandshakeStep == EmodeProcess /\ UNCHANGED <<meterVars, opticalVars>>

OpticalNext ==
  \/ SessionStep
  \/ HandshakeStep
  \/ PortStep
  \/ PortRestart
  \/ LineStep /\ UNCHANGED <<meterVars, clientVars, opticalVars>>

OpticalSpec == OpticalInit /\ [][OpticalNext]_allVars

(* read() returns after the port's timeout at the latest, and the program  *)
(* goes on with what it returned.  The meter deals with what it has        *)
(* received within the timeout; without that a line that is never late     *)
(* would mean nothing.  The application need never make a call, nobody     *)
(* need start it again, and no fault has to happen.                        *)
OpticalFairness ==
  /\ WF_allVars(Reading /\ SessionStep)
  /\ WF_allVars((EmodeIdent \/ EmodeAck) /\ HandshakeStep)
  /\ WF_allVars(PortStep)

OpticalFairSpec == OpticalSpec /\ OpticalFairness

-----------------------------------------------------------------------------
(* The parts keep their types, and with them: a meter that speaks text is  *)
(* not connected, one without text never leaves HDLC.                      *)
OpticalTypeOK ==
  /\ optical \in BOOLEAN /\ restarted \in BOOLEAN
  /\ mode \in IF optical THEN {"text", "asked", "hdlc"} ELSE {"hdlc"}
  /\ connected => mode = "hdlc"
  /\ call \in {"idle", "ident", "ack", "lost", "snrm", "aarq", "disc", "get"}
  /\ req \in Attributes \cup {NoAttribute}
  /\ ctx \in [tx : UInt16, rx : UInt16]
  /\ executed \in Nat /\ expected \in 0..7
  /\ outcome.op \in {"none", "emode", "connect", "disconnect", "authenticate", "get"}
  /\ outcome.result \in {"throw", "undefined", "true", "false", "SUCCESS", "HARDWARE_FAULT"}

(* emode_process that has read an acknowledgement, and comes back, leaves  *)
(* a meter that listens for HDLC.  One that has read nothing comes back    *)
(* all the same.                                                           *)
ChangedOver ==
  call = "idle" /\ outcome.op = "emode" /\ outcome.re # 0 /\ ~restarted => mode = "hdlc"

(* A connect that returns true means a connected meter, whatever became of *)
(* the handshake before it, unless the meter restarted in between.         *)
ConnectedUnlessRestarted == ~restarted => ConnectMeansConnected

(* No read() waits for an answer that cannot come: every call of the HDLC  *)
(* client returns or throws, and the handshake gets beyond its two reads.  *)
(* That it then comes back is not claimed, as its code has no return.      *)
ReadsEnd ==
  /\ call \in {"snrm", "aarq", "disc", "get"} ~> call = "idle"
  /\ call \in {"ident", "ack"} ~> call \in {"idle", "lost"}
=============================================================================
