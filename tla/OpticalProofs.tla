----------------------------- MODULE OpticalProofs -----------------------------
(***************************************************************************)
(* Theorems about OpticalSession, for every set of attributes, of granted  *)
(* lengths and of faults but late answers, and every number of frames.     *)
(***************************************************************************)
EXTENDS OpticalSession, TLAPS

-----------------------------------------------------------------------------
(* The invariant.                                                          *)

Counted == written.num \in Nat /\ executed \in Nat /\ executed <= written.num

AnswerFrames(nums, cmds, infos) ==
  [re : nums, valid : BOOLEAN, cmd : cmds, info : infos]

Frame(a) == \E nums, cmds, infos : a \in AnswerFrames(nums, cmds, infos)

(* An answer to the request that was written last, and what it stands for: *)
(* a UA that can be read for a connected meter, an answer to the           *)
(* acknowledgement for one that has changed over.                          *)
AnswerOfSession(a) ==
  /\ Frame(a)
  /\ a.re = written.num
  /\ executed = written.num
  /\ call = "snrm" /\ a.valid /\ a.cmd = "UA" /\ ~restarted => connected
  /\ call = "ack" /\ ~restarted => mode = "hdlc"

(* The call is in one of the program's reads.                              *)
Waiting == call \notin {"idle", "lost"}

LineOfSession ==
  \/ toMeter = <<>> /\ toClient = <<>>
  \/ /\ Waiting
     /\ toClient = <<>> /\ toMeter = <<written>>
     /\ executed < written.num
  \/ /\ Waiting
     /\ toMeter = <<>> /\ toClient # <<>> /\ toClient = <<toClient[1]>>
     /\ AnswerOfSession(toClient[1])

RequestOfSession ==
  /\ call = "snrm" => written.cmd = "SNRM"
  /\ call = "aarq" => written.cmd = "I"
  /\ call = "ack" => written.cmd = "ACCEPT"

(* Since the UA of the SNRM, nothing has disconnected the meter.           *)
StillConnected == call = "aarq" /\ ~restarted => connected

OpticalInv ==
  /\ Counted
  /\ LineOfSession
  /\ RequestOfSession
  /\ StillConnected
  /\ ChangedOver
  /\ ConnectedUnlessRestarted

USE DEF Waiting

LEMMA DamagedFrame ==
  ASSUME NEW a, Frame(a)
  PROVE  Frame(Damaged(a)) /\ Damaged(a).re = a.re /\ ~Damaged(a).valid
<1>1. PICK nums, cmds, infos : a \in AnswerFrames(nums, cmds, infos)
  BY DEF Frame
<1>2. /\ Damaged(a) \in AnswerFrames(nums, cmds, infos)
      /\ Damaged(a).re = a.re /\ ~Damaged(a).valid
  BY <1>1 DEF AnswerFrames, Damaged
<1>. QED BY <1>2 DEF Frame

LEMMA AnswerIsFrame ==
  ASSUME NEW re, NEW cmd, NEW info
  PROVE  /\ Frame(Answer(re, cmd, info)) /\ Answer(re, cmd, info).re = re
         /\ Answer(re, cmd, info).cmd = cmd
<1>1. Answer(re, cmd, info) \in AnswerFrames({re}, {cmd}, {info})
  BY DEF AnswerFrames, Answer
<1>. QED BY <1>1 DEF Frame, Answer

(* A read() leaves an empty line, and returns nothing or the answer.       *)
LEMMA SessionRead ==
  ASSUME OpticalInv, call # "idle", NEW r \in read
  PROVE  /\ toMeter = <<>> /\ r.rest = <<>>
         /\ r.buf = NoFrame \/ (toClient = <<r.buf>> /\ AnswerOfSession(r.buf))
<1>1. CASE r \in Oldest
  <2>1. toClient # <<>> /\ r = [buf |-> Head(toClient), rest |-> Tail(toClient)]
    BY <1>1 DEF Oldest
  <2>2. toMeter = <<>> /\ toClient = <<toClient[1]>> /\ AnswerOfSession(toClient[1])
    BY <2>1 DEF OpticalInv, LineOfSession
  <2>. DEFINE a == toClient[1]
  <2>3. toClient = <<a>>
    BY <2>2
  <2>. HIDE DEF a
  <2>4. Head(toClient) = a /\ Tail(toClient) = <<>>
    BY <2>3
  <2>. QED BY <2>1, <2>2, <2>3, <2>4 DEF a
<1>2. CASE r \in TimedOut
  BY <1>2, OpticalAssumption DEF TimedOut, Silent
<1>. QED BY <1>1, <1>2, OpticalAssumption DEF read

(* A request goes out on an empty line.                                    *)
LEMMA Asks ==
  ASSUME Counted, toMeter = <<>>, toClient' = <<>>, toMeter' = Append(toMeter, written'),
         written'.num = written.num + 1, executed' = executed, Waiting'
  PROVE  Counted' /\ LineOfSession'
<1>1. toMeter' = <<written'>>
  OBVIOUS
<1>. QED BY <1>1 DEF Counted, LineOfSession

(* A call that ends leaves an empty line.                                  *)
LEMMA Ends ==
  ASSUME Counted, toMeter' = <<>>, toClient' = <<>>, UNCHANGED <<written, executed>>
  PROVE  Counted' /\ LineOfSession'
BY DEF Counted, LineOfSession

LEMMA SendAppends ==
  ASSUME NEW cmd, NEW apdu, Send(cmd, apdu)
  PROVE  /\ toMeter' = Append(toMeter, written') /\ written'.num = written.num + 1
         /\ written'.cmd = cmd
BY DEF Send, write, serialize, get_frame

LEMMA TextAppends ==
  ASSUME NEW cmd, WriteText(cmd)
  PROVE  /\ toMeter' = Append(toMeter, written') /\ written'.num = written.num + 1
         /\ written'.cmd = cmd
BY DEF WriteText, write

(* Between two calls the line is empty.                                    *)
LEMMA IdleLine ==
  ASSUME OpticalInv, call = "idle"
  PROVE  toMeter = <<>> /\ toClient = <<>>
BY DEF OpticalInv, LineOfSession

-----------------------------------------------------------------------------
(* The handshake.                                                          *)

LEMMA HandshakeKeeps ==
  ASSUME OpticalInv, HandshakeStep
  PROVE  OpticalInv'
<1>. USE DEF OpticalInv, HandshakeStep, meterVars, opticalVars
<1>1. CASE EmodeAsk
  <2>1. toMeter = <<>> /\ toClient' = <<>>
    BY <1>1, IdleLine DEF EmodeAsk
  <2>2. Counted' /\ LineOfSession'
    BY <1>1, <2>1, TextAppends, Asks DEF EmodeAsk
  <2>. QED BY <1>1, <2>2 DEF EmodeAsk, RequestOfSession, StillConnected, ChangedOver,
              ConnectedUnlessRestarted, ConnectMeansConnected
<1>2. CASE EmodeIdent
  <2>1. call = "ident"
    BY <1>2 DEF EmodeIdent
  <2>2. PICK r \in read : EmodeIdent!2!(r)
    BY <1>2 DEF EmodeIdent
  <2>3. toMeter = <<>> /\ toClient' = <<>>
    BY <2>1, <2>2, SessionRead
  <2>4. CASE WriteText("ACCEPT") /\ call' = "ack" /\ UNCHANGED outcome
    <3>1. Counted' /\ LineOfSession' /\ written'.cmd = "ACCEPT"
      BY <2>3, <2>4, TextAppends, Asks
    <3>. QED BY <2>4, <3>1 DEF RequestOfSession, StillConnected, ChangedOver,
                ConnectedUnlessRestarted, ConnectMeansConnected
  <2>5. CASE Throw("emode") /\ UNCHANGED <<toMeter, written>>
    <3>1. Counted' /\ LineOfSession'
      BY <2>3, <2>5, Ends
    <3>. QED BY <2>5, <3>1 DEF Throw, RequestOfSession, StillConnected, ChangedOver,
                ConnectedUnlessRestarted, ConnectMeansConnected
  <2>. QED BY <2>2, <2>4, <2>5
<1>3. CASE EmodeAck
  <2>1. call = "ack" /\ UNCHANGED <<toMeter, req, ctx, written>>
    BY <1>3 DEF EmodeAck
  <2>2. PICK r \in read : EmodeAck!2!(r)
    BY <1>3 DEF EmodeAck
  <2>3. /\ toMeter = <<>> /\ toClient' = <<>>
        /\ r.buf = NoFrame \/ AnswerOfSession(r.buf)
    BY <2>1, <2>2, SessionRead
  <2>4. Counted' /\ LineOfSession'
    BY <2>1, <2>3, Ends
  <2>5. CASE Return("emode", "undefined", r.buf, NoInfo)
    <3>1. ChangedOver'
      BY <2>1, <2>3, <2>5 DEF Return, AnswerOfSession, NoFrame, ChangedOver
    <3>. QED BY <2>4, <2>5, <3>1 DEF Return, RequestOfSession, StillConnected,
                ConnectedUnlessRestarted, ConnectMeansConnected
  <2>6. CASE call' = "lost" /\ UNCHANGED outcome
    BY <2>1, <2>4, <2>6 DEF RequestOfSession, StillConnected, ChangedOver,
       ConnectedUnlessRestarted, ConnectMeansConnected
  <2>. QED BY <2>2, <2>5, <2>6
<1>4. CASE ProgramStarts
  <2>1. /\ call = "lost" /\ call' = "idle" /\ outcome'.op = "none"
        /\ UNCHANGED <<toMeter, toClient, written>>
    BY <1>4 DEF ProgramStarts, lineVars
  <2>2. toMeter = <<>> /\ toClient = <<>>
    BY <2>1 DEF LineOfSession
  <2>3. Counted' /\ LineOfSession'
    BY <2>1, <2>2, Ends
  <2>. QED BY <2>1, <2>3 DEF RequestOfSession, StillConnected, ChangedOver,
              ConnectedUnlessRestarted, ConnectMeansConnected
<1>. QED BY <1>1, <1>2, <1>3, <1>4 DEF EmodeProcess

-----------------------------------------------------------------------------
(* The calls of the client.                                                *)

(* A call that begins: the request is its own, and of the two properties   *)
(* none speaks of a call under way.                                        *)
LEMMA BeginKeeps ==
  ASSUME OpticalInv, UNCHANGED <<toClient, outcome>>, UNCHANGED meterVars, UNCHANGED mode,
         call = "idle", NEW cmd, NEW apdu, Send(cmd, apdu), call' \in {"snrm", "disc", "get"},
         call' = "snrm" => cmd = "SNRM"
  PROVE  OpticalInv'
<1>. USE DEF OpticalInv, meterVars
<1>1. toMeter = <<>> /\ toClient' = <<>>
  BY IdleLine
<1>2. Counted' /\ LineOfSession' /\ written'.cmd = cmd
  BY <1>1, SendAppends, Asks
<1>. QED BY <1>2 DEF RequestOfSession, StillConnected, ChangedOver,
            ConnectedUnlessRestarted, ConnectMeansConnected

(* A call that ends, if it is not a connect that returns true on a meter   *)
(* that is not connected.                                                  *)
LEMMA EndKeeps ==
  ASSUME OpticalInv, call # "idle", NEW r \in read, toClient' = r.rest, call' = "idle",
         UNCHANGED <<toMeter, written>>, UNCHANGED meterVars,
         outcome'.op # "emode",
         outcome'.op = "connect" /\ outcome'.result = "true" /\ ~restarted' => connected
  PROVE  OpticalInv'
<1>. USE DEF OpticalInv, meterVars
<1>1. toMeter' = <<>> /\ toClient' = <<>>
  BY SessionRead
<1>2. Counted' /\ LineOfSession'
  BY <1>1, Ends
<1>. QED BY <1>2 DEF RequestOfSession, StillConnected, ChangedOver,
            ConnectedUnlessRestarted, ConnectMeansConnected

LEMMA ConnectUaKeeps ==
  ASSUME OpticalInv, ConnectUa, UNCHANGED meterVars, restarted' = (restarted /\ call' # "snrm")
  PROVE  OpticalInv'
<1>1. call = "snrm"
  BY DEF ConnectUa
<1>2. PICK r \in read : ConnectUa!2!(r)
  BY DEF ConnectUa
<1>3. CASE /\ r.buf.valid /\ r.buf.cmd = "UA"
           /\ Send("I", Aarq) /\ call' = "aarq" /\ UNCHANGED outcome
  <2>1. toMeter = <<>> /\ toClient' = <<>>
    BY <1>1, <1>2, SessionRead
  <2>2. AnswerOfSession(r.buf)
    BY <1>1, <1>3, SessionRead DEF NoFrame
  <2>3. Counted' /\ LineOfSession' /\ written'.cmd = "I"
    BY <1>3, <2>1, SendAppends, Asks DEF OpticalInv, meterVars
  <2>4. StillConnected'
    BY <1>1, <1>3, <2>2 DEF StillConnected, AnswerOfSession, meterVars
  <2>. QED BY <1>3, <2>3, <2>4 DEF OpticalInv, RequestOfSession, ChangedOver,
              ConnectedUnlessRestarted, ConnectMeansConnected
<1>4. CASE /\ UNCHANGED <<toMeter, ctx, written>>
           /\ \/ Throw("connect")
              \/ Return("connect", "false", r.buf, NoInfo)
  <2>1. /\ toClient' = r.rest /\ call' = "idle" /\ UNCHANGED <<toMeter, written>>
        /\ outcome'.op = "connect" /\ outcome'.result # "true"
    BY <1>2, <1>4 DEF Throw, Return
  <2>. QED BY <1>1, <2>1, EndKeeps
<1>. QED BY <1>2, <1>3, <1>4 DEF parse_snrm_response, Throws

LEMMA SessionKeeps ==
  ASSUME OpticalInv, SessionStep
  PROVE  OpticalInv'
<1>0. /\ UNCHANGED meterVars /\ UNCHANGED mode
      /\ restarted' = (restarted /\ call' # "snrm")
  BY DEF SessionStep
<1>1. CASE Connect
  BY <1>0, <1>1, BeginKeeps DEF Connect
<1>2. CASE Disconnect
  BY <1>0, <1>2, BeginKeeps DEF Disconnect
<1>3. CASE GetRequest
  BY <1>0, <1>3, BeginKeeps DEF GetRequest
<1>4. CASE ConnectUa
  BY <1>0, <1>4, ConnectUaKeeps
<1>5. CASE ConnectAare
  <2>1. call = "aarq" /\ UNCHANGED <<toMeter, written>>
    BY <1>5 DEF ConnectAare
  <2>2. PICK r \in read : ConnectAare!2!(r)
    BY <1>5 DEF ConnectAare
  <2>3. call' = "idle" /\ toClient' = r.rest /\ outcome'.op = "connect"
    BY <2>2 DEF Throw, Return
  <2>4. ~restarted' => connected
    BY <1>0, <2>1, <2>3 DEF OpticalInv, StillConnected
  <2>. QED BY <1>0, <2>1, <2>3, <2>4, EndKeeps
<1>6. CASE DisconnectUa
  <2>1. call = "disc" /\ UNCHANGED <<toMeter, written>>
    BY <1>6 DEF DisconnectUa
  <2>2. PICK r \in read : DisconnectUa!2!(r)
    BY <1>6 DEF DisconnectUa
  <2>3. call' = "idle" /\ toClient' = r.rest /\ outcome'.op = "disconnect"
    BY <2>2 DEF Throw, Return
  <2>. QED BY <1>0, <2>1, <2>3, EndKeeps
<1>7. CASE GetResponse
  <2>1. call = "get" /\ UNCHANGED <<toMeter, written>>
    BY <1>7 DEF GetResponse
  <2>2. PICK r \in read : GetResponse!2!(r)
    BY <1>7 DEF GetResponse
  <2>3. call' = "idle" /\ toClient' = r.rest /\ outcome'.op = "get"
    BY <2>2 DEF Throw, Return
  <2>. QED BY <1>0, <2>1, <2>3, EndKeeps
<1>8. CASE Authenticate
  <2>1. /\ call = "idle" /\ call' = "idle" /\ UNCHANGED <<toMeter, toClient, written>>
        /\ outcome'.op = "authenticate"
    BY <1>8 DEF Authenticate, Throw
  <2>2. toMeter' = <<>> /\ toClient' = <<>>
    BY <2>1, IdleLine
  <2>3. Counted' /\ LineOfSession'
    BY <1>0, <2>1, <2>2, Ends DEF OpticalInv, meterVars
  <2>. QED BY <2>1, <2>3 DEF OpticalInv, RequestOfSession, StillConnected, ChangedOver,
              ConnectedUnlessRestarted, ConnectMeansConnected
<1>. QED BY <1>1, <1>2, <1>3, <1>4, <1>5, <1>6, <1>7, <1>8 DEF SessionStep, ClientStep

-----------------------------------------------------------------------------
(* The meter's port and the line.                                          *)

(* What the port takes is the request of the call that waits.              *)
LEMMA PortTakes ==
  ASSUME OpticalInv, toMeter # <<>>
  PROVE  /\ Waiting /\ toMeter = <<written>> /\ toClient = <<>>
         /\ executed < written.num /\ Head(toMeter) = written /\ Tail(toMeter) = <<>>
<1>1. Waiting /\ toMeter = <<written>> /\ toClient = <<>> /\ executed < written.num
  BY DEF OpticalInv, LineOfSession
<1>. QED BY <1>1

(* It answers, or not; and what the answer stands for holds.               *)
LEMMA Answers1 ==
  ASSUME OpticalInv, toMeter # <<>>, toMeter' = <<>>, executed' = written.num,
         UNCHANGED <<call, written, outcome>>,
         NEW answer, toClient' \in {<<>>, Append(toClient, answer)},
         Frame(answer), answer.re = written.num,
         ((call = "snrm" /\ answer.valid /\ answer.cmd = "UA" /\ ~restarted') => connected'),
         ((call = "ack" /\ ~restarted') => mode' = "hdlc")
  PROVE  Counted' /\ LineOfSession'
<1>1. Waiting /\ toClient = <<>>
  BY PortTakes
<1>2. Counted'
  <2>1. written.num \in Nat
    BY DEF OpticalInv, Counted
  <2>. QED BY <2>1 DEF Counted
<1>3. CASE toClient' = <<>>
  <2>1. toMeter' = <<>> /\ toClient' = <<>>
    BY <1>3
  <2>. QED BY <1>2, <2>1 DEF LineOfSession
<1>4. CASE toClient' = Append(toClient, answer)
  <2>1. toClient' = <<answer>>
    BY <1>1, <1>4
  <2>2. toClient' # <<>> /\ toClient'[1] = answer
    BY <2>1
  <2>3. AnswerOfSession(answer)'
    BY DEF AnswerOfSession
  <2>4. AnswerOfSession(toClient[1])'
    BY <2>2, <2>3
  <2>5. Waiting' /\ toMeter' = <<>> /\ toClient' # <<>> /\ toClient' = <<toClient'[1]>>
    BY <1>1, <2>1, <2>2
  <2>. QED BY <1>2, <2>4, <2>5 DEF LineOfSession
<1>. QED BY <1>2, <1>3, <1>4

LEMMA PortKeeps ==
  ASSUME OpticalInv, PortStep
  PROVE  OpticalInv'
<1>1. /\ toMeter # <<>> /\ call # "idle" /\ Head(toMeter) = written
      /\ toMeter' = <<>> /\ UNCHANGED <<call, written, outcome, restarted>>
  <2>1. toMeter # <<>> /\ toMeter' = Tail(toMeter) /\ UNCHANGED <<clientVars, restarted>>
    BY DEF PortStep, TakeText, TakeFrame, Ignore, MeterStep, opticalVars
  <2>. QED BY <2>1, PortTakes DEF clientVars
<1>2. RequestOfSession' /\ ChangedOver' /\ ConnectedUnlessRestarted'
  BY <1>1 DEF OpticalInv, RequestOfSession, ChangedOver, ConnectedUnlessRestarted,
              ConnectMeansConnected
<1>3. CASE TakeText
  <2>1. IsText(written) /\ executed' = written.num /\ UNCHANGED connected
        /\ (TakeAsk(written) \/ TakeAccept(written))
    BY <1>1, <1>3 DEF TakeText
  <2>2. StillConnected'
    BY <1>1, <2>1 DEF OpticalInv, StillConnected
  <2>3. Counted' /\ LineOfSession'
    <3>1. PICK answer :
            /\ toClient' \in {<<>>, Append(toClient, answer)}
            /\ Frame(answer) /\ answer.re = written.num /\ ~answer.valid
      <4>. DEFINE Text(cmd) == Damaged(Answer(written.num, cmd, NoInfo))
      <4>1. \A cmd : /\ Frame(Text(cmd)) /\ Text(cmd).re = written.num
                     /\ ~Text(cmd).valid
        BY AnswerIsFrame, DamagedFrame
      <4>2. PICK cmd : toClient' \in {<<>>, Append(toClient, Text(cmd))}
        BY <1>1, <2>1, PortTakes DEF TakeAsk, TakeAccept, Say, Damaged
      <4>. HIDE DEF Text
      <4>. QED BY <4>1, <4>2
    <3>2. call = "ack" => mode' = "hdlc"
      BY <2>1 DEF OpticalInv, RequestOfSession, TakeAsk, TakeAccept
    <3>. QED BY <1>1, <2>1, <3>1, <3>2, Answers1
  <2>. QED BY <1>2, <2>2, <2>3 DEF OpticalInv
<1>4. CASE TakeFrame
  <2>1. ~IsText(written) /\ MeterStep /\ executed' = written.num
    BY <1>1, <1>4 DEF TakeFrame, MeterStep
  <2>2. PICK cmd, info :
          /\ Reply(written, cmd, info)
          /\ (written.cmd = "SNRM" /\ cmd = "UA") => connected'
          /\ written.cmd = "I" => connected' = connected
    BY <1>1, <2>1 DEF MeterStep, TakeSnrm, TakeDisc, RefuseDisconnected, RejectSendNumber,
                      Associate, ReadAttribute
  <2>3. StillConnected'
    <3>1. call = "aarq" => connected' = connected
      BY <2>2 DEF OpticalInv, RequestOfSession
    <3>. QED BY <1>1, <3>1 DEF OpticalInv, StillConnected
  <2>4. Counted' /\ LineOfSession'
    <3>1. PICK answer :
            /\ toClient' = Append(toClient, answer)
            /\ Frame(answer) /\ answer.re = written.num /\ answer.cmd = cmd
      BY <2>2, AnswerIsFrame DEF Reply
    <3>2. call # "ack" /\ (call = "snrm" => written.cmd = "SNRM")
      BY <2>1 DEF OpticalInv, RequestOfSession, IsText
    <3>. QED BY <1>1, <2>1, <2>2, <3>1, <3>2, Answers1
  <2>. QED BY <1>2, <2>3, <2>4 DEF OpticalInv
<1>5. CASE Ignore
  <2>1. UNCHANGED <<toClient, connected, executed>> /\ toClient = <<>>
    BY <1>1, <1>5, PortTakes DEF Ignore, meterVars
  <2>2. Counted' /\ LineOfSession'
    BY <1>1, <2>1, Ends DEF OpticalInv
  <2>3. StillConnected'
    BY <1>1, <2>1 DEF OpticalInv, StillConnected
  <2>. QED BY <1>2, <2>2, <2>3 DEF OpticalInv
<1>. QED BY <1>3, <1>4, <1>5 DEF PortStep

LEMMA RestartKeeps ==
  ASSUME OpticalInv, PortRestart
  PROVE  OpticalInv'
<1>1. restarted' /\ UNCHANGED <<toMeter, toClient, executed, call, written, outcome>>
  BY DEF PortRestart, lineVars, clientVars
<1>2. Counted' /\ RequestOfSession'
  BY <1>1 DEF OpticalInv, Counted, RequestOfSession
<1>3. LineOfSession'
  <2>1. ASSUME NEW a, AnswerOfSession(a) PROVE AnswerOfSession(a)'
    BY <1>1, <2>1 DEF AnswerOfSession
  <2>. QED BY <1>1, <2>1 DEF OpticalInv, LineOfSession
<1>4. StillConnected' /\ ChangedOver' /\ ConnectedUnlessRestarted'
  BY <1>1 DEF StillConnected, ChangedOver, ConnectedUnlessRestarted
<1>. QED BY <1>2, <1>3, <1>4 DEF OpticalInv

LEMMA LineKeeps ==
  ASSUME OpticalInv, LineStep, UNCHANGED <<meterVars, clientVars, opticalVars>>
  PROVE  OpticalInv'
<1>1. /\ UNCHANGED <<connected, executed, mode, restarted>>
      /\ UNCHANGED <<call, written, outcome>>
  BY DEF meterVars, clientVars, opticalVars
<1>2. /\ Counted' /\ RequestOfSession' /\ StillConnected'
      /\ ChangedOver' /\ ConnectedUnlessRestarted'
  BY <1>1 DEF OpticalInv, Counted, RequestOfSession, StillConnected, ChangedOver,
              ConnectedUnlessRestarted, ConnectMeansConnected
<1>3. LineOfSession'
  <2>1. CASE LoseRequest
    <3>1. toMeter # <<>> /\ toMeter' = Tail(toMeter) /\ toClient' = toClient
      BY <2>1 DEF LoseRequest
    <3>. QED BY <3>1, PortTakes DEF LineOfSession
  <2>2. CASE toClient # <<>> /\ toMeter' = toMeter
    <3>1. PICK a : /\ Waiting /\ toMeter' = <<>> /\ toClient = <<a>>
                   /\ AnswerOfSession(a)
      BY <2>2 DEF OpticalInv, LineOfSession
    <3>2. CASE toClient' = Tail(toClient)
      BY <3>1, <3>2 DEF LineOfSession
    <3>3. CASE toClient' = [toClient EXCEPT ![1] = Damaged(@)]
      <4>1. toClient' = <<Damaged(a)>>
        BY <3>1, <3>3
      <4>2. /\ Frame(Damaged(a)) /\ Damaged(a).re = a.re /\ ~Damaged(a).valid
        BY <3>1, DamagedFrame DEF AnswerOfSession
      <4>3. AnswerOfSession(Damaged(a))'
        BY <1>1, <3>1, <4>2 DEF AnswerOfSession
      <4>4. toClient' # <<>> /\ toClient'[1] = Damaged(a)
        BY <4>1
      <4>. QED BY <1>1, <3>1, <4>1, <4>3, <4>4 DEF LineOfSession
    <3>. QED BY <2>2, <3>2, <3>3 DEF LineStep, LoseRequest, LoseAnswer, DamageAnswer
  <2>. QED BY <2>1, <2>2 DEF LineStep, LoseAnswer, DamageAnswer
<1>. QED BY <1>2, <1>3 DEF OpticalInv

-----------------------------------------------------------------------------
LEMMA OpticalInvInit == OpticalInit => OpticalInv
BY DEF OpticalInit, Init, MeterInit, OpticalInv, Counted, LineOfSession, RequestOfSession,
       StillConnected, ChangedOver, ConnectedUnlessRestarted, ConnectMeansConnected

LEMMA OpticalInvStep ==
  ASSUME OpticalInv, [OpticalNext]_allVars
  PROVE  OpticalInv'
<1>1. CASE UNCHANGED allVars
  <2>1. /\ UNCHANGED <<toMeter, toClient, connected, executed, mode, restarted>>
        /\ UNCHANGED <<call, written, outcome>>
    BY <1>1 DEF allVars, vars, lineVars, meterVars, clientVars, opticalVars
  <2>2. ASSUME NEW a, AnswerOfSession(a) PROVE AnswerOfSession(a)'
    BY <2>1, <2>2 DEF AnswerOfSession
  <2>3. LineOfSession'
    BY <2>1, <2>2 DEF OpticalInv, LineOfSession
  <2>. QED BY <2>1, <2>3 DEF OpticalInv, Counted, RequestOfSession, StillConnected, ChangedOver,
              ConnectedUnlessRestarted, ConnectMeansConnected
<1>2. CASE LineStep /\ UNCHANGED <<meterVars, clientVars, opticalVars>>
  BY <1>2, LineKeeps
<1>. QED BY <1>1, <1>2, SessionKeeps, HandshakeKeeps, PortKeeps, RestartKeeps DEF OpticalNext

LEMMA OpticalInvHolds == OpticalSpec => []OpticalInv
BY OpticalInvInit, OpticalInvStep, PTL DEF OpticalSpec

(* emode_process that has read an acknowledgement leaves a meter that      *)
(* listens for HDLC, unless the meter has restarted.                       *)
THEOREM ChangedOverHolds == OpticalSpec => []ChangedOver
<1>1. OpticalInv => ChangedOver
  BY DEF OpticalInv
<1>. QED BY <1>1, OpticalInvHolds, PTL

(* connect returns true only on a connected meter, whatever became of the  *)
(* handshake before it, unless the meter has restarted since it began.     *)
THEOREM ConnectedUnlessRestartedHolds == OpticalSpec => []ConnectedUnlessRestarted
<1>1. OpticalInv => ConnectedUnlessRestarted
  BY DEF OpticalInv
<1>. QED BY <1>1, OpticalInvHolds, PTL

-----------------------------------------------------------------------------
(* The refinement.                                                         *)

(* A request that is written is newer than the last one executed.          *)
LEMMA AskRefines ==
  ASSUME Counted, written'.num = written.num + 1, call' # "idle",
         UNCHANGED <<executed, outcome>>, Phase \in {"idle", "served"}
  PROVE  Discipline!Next
<1>1. executed # written.num + 1
  BY DEF Counted
<1>2. Phase' = "asked"
  BY <1>1 DEF Phase
<1>. QED BY <1>2 DEF Discipline!Ask, Discipline!Next

LEMMA FailRefines ==
  ASSUME call' = "idle", outcome'.re = 0, UNCHANGED <<executed, written>>
  PROVE  Discipline!Next
BY DEF Phase, Discipline!Fail, Discipline!Next

(* A call that ends with what its read() returned: an answer or nothing.   *)
LEMMA EndRefines ==
  ASSUME OpticalInv, call # "idle", NEW r \in read, call' = "idle", outcome'.re = r.buf.re,
         UNCHANGED <<executed, written>>
  PROVE  Discipline!Next
<1>1. CASE r.buf = NoFrame
  <2>1. outcome'.re = 0
    BY <1>1 DEF NoFrame
  <2>. QED BY <2>1, FailRefines
<1>2. CASE AnswerOfSession(r.buf)
  <2>1. Phase = "served" /\ Phase' = "idle" /\ outcome'.re = written.num
    BY <1>2 DEF AnswerOfSession, Phase
  <2>. QED BY <2>1 DEF Discipline!Answer, Discipline!Next
<1>. QED BY <1>1, <1>2, SessionRead

(* What was read was an answer.                                            *)
LEMMA Served ==
  ASSUME OpticalInv, call # "idle", NEW r \in read, r.buf # NoFrame
  PROVE  Phase = "served"
BY SessionRead DEF AnswerOfSession, Phase

LEMMA HandshakeRefines ==
  ASSUME OpticalInv, HandshakeStep
  PROVE  [Discipline!Next]_Discipline!vars
<1>0. UNCHANGED executed /\ Counted
  BY DEF HandshakeStep, meterVars, OpticalInv
<1>1. CASE EmodeAsk
  <2>1. written'.num = written.num + 1
    BY <1>1, TextAppends DEF EmodeAsk
  <2>. QED BY <1>0, <1>1, <2>1, AskRefines DEF EmodeAsk, Phase
<1>2. CASE EmodeIdent
  <2>1. call = "ident"
    BY <1>2 DEF EmodeIdent
  <2>2. PICK r \in read : EmodeIdent!2!(r)
    BY <1>2 DEF EmodeIdent
  <2>3. CASE MayPass(r.buf) /\ WriteText("ACCEPT") /\ call' = "ack" /\ UNCHANGED outcome
    <3>1. Phase = "served"
      BY <2>1, <2>3, Served DEF MayPass, NoFrame
    <3>2. written'.num = written.num + 1
      BY <2>3, TextAppends
    <3>. QED BY <1>0, <2>3, <3>1, <3>2, AskRefines
  <2>4. CASE Throw("emode") /\ UNCHANGED <<toMeter, written>>
    BY <1>0, <2>4, FailRefines DEF Throw
  <2>. QED BY <2>2, <2>3, <2>4
<1>3. CASE EmodeAck
  <2>1. call = "ack" /\ UNCHANGED written
    BY <1>3 DEF EmodeAck
  <2>2. PICK r \in read : EmodeAck!2!(r)
    BY <1>3 DEF EmodeAck
  <2>3. CASE Return("emode", "undefined", r.buf, NoInfo)
    BY <1>0, <2>1, <2>3, EndRefines DEF Return
  <2>4. CASE call' = "lost" /\ UNCHANGED outcome
    BY <1>0, <2>1, <2>4 DEF Phase, Discipline!vars
  <2>. QED BY <2>2, <2>3, <2>4
<1>4. CASE ProgramStarts
  BY <1>0, <1>4, FailRefines DEF ProgramStarts
<1>. QED BY <1>1, <1>2, <1>3, <1>4 DEF HandshakeStep, EmodeProcess

LEMMA SessionRefines ==
  ASSUME OpticalInv, SessionStep
  PROVE  Discipline!Next
<1>0. UNCHANGED executed /\ Counted
  BY DEF SessionStep, meterVars, OpticalInv
<1>1. CASE Connect \/ Disconnect \/ GetRequest
  <2>1. call = "idle" /\ call' # "idle" /\ UNCHANGED outcome
    BY <1>1 DEF Connect, Disconnect, GetRequest
  <2>2. written'.num = written.num + 1
    BY <1>1, SendAppends DEF Connect, Disconnect, GetRequest
  <2>. QED BY <1>0, <2>1, <2>2, AskRefines DEF Phase
<1>2. CASE ConnectUa
  <2>1. call = "snrm"
    BY <1>2 DEF ConnectUa
  <2>2. PICK r \in read : ConnectUa!2!(r)
    BY <1>2 DEF ConnectUa
  <2>3. CASE Throw("connect") /\ UNCHANGED <<toMeter, ctx, written>>
    BY <1>0, <2>3, FailRefines DEF Throw
  <2>4. CASE Return("connect", "false", r.buf, NoInfo) /\ UNCHANGED <<toMeter, ctx, written>>
    BY <1>0, <2>1, <2>4, EndRefines DEF Return
  <2>5. CASE ~Throws(r.buf) /\ Send("I", Aarq) /\ call' = "aarq" /\ UNCHANGED outcome
    <3>1. Phase = "served"
      BY <2>1, <2>5, Served DEF Throws, NoFrame
    <3>2. written'.num = written.num + 1
      BY <2>5, SendAppends
    <3>. QED BY <1>0, <2>5, <3>1, <3>2, AskRefines
  <2>. QED BY <2>2, <2>3, <2>4, <2>5
<1>3. CASE ConnectAare
  <2>1. PICK r \in read : ConnectAare!2!(r)
    BY <1>3 DEF ConnectAare
  <2>. QED BY <1>0, <1>3, <2>1, FailRefines, EndRefines DEF ConnectAare, Throw, Return
<1>4. CASE DisconnectUa
  <2>1. PICK r \in read : DisconnectUa!2!(r)
    BY <1>4 DEF DisconnectUa
  <2>. QED BY <1>0, <1>4, <2>1, FailRefines, EndRefines DEF DisconnectUa, Throw, Return
<1>5. CASE GetResponse
  <2>1. PICK r \in read : GetResponse!2!(r)
    BY <1>5 DEF GetResponse
  <2>. QED BY <1>0, <1>5, <2>1, FailRefines, EndRefines DEF GetResponse, Throw, Return
<1>6. CASE Authenticate
  BY <1>0, <1>6, FailRefines DEF Authenticate, Throw
<1>. QED BY <1>1, <1>2, <1>3, <1>4, <1>5, <1>6 DEF SessionStep, ClientStep

(* What the port ignores leaves the variables of Exchange alone.           *)
LEMMA PortRefines ==
  ASSUME OpticalInv, PortStep
  PROVE  [Discipline!Next]_Discipline!vars
<1>1. /\ call # "idle" /\ executed < written.num /\ Head(toMeter) = written
      /\ UNCHANGED <<call, written, outcome>>
  <2>1. toMeter # <<>> /\ UNCHANGED clientVars
    BY DEF PortStep, TakeText, TakeFrame, Ignore
  <2>. QED BY <2>1, PortTakes DEF clientVars
<1>2. CASE TakeText \/ TakeFrame
  <2>1. executed' = written.num
    BY <1>1, <1>2 DEF TakeText, TakeFrame, MeterStep
  <2>2. executed # written.num
    BY <1>1 DEF OpticalInv, Counted
  <2>. QED BY <1>1, <2>1, <2>2 DEF Phase, Discipline!Execute, Discipline!Next
<1>3. CASE Ignore
  BY <1>1, <1>3 DEF Ignore, meterVars, Phase, Discipline!vars
<1>. QED BY <1>2, <1>3 DEF PortStep

LEMMA OpticalStepRefines ==
  ASSUME OpticalInv, [OpticalNext]_allVars
  PROVE  [Discipline!Next]_Discipline!vars
<1>. USE DEF Discipline!vars, Phase
<1>1. CASE PortRestart
  BY <1>1 DEF PortRestart, clientVars
<1>2. CASE LineStep /\ UNCHANGED <<meterVars, clientVars, opticalVars>>
  BY <1>2 DEF meterVars, clientVars
<1>3. CASE UNCHANGED allVars
  BY <1>3 DEF allVars, vars, meterVars, clientVars
<1>. QED BY <1>1, <1>2, <1>3, SessionRefines, HandshakeRefines, PortRefines DEF OpticalNext

LEMMA OpticalInitRefines == OpticalInit => Discipline!Init
BY DEF OpticalInit, Init, MeterInit, Phase, Discipline!Init

(* The client with a handshake before its calls still implements Exchange, *)
(* the handshake's two reads included: what a text or an HDLC call returns *)
(* rests on the answer to what it wrote last, even if the meter listens    *)
(* for the other of the two.                                               *)
THEOREM SessionImplementsExchange == OpticalSpec => ImplementsExchange
<1>1. OpticalInv /\ [OpticalNext]_allVars => [Discipline!Next]_Discipline!vars
  BY OpticalStepRefines
<1>. QED BY <1>1, OpticalInitRefines, OpticalInvHolds, PTL
         DEF OpticalSpec, ImplementsExchange, Discipline!Spec

-----------------------------------------------------------------------------
(* The type invariant, which needs to know of a UA that it can be read     *)
(* for lengths of 16 bits, and of a request that its number has 3 bits.    *)

Granted(a) == a.info.kind = "params" => a.info.tx \in UInt16 /\ a.info.rx \in UInt16

TypedSession ==
  /\ OpticalTypeOK
  /\ written.ns \in 0..7
  /\ toClient = <<>> \/ Granted(toClient[1])

LEMMA Modulo8 ==
  ASSUME NEW n \in 0..7
  PROVE  n % 8 \in 0..7 /\ (n + 1) % 8 \in 0..7
OBVIOUS

LEMMA SendTyped ==
  ASSUME NEW cmd, NEW apdu, Send(cmd, apdu)
  PROVE  written'.ns \in 0..7
<1>1. 0 % 8 \in 0..7 /\ 0 \in 0..7
  BY Modulo8
<1>. QED BY <1>1 DEF Send, serialize, get_frame

(* The lengths taken from a UA that was read.                              *)
LEMMA LimitsTyped ==
  ASSUME OpticalInv, TypedSession, call # "idle", NEW r \in read,
         r.buf.valid, parse_snrm_response(r.buf)
  PROVE  NegotiatedLimits(r.buf) \in [tx : UInt16, rx : UInt16]
<1>1. toClient = <<r.buf>>
  BY SessionRead DEF NoFrame
<1>2. toClient # <<>> /\ toClient[1] = r.buf
  BY <1>1
<1>3. r.buf.info.tx \in UInt16 /\ r.buf.info.rx \in UInt16
  BY <1>2 DEF TypedSession, Granted, parse_snrm_response
<1>4. ASSUME NEW a \in UInt16, NEW b \in UInt16 PROVE std_min(a, b) \in UInt16
  BY DEF std_min
<1>. QED BY <1>3, <1>4, ParametersAssumption DEF NegotiatedLimits

(* A step of the program takes at most the one answer off the line.        *)
LEMMA ReadTyped ==
  ASSUME OpticalInv, call # "idle", NEW r \in read, toClient' = r.rest
  PROVE  toClient' = <<>>
BY SessionRead

LEMMA SessionTyped ==
  ASSUME OpticalInv, TypedSession, SessionStep
  PROVE  TypedSession'
<1>. USE DEF TypedSession, OpticalTypeOK
<1>0. /\ UNCHANGED <<optical, mode, connected, executed, expected>>
      /\ restarted' \in BOOLEAN
  BY DEF SessionStep, meterVars
<1>1. CASE Connect
  BY <1>0, <1>1, SendTyped DEF Connect
<1>2. CASE Disconnect
  BY <1>0, <1>2, SendTyped DEF Disconnect
<1>3. CASE GetRequest
  BY <1>0, <1>3, SendTyped DEF GetRequest
<1>4. CASE ConnectUa
  <2>1. call = "snrm" /\ UNCHANGED req
    BY <1>4 DEF ConnectUa
  <2>2. PICK r \in read : ConnectUa!2!(r)
    BY <1>4 DEF ConnectUa
  <2>3. toClient' = <<>>
    BY <2>1, <2>2, ReadTyped
  <2>4. CASE UNCHANGED <<toMeter, ctx, written>> /\ (Throw("connect") \/ Return("connect", "false", r.buf, NoInfo))
    BY <1>0, <2>1, <2>3, <2>4 DEF Throw, Return
  <2>5. CASE /\ ~Throws(r.buf) /\ parse_snrm_response(r.buf) /\ ctx' = NegotiatedLimits(r.buf)
             /\ Send("I", Aarq) /\ call' = "aarq" /\ UNCHANGED outcome
    BY <1>0, <2>1, <2>3, <2>5, SendTyped, LimitsTyped DEF Throws
  <2>. QED BY <2>2, <2>4, <2>5
<1>5. CASE ConnectAare
  <2>1. PICK r \in read : ConnectAare!2!(r)
    BY <1>5 DEF ConnectAare
  <2>. QED BY <1>0, <1>5, <2>1, ReadTyped DEF ConnectAare, Throw, Return
<1>6. CASE DisconnectUa
  <2>1. PICK r \in read : DisconnectUa!2!(r)
    BY <1>6 DEF DisconnectUa
  <2>. QED BY <1>0, <1>6, <2>1, ReadTyped DEF DisconnectUa, Throw, Return
<1>7. CASE GetResponse
  <2>1. PICK r \in read : GetResponse!2!(r)
    BY <1>7 DEF GetResponse
  <2>. QED BY <1>0, <1>7, <2>1, ReadTyped DEF GetResponse, Throw, Return, DataAccessResult
<1>8. CASE Authenticate
  BY <1>0, <1>8 DEF Authenticate, Throw
<1>. QED BY <1>1, <1>2, <1>3, <1>4, <1>5, <1>6, <1>7, <1>8 DEF SessionStep, ClientStep

LEMMA HandshakeTyped ==
  ASSUME OpticalInv, TypedSession, HandshakeStep
  PROVE  TypedSession'
<1>. USE DEF TypedSession, OpticalTypeOK
<1>0. UNCHANGED <<optical, mode, restarted, connected, executed, expected>>
  BY DEF HandshakeStep, meterVars, opticalVars
<1>1. CASE EmodeAsk
  BY <1>0, <1>1 DEF EmodeAsk, WriteText
<1>2. CASE EmodeIdent
  <2>1. PICK r \in read : EmodeIdent!2!(r)
    BY <1>2 DEF EmodeIdent
  <2>. QED BY <1>0, <1>2, <2>1, ReadTyped DEF EmodeIdent, WriteText, Throw
<1>3. CASE EmodeAck
  <2>1. PICK r \in read : EmodeAck!2!(r)
    BY <1>3 DEF EmodeAck
  <2>. QED BY <1>0, <1>3, <2>1, ReadTyped DEF EmodeAck, Return
<1>4. CASE ProgramStarts
  <2>1. [tx |-> 128, rx |-> 128] \in [tx : UInt16, rx : UInt16]
    BY ONLY DEF UInt16
  <2>2. /\ ctx' \in [tx : UInt16, rx : UInt16]
        /\ req' \in Attributes \cup {NoAttribute}
        /\ call' = "idle" /\ outcome'.op = "none" /\ outcome'.result = "throw"
        /\ UNCHANGED <<toClient, written>>
    <3>1. /\ ctx' = [tx |-> 128, rx |-> 128] /\ req' = NoAttribute
          /\ outcome' = [op |-> "none", result |-> "throw", data |-> NoInfo, re |-> 0]
      BY <1>4 DEF ProgramStarts
    <3>2. outcome'.op = "none" /\ outcome'.result = "throw"
      BY <3>1
    <3>. QED BY ONLY <1>4, <2>1, <3>1, <3>2 DEF ProgramStarts, lineVars
  <2>. QED BY <1>0, <2>2
<1>. QED BY <1>1, <1>2, <1>3, <1>4 DEF HandshakeStep, EmodeProcess

LEMMA PortTyped ==
  ASSUME OpticalInv, TypedSession, PortStep
  PROVE  TypedSession'
<1>. USE DEF TypedSession, OpticalTypeOK
<1>1. /\ Head(toMeter) = written /\ toClient = <<>>
      /\ UNCHANGED <<call, written, outcome, req, ctx, optical, restarted>>
  <2>1. toMeter # <<>> /\ UNCHANGED <<clientVars, optical, restarted>>
    BY DEF PortStep, TakeText, TakeFrame, Ignore, opticalVars
  <2>. QED BY <2>1, PortTakes DEF clientVars
<1>2. written.num \in Nat
  BY DEF OpticalInv, Counted
<1>3. CASE TakeText
  <2>1. /\ executed' = written.num /\ UNCHANGED <<connected, expected>>
        /\ Understands(written) /\ (TakeAsk(written) \/ TakeAccept(written))
    BY <1>1, <1>3 DEF TakeText
  <2>2. toClient' = <<>> \/ Granted(toClient'[1])
    <3>1. PICK cmd : toClient' \in {<<>>, Append(toClient, Damaged(Answer(written.num, cmd, NoInfo)))}
      BY <1>1, <2>1 DEF TakeAsk, TakeAccept, Say, Damaged
    <3>2. Granted(Damaged(Answer(written.num, cmd, NoInfo)))
      BY DEF Granted, Damaged, Answer, NoInfo
    <3>. QED BY <1>1, <3>1, <3>2
  <2>. QED BY <1>1, <1>2, <2>1, <2>2 DEF Understands, TakeAsk, TakeAccept
<1>4. CASE TakeFrame
  <2>1. /\ ~IsText(written) /\ Understands(written) /\ MeterStep
        /\ executed' = written.num
        /\ mode' \in {mode, StartMode} /\ (written.cmd # "DISC" => mode' = mode)
    BY <1>1, <1>4 DEF TakeFrame, MeterStep
  <2>2. PICK cmd, info :
          /\ Reply(written, cmd, info)
          /\ info.kind = "params" => info \in Grants
          /\ written.cmd = "DISC" => connected' = FALSE
          /\ expected' \in {expected, 0, (written.ns + 1) % 8}
    <3>. DEFINE Plain(info) == info.kind # "params"
    <3>0. /\ Plain(NoInfo) /\ Plain(Foreign) /\ Plain(AccessError)
          /\ \A x : Plain(Aare(x)) /\ Plain(Data(x))
      BY DEF NoInfo, Foreign, AccessError, Aare, Data
    <3>1. CASE TakeSnrm(written)
      <4>1. PICK info \in {NoInfo, Foreign} \cup Grants : Reply(written, "UA", info)
        BY <3>1 DEF TakeSnrm
      <4>2. info.kind = "params" => info \in Grants
        BY <3>0, <4>1
      <4>. QED BY <3>1, <4>1, <4>2 DEF TakeSnrm
    <3>. HIDE DEF Plain
    <3>2. TakeSnrm(written) \/ \E cmd, info : Reply(written, cmd, info) /\ Plain(info)
      BY <1>1, <2>1, <3>0 DEF MeterStep, TakeDisc, RefuseDisconnected, RejectSendNumber,
                              Associate, ReadAttribute
    <3>3. CASE TakeDisc(written)
      BY <3>1, <3>2, <3>3 DEF TakeDisc, Plain
    <3>4. CASE /\ written.cmd # "DISC" /\ UNCHANGED connected
               /\ expected' \in {expected, (written.ns + 1) % 8}
      BY <3>1, <3>2, <3>4 DEF Plain
    <3>. QED BY <1>1, <2>1, <3>1, <3>3, <3>4
             DEF MeterStep, RefuseDisconnected, RejectSendNumber, Associate, ReadAttribute
  <2>3. toClient' = <<Answer(written.num, cmd, info)>> /\ Granted(Answer(written.num, cmd, info))
    BY <1>1, <2>2, LimitsAssumption DEF Reply, Answer, Granted, Grants
  <2>4. expected' \in 0..7
    BY <2>2, Modulo8
  <2>5. mode' = mode \/ (mode' = StartMode /\ ~connected')
    BY <2>1, <2>2
  <2>6. mode = "hdlc"
    BY <2>1 DEF Understands, IsText
  <2>. QED BY <1>1, <1>2, <2>1, <2>3, <2>4, <2>5, <2>6 DEF StartMode
<1>5. CASE Ignore
  BY <1>1, <1>5 DEF Ignore, meterVars, opticalVars
<1>. QED BY <1>3, <1>4, <1>5 DEF PortStep

LEMMA LineTyped ==
  ASSUME OpticalInv, TypedSession, LineStep, UNCHANGED <<meterVars, clientVars, opticalVars>>
  PROVE  TypedSession'
<1>1. toClient' = <<>> \/ Granted(toClient'[1])
  <2>1. CASE LoseRequest
    BY <2>1 DEF LoseRequest, TypedSession
  <2>2. CASE LoseAnswer \/ DamageAnswer
    <3>1. PICK a : toClient = <<a>> /\ Granted(a) /\ Frame(a)
      BY <2>2 DEF LoseAnswer, DamageAnswer, OpticalInv, LineOfSession, AnswerOfSession, TypedSession
    <3>2. Granted(Damaged(a))
      <4>1. PICK nums, cmds, infos : a \in AnswerFrames(nums, cmds, infos)
        BY <3>1 DEF Frame
      <4>2. Damaged(a).info = a.info
        BY <4>1 DEF AnswerFrames, Damaged
      <4>. QED BY <3>1, <4>2 DEF Granted
    <3>3. toClient' = <<>> \/ toClient' = <<Damaged(a)>>
      BY <2>2, <3>1 DEF LoseAnswer, DamageAnswer
    <3>. QED BY <3>2, <3>3
  <2>. QED BY <2>1, <2>2 DEF LineStep
<1>. QED BY <1>1 DEF TypedSession, OpticalTypeOK, meterVars, clientVars, opticalVars

LEMMA RestartTyped ==
  ASSUME TypedSession, PortRestart
  PROVE  TypedSession'
BY DEF TypedSession, OpticalTypeOK, PortRestart, lineVars, clientVars, StartMode

LEMMA StepTyped ==
  ASSUME OpticalInv, TypedSession, [OpticalNext]_allVars
  PROVE  TypedSession'
<1>1. CASE UNCHANGED allVars
  BY <1>1 DEF TypedSession, OpticalTypeOK, allVars, vars, lineVars, meterVars, clientVars, opticalVars
<1>. QED BY <1>1, SessionTyped, HandshakeTyped, PortTyped, LineTyped, RestartTyped DEF OpticalNext

LEMMA InitTyped == OpticalInit => TypedSession
<1>. SUFFICES ASSUME OpticalInit PROVE TypedSession
  OBVIOUS
<1>. USE DEF OpticalInit, Init, MeterInit
<1>1. ctx \in [tx : UInt16, rx : UInt16]
  BY DEF UInt16
<1>2. /\ optical \in BOOLEAN /\ restarted \in BOOLEAN
      /\ mode \in IF optical THEN {"text", "asked", "hdlc"} ELSE {"hdlc"}
      /\ connected => mode = "hdlc"
  BY DEF StartMode
<1>. QED BY <1>1, <1>2 DEF TypedSession, OpticalTypeOK

(* The session keeps its types; a meter that speaks text is not connected, *)
(* and one without text never leaves HDLC.                                 *)
THEOREM OpticalTypeCorrect == OpticalSpec => []OpticalTypeOK
<1>1. TypedSession => OpticalTypeOK
  BY DEF TypedSession
<1>. QED BY <1>1, InitTyped, StepTyped, OpticalInvHolds, PTL DEF OpticalSpec
=============================================================================
