---------------------------- MODULE FrameTransfer ----------------------------
(***************************************************************************)
(* The frame codec at work: the client or a meter writes a frame, the line *)
(* may damage, cut or join what it carries, and the client parses what it  *)
(* reads.  An optical head echoes, so that what is read may be the         *)
(* client's own frame.                                                     *)
(*                                                                         *)
(* The frames of a meter are not written by this code: MeterFrame is the   *)
(* frame format as hdlc_frame_parse takes it apart, with a header check    *)
(* sequence where the format has one.                                      *)
(***************************************************************************)
EXTENDS HdlcFrame

CONSTANTS
  Commands,        \* the frames the client writes
  Answers,         \* the frames a meter writes
  AddressLengths,  \* of the server address in them: 2 or 4 bytes
  Flips            \* the bit patterns by which a byte may be damaged

(* What get_frame and the requests of src/hdlc.cpp make: an information    *)
(* frame carries an APDU, of any length.                                   *)
CommandFrames ==
  {f \in HdlcFrames :
     /\ f.cmd \in {COMMAND_I, COMMAND_SNRM, COMMAND_DISC}
     /\ f.cmd = COMMAND_I => f.payload # <<>>}

(* What a meter answers with: numbers of three bits, addresses of seven    *)
(* bits to a byte, and no more than the twelve bits of a length count.     *)
AnswerFrames ==
  {f \in HdlcFrames :
     /\ f.cmd \in {RESPONSE_I, RESPONSE_UA, RESPONSE_DM, RESPONSE_FRMR}
     /\ f.client <= 127 /\ f.rrr <= 7 /\ f.sss <= 7
     /\ f.physical <= 16383 /\ f.logical <= 16383
     /\ Len(f.payload) <= 4080}

ASSUME FramesAssumption ==
  /\ Commands \subseteq CommandFrames
  /\ Answers \subseteq AnswerFrames
  /\ AddressLengths \subseteq {2, 4}
  /\ Flips \subseteq 1..255

VARIABLES
  sender,    \* who wrote what is on the line: "client", "meter" or "nobody"
  sent,      \* the frame that was written
  form,      \* the bytes its server address has
  line,      \* the bytes on the line
  intact,    \* FALSE once the line has spoilt them
  received   \* what hdlc_frame_parse made of the last bytes read

vars == <<sender, sent, form, line, intact, received>>

NoFrame ==
  [cmd |-> COMMAND_DISC, client |-> 0, rrr |-> 0, sss |-> 0,
   physical |-> 0, logical |-> 0, payload |-> <<>>]

Init ==
  /\ sender = "nobody"
  /\ sent = NoFrame
  /\ form = 4
  /\ line = <<>>
  /\ intact = TRUE
  /\ received = Invalid

-----------------------------------------------------------------------------
(* The frame of a meter: control byte with its own numbers, an LLC header  *)
(* E6 E7 00 before the payload of an information frame.                    *)
MeterFrame(f, length) ==
  LET server == IF length = 4 THEN SubSeq(SourceFirst(f), 2, 5)
                ELSE <<Lower(f.logical), Ends(Lower(f.physical))>>
      control == PollFinal(f.cmd) + (IF f.cmd = RESPONSE_I THEN 32 * f.rrr + 2 * f.sss ELSE 0)
      info == IF f.cmd = RESPONSE_I THEN <<230, 231, 0>> \o f.payload ELSE f.payload
      size == 6 + length + (IF info = <<>> THEN 0 ELSE Len(info) + 2)
      header == Checked(<<160 + Hi(size), Lo(size), Client(f)>> \o server \o <<control>>)
  IN  <<126>> \o (IF info = <<>> THEN header ELSE Checked(header \o info)) \o <<126>>

Write(who, f, length, bytes) ==
  /\ sender' = who
  /\ sent' = f
  /\ form' = length
  /\ line' = bytes
  /\ intact' = TRUE
  /\ received' = Invalid

ClientWrites ==
  /\ line = <<>>
  /\ \E f \in Commands : Write("client", f, 4, hdlc_frame_serialize(f))

MeterWrites ==
  /\ line = <<>>
  /\ \E f \in Answers, length \in AddressLengths :
       Write("meter", f, length, MeterFrame(f, length))

(* A frame that ends within its information, closed by a check sequence    *)
(* that fits what is left of it.                                           *)
MeterStops ==
  /\ line = <<>>
  /\ \E f \in Answers, length \in AddressLengths, n \in 6..16 :
       LET whole == MeterFrame(f, length)
           short == <<160, n + 2>> \o SubSeq(whole, 4, n + 1)
       IN  /\ n + 4 < Len(whole)
           /\ Write("nobody", f, length, <<126>> \o Checked(short) \o <<126>>)

(* One byte is read as another.                                            *)
Damage ==
  /\ intact
  /\ \E i \in DOMAIN line, flip \in Flips :
       line' = [line EXCEPT ![i] = Xor(@, flip)]
  /\ intact' = FALSE
  /\ UNCHANGED <<sender, sent, form, received>>

(* read() returns when its time is over, with what has arrived.            *)
Cut ==
  /\ intact
  /\ \E n \in 1..(Len(line) - 1) : line' = SubSeq(line, 1, n)
  /\ intact' = FALSE
  /\ UNCHANGED <<sender, sent, form, received>>

(* What an earlier call did not read comes first.                          *)
Join ==
  /\ intact
  /\ line # <<>>
  /\ \E f \in Answers, length \in AddressLengths :
       line' = MeterFrame(f, length) \o line
  /\ intact' = FALSE
  /\ UNCHANGED <<sender, sent, form, received>>

Receive ==
  /\ line # <<>>
  /\ received' = hdlc_frame_parse(line)
  /\ line' = <<>>
  /\ UNCHANGED <<sender, sent, form, intact>>

Next == ClientWrites \/ MeterWrites \/ MeterStops \/ Damage \/ Cut \/ Join \/ Receive

Spec == Init /\ [][Next]_vars

-----------------------------------------------------------------------------
(* What is on the line are bytes, and what was read is a frame the callers *)
(* in src/hdlc.cpp can use, its addresses of two times seven bits.         *)
TypeOK ==
  /\ sender \in {"client", "meter", "nobody"}
  /\ sent \in {NoFrame} \cup Commands \cup Answers
  /\ form \in {2, 4}
  /\ line \in Seq(Byte)
  /\ intact \in BOOLEAN
  /\ received.ok =>
       /\ received.frame \in HdlcFrames
       /\ received.frame.physical <= 16383
       /\ received.frame.logical <= 16383

(* A frame the line has spoilt, by one damaged byte, a missing end or a    *)
(* frame before it, is refused: what module SerialLine takes for granted   *)
(* although the check sequence of the header is not looked at.             *)
SpoiltRefused == received.ok => intact

(* The client does not take its own command for an answer, whole or        *)
(* spoilt, when the optical head echoes it: parse_disc_response would take *)
(* any UA, and only the order of the addresses keeps a command apart, its  *)
(* first address byte, of the meter, being even and an answer's being odd. *)
EchoRefused == received.ok => sender # "client"

(* The server address too: src/hdlc_frame.h:71 promises the frame data.    *)
AddressDecoded ==
  received.ok /\ sender = "meter" =>
    received.frame.logical = sent.logical /\ received.frame.physical = sent.physical

(* An answer that is accepted is decoded as the meter meant it, from       *)
(* behind a header of either length.  Its server address is where that has *)
(* four bytes, the branch of the parser that is taken for either form.     *)
AnswerDecoded ==
  received.ok /\ sender = "meter" =>
    /\ received.frame.cmd = sent.cmd
    /\ received.frame.payload = sent.payload
    /\ received.frame.client = sent.client
    /\ sent.cmd = RESPONSE_I => received.frame.rrr = sent.rrr /\ received.frame.sss = sent.sss
    /\ form = 4 => AddressDecoded

(* The length in a frame of the client is right up to the payload that the *)
(* twelve bits of the field allow, and wrong, by 4096 or more, for every   *)
(* longer one: nothing keeps an APDU to that.  The check sequence of the   *)
(* header is right, and the last one as long as 16 bits count what it      *)
(* covers.                                                                 *)
Room(frame) == IF frame.cmd = COMMAND_I THEN 4080 ELSE 4083

Claimed == 256 * (At(line, 1) % 16) + At(line, 2)

CommandsWellFormed ==
  sender = "client" /\ intact /\ line # <<>> =>
    /\ IF Len(sent.payload) <= Room(sent) THEN Claimed = Len(line) - 2
       ELSE Claimed <= Len(line) - 2 - 4096
    /\ Checksum(line, 9) = checksequence_calc(SubSeq(line, 2, 9))
    /\ Len(line) - 4 <= 65535 =>
         Checksum(line, Len(line) - 3) = 65535 - Fcs(Content(line))[Len(line) - 4]

(* hdlc_frame_parse reads within its buffer, which nothing but the checks  *)
(* of valid_frame sees to.                                                 *)
ReadsInside == line # <<>> /\ valid_frame(line) => LastRead(line) < Len(line)

(* A whole frame of a meter, once read, has been accepted.                 *)
ValidFramesAccepted == line = <<>> /\ sender = "meter" /\ intact => received.ok
=============================================================================
