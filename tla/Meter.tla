-------------------------------- MODULE Meter --------------------------------
(***************************************************************************)
(* The meter at the other end of the serial line.  It is not part of the   *)
(* repository: it is modelled from what the code expects of it, the        *)
(* comments on the frame types in src/hdlc_frame.h (SNRM connects, DISC    *)
(* disconnects, UA acknowledges both, DM is the answer of a disconnected   *)
(* meter, FRMR that of an invalid sequence number) and the APDUs that      *)
(* src/cosem.cpp writes and parses.                                        *)
(*                                                                         *)
(* A meter may choose: to fill the information of UA as it likes, to       *)
(* accept or refuse an association, to refuse a read, and to let a frame   *)
(* with a wrong send number pass or to reject it.                          *)
(***************************************************************************)
EXTENDS SerialLine

CONSTANTS
  Attributes,  \* the attributes a client may ask for
  Limits       \* the field lengths a meter may grant in a UA

UInt16 == 0..65535

ASSUME LimitsAssumption == Limits \subseteq UInt16

VARIABLES
  connected,   \* TRUE in normal response mode
  associated,  \* TRUE after an accepted AARQ
  expected,    \* the send number the next I frame ought to carry
  executed     \* ghost: the number of the last request it took

meterVars == <<connected, associated, expected, executed>>

Aarq == [kind |-> "aarq"]
Get(attribute) == [kind |-> "get", attribute |-> attribute]

Foreign == [kind |-> "foreign"]     \* information the client cannot use
Aare(result) == [kind |-> "aare", result |-> result]
Data(attribute) == [kind |-> "data", attribute |-> attribute]
AccessError == [kind |-> "error"]

Grants == [kind : {"params"}, tx : Limits, rx : Limits]

Infos ==
  {NoInfo, Foreign, AccessError} \cup Grants
    \cup [kind : {"aare"}, result : {"accepted", "rejected"}]
    \cup [kind : {"data"}, attribute : Attributes]

Apdus == {NoInfo, Aarq} \cup [kind : {"get"}, attribute : Attributes]

Requests ==
  [num : Nat, cmd : {"SNRM", "DISC", "I"}, apdu : Apdus, ns : 0..7, nr : 0..7]

Answers ==
  [re : Nat, valid : BOOLEAN, cmd : {"UA", "DM", "FRMR", "I", "none"}, info : Infos]

MeterTypeOK ==
  /\ toMeter \in Seq(Requests)
  /\ toClient \in Seq(Answers)
  /\ connected \in BOOLEAN
  /\ associated \in BOOLEAN
  /\ expected \in 0..7
  /\ executed \in Nat

MeterInit ==
  /\ toMeter = <<>>
  /\ toClient = <<>>
  /\ connected = FALSE
  /\ associated = FALSE
  /\ expected = 0
  /\ executed = 0

-----------------------------------------------------------------------------
Reply(f, cmd, info) == toClient' = Append(toClient, Answer(f.num, cmd, info))

TakeSnrm(f) ==
  /\ f.cmd = "SNRM"
  /\ connected' = TRUE
  /\ associated' = FALSE
  /\ expected' = 0
  /\ \E info \in {NoInfo, Foreign} \cup Grants :
       Reply(f, "UA", info)

TakeDisc(f) ==
  /\ f.cmd = "DISC"
  /\ connected' = FALSE
  /\ associated' = FALSE
  /\ Reply(f, IF connected THEN "UA" ELSE "DM", NoInfo)
  /\ UNCHANGED expected

RefuseDisconnected(f) ==
  /\ f.cmd = "I"
  /\ ~connected
  /\ Reply(f, "DM", NoInfo)
  /\ UNCHANGED <<connected, associated, expected>>

RejectSendNumber(f) ==
  /\ f.cmd = "I"
  /\ connected
  /\ f.ns # expected
  /\ Reply(f, "FRMR", Foreign)
  /\ UNCHANGED <<connected, associated, expected>>

Associate(f) ==
  /\ f.cmd = "I"
  /\ connected
  /\ f.apdu = Aarq
  /\ expected' = (f.ns + 1) % 8
  /\ \E accepted \in BOOLEAN :
       /\ associated' = accepted
       /\ Reply(f, "I", Aare(IF accepted THEN "accepted" ELSE "rejected"))
  /\ UNCHANGED connected

(* A meter that has no association, or will not read, says so.             *)
ReadAttribute(f) ==
  /\ f.cmd = "I"
  /\ connected
  /\ f.apdu.kind = "get"
  /\ expected' = (f.ns + 1) % 8
  /\ \E info \in {Foreign} \cup
                 (IF associated THEN {Data(f.apdu.attribute), AccessError} ELSE {}) :
       Reply(f, "I", info)
  /\ UNCHANGED <<connected, associated>>

MeterStep ==
  /\ toMeter # <<>>
  /\ LET f == Head(toMeter)
     IN  /\ toMeter' = Tail(toMeter)
         /\ executed' = f.num
         /\ \/ TakeSnrm(f)
            \/ TakeDisc(f)
            \/ RefuseDisconnected(f)
            \/ RejectSendNumber(f)
            \/ Associate(f)
            \/ ReadAttribute(f)

(* A mains failure: the meter comes back disconnected.                     *)
Restart ==
  /\ "restart" \in Faults
  /\ connected
  /\ connected' = FALSE
  /\ associated' = FALSE
  /\ UNCHANGED <<toMeter, toClient, expected, executed>>
=============================================================================
