--------------------------- MODULE MCFrameTransfer ---------------------------
(***************************************************************************)
(* Instances of FrameTransfer for TLC: the frames one session exchanges,   *)
(* with payloads of the sizes at which the format changes: none, one byte, *)
(* a few, and one with which the header's check sequence begins with the   *)
(* control byte.                                                           *)
(***************************************************************************)
EXTENDS FrameTransfer

Bytes(n) == [i \in 1..n |-> (37 * i) % 256]

(* The addresses: HdlcParameters' own, and those of client 16 and a meter  *)
(* with 24 as its physical address: behind these, the check sequence of a  *)
(* frame that ends with its addresses reads as the control byte of an      *)
(* information frame.                                                      *)
Frame(cmd, n) ==
  [cmd |-> cmd, client |-> 1, rrr |-> 0, sss |-> 1,
   physical |-> 16383, logical |-> 1, payload |-> Bytes(n)]

Other(cmd, n) == [Frame(cmd, n) EXCEPT !.client = 16, !.physical = 24]

MCCommands ==
  {Frame(COMMAND_SNRM, 0), Frame(COMMAND_SNRM, 8), Frame(COMMAND_DISC, 0),
   Frame(COMMAND_I, 1), Frame(COMMAND_I, 13), Other(COMMAND_SNRM, 3)}

MCAnswers ==
  {Frame(RESPONSE_UA, 0), Frame(RESPONSE_UA, 8), Frame(RESPONSE_DM, 0),
   Frame(RESPONSE_FRMR, 1), Frame(RESPONSE_I, 0), Frame(RESPONSE_I, 1),
   Other(RESPONSE_I, 12), Other(RESPONSE_UA, 0)}

(* Physical address 17 and client 1: twelve bytes of payload make the high *)
(* byte of the header's check sequence the control byte, 0x30.             *)
MCAnswersAwkward ==
  MCAnswers \cup
    {[Frame(RESPONSE_I, 12) EXCEPT !.rrr = 1, !.sss = 0, !.physical = 17]}

MCFlips == {1, 2, 4, 8, 16, 32, 64, 128, 255}
=============================================================================
