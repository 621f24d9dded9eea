------------------------------ MODULE SerialLine ------------------------------
(***************************************************************************)
(* The serial port the client templates of include/yadi/dlms.h are given   *)
(* (demo/main.cpp: an ssp::SerialPort with a timeout of 2000 ms).  It is   *)
(* not part of the repository: it is modelled from the two calls the code  *)
(* makes, write(bytes) and read(), and from what hdlc_frame_parse can tell *)
(* of the bytes read() hands back.                                         *)
(*                                                                         *)
(* A line keeps the order of the frames of each direction.  What can go    *)
(* wrong on it, beyond that, is the constant Faults:                       *)
(*   "loss"    a frame disappears (a damaged request is dropped by the     *)
(*             meter, which for the client is the same);                   *)
(*   "noise"   an answer arrives damaged;                                  *)
(*   "late"    the port's timeout expires though an answer is still to     *)
(*             come, or cuts the bytes of an answer, or joins two answers; *)
(*   "restart" the meter restarts (module Meter).                          *)
(***************************************************************************)
EXTENDS Integers, Sequences

CONSTANT Faults

FaultKinds == {"loss", "noise", "late", "restart"}

ASSUME FaultsAssumption == Faults \subseteq FaultKinds

VARIABLES
  toMeter,   \* request frames written and not yet taken by the meter
  toClient   \* answer frames sent and not yet returned by read()

lineVars == <<toMeter, toClient>>

-----------------------------------------------------------------------------
(* An answer frame, as far as the client can tell: valid says that         *)
(* hdlc_frame_parse does not throw, cmd is the frame type it decodes, info *)
(* the payload.  re is a ghost: the number of the request it answers.      *)

NoInfo == [kind |-> "none"]

Answer(re, cmd, info) ==
  [re |-> re, valid |-> TRUE, cmd |-> cmd, info |-> info]

(* What read() returns when it has no whole frame: no bytes or a fragment. *)
NoFrame == [re |-> 0, valid |-> FALSE, cmd |-> "none", info |-> NoInfo]

Damaged(frame) == [frame EXCEPT !.valid = FALSE]

(* A port that is never late times out only when nothing is on its way. *)
Silent == toMeter = <<>> /\ toClient = <<>>

-----------------------------------------------------------------------------
write(frame) == toMeter' = Append(toMeter, frame)

(* The results one call of read() can have: buf is what it returns, rest   *)
(* what stays for the next call.                                           *)
Oldest ==
  IF toClient = <<>> THEN {}
  ELSE {[buf |-> Head(toClient), rest |-> Tail(toClient)]}

TimedOut ==
  IF Silent \/ "late" \in Faults THEN {[buf |-> NoFrame, rest |-> toClient]}
  ELSE {}

(* Only the first bytes of an answer: the others are read next time.       *)
Cut ==
  IF toClient = <<>> THEN {}
  ELSE {[buf |-> NoFrame, rest |-> [toClient EXCEPT ![1] = Damaged(@)]]}

(* All that has arrived, joined: its length field fits no single frame.    *)
Joined ==
  IF Len(toClient) < 2 THEN {} ELSE {[buf |-> NoFrame, rest |-> <<>>]}

read ==
  Oldest \cup TimedOut \cup (IF "late" \in Faults THEN Cut \cup Joined ELSE {})

LoseRequest ==
  /\ "loss" \in Faults
  /\ toMeter # <<>>
  /\ toMeter' = Tail(toMeter)
  /\ UNCHANGED toClient

LoseAnswer ==
  /\ "loss" \in Faults
  /\ toClient # <<>>
  /\ toClient' = Tail(toClient)
  /\ UNCHANGED toMeter

DamageAnswer ==
  /\ "noise" \in Faults
  /\ toClient # <<>>
  /\ Head(toClient).valid
  /\ toClient' = [toClient EXCEPT ![1] = Damaged(@)]
  /\ UNCHANGED toMeter
=============================================================================
