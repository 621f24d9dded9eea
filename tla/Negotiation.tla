----------------------------- MODULE Negotiation -----------------------------
(***************************************************************************)
(* The information field lengths of src/hdlc.cpp: what serialize_snrm      *)
(* proposes, and the loop of parse_snrm_response over the items of the UA, *)
(* one turn of which is one step.                                          *)
(***************************************************************************)
EXTENDS Integers, Sequences

CONSTANTS
  Proposals,  \* the HdlcParameters: records of the lengths tx and rx
  Payloads,   \* the information fields a frame may have
  Headers,    \* what precedes the information field in the buffer
  Contexts    \* what an earlier connection left in the context

Byte == 0..255
MaxUInt16 == 65535
UInt16 == 0..MaxUInt16
Lengths == [tx : UInt16, rx : UInt16]

ASSUME NegotiationAssumption ==
  /\ Proposals \subseteq Lengths
  /\ Payloads \subseteq Seq(Byte)
  /\ Headers \subseteq Seq(Byte)
  /\ Contexts \subseteq Lengths

VARIABLES
  params,   \* HdlcParameters
  ua,       \* TRUE when the frame is a UA
  payload,  \* its information field
  buffer,   \* the whole frame
  ctx,      \* HdlcContext
  offset,   \* of the next item, in the information field
  pc,       \* "checks", "items", or what the function returned
  read      \* ghost: the ids of the items read so far

vars == <<params, ua, payload, buffer, ctx, offset, pc, read>>

(* The three last bytes of a frame are its check sequence and flag; what   *)
(* the check sequence is does not matter, for no value is read from it.    *)
Init ==
  /\ params \in Proposals
  /\ ua \in BOOLEAN
  /\ payload \in Payloads
  /\ \E header \in Headers : buffer = header \o payload \o <<0, 0, 126>>
  /\ ctx \in Contexts
  /\ offset = 0
  /\ pc = "checks"
  /\ read = {}

-----------------------------------------------------------------------------
(* serialize_snrm: nothing for the default, one byte below, two above.     *)

(* Mutant: 255 too is sent in one byte, and 256 with it.                   *)
ItemUpTo256(id, length) ==
  IF length = 128 THEN <<>>
  ELSE IF length <= 256 THEN <<id, 1, length % 256>>
  ELSE <<id, 2, length \div 256, length % 256>>

Item(id, length) ==
  IF length = 128 THEN <<>>
  ELSE IF length < 128 THEN <<id, 1, length % 256>>
  ELSE <<id, 2, length \div 256, length % 256>>

serialize_snrm == Item(5, params.tx) \o Item(6, params.rx)

-----------------------------------------------------------------------------
(* The value of the width bytes from bytes[first] of the code on, the      *)
(* highest first: three turns of the inner loop, which takes no more.      *)
Value(bytes, first, width) ==
  LET Turn(n, value) ==
        IF n < width THEN 256 * value + bytes[first + n + 1] ELSE value
  IN  Turn(2, Turn(1, Turn(0, 0)))

std_min(a, b) == IF b < a THEN b ELSE a

(* The UA has an information field that starts as a parameter group.       *)
Usable == Len(payload) >= 3 /\ payload[1] = 128 /\ payload[2] = 129 /\ ua

(* Mutant: the context stays as it was instead of taking the proposals.    *)
ChecksOnly ==
  /\ pc = "checks"
  /\ pc' = IF Usable THEN "items" ELSE "false"
  /\ UNCHANGED <<params, ua, payload, buffer, ctx, offset, read>>

(* Mutant: the context takes the proposals before the frame is looked at.  *)
ChecksLate ==
  /\ pc = "checks"
  /\ pc' = IF Usable THEN "items" ELSE "false"
  /\ ctx' = params
  /\ UNCHANGED <<params, ua, payload, buffer, offset, read>>

Checks ==
  /\ pc = "checks"
  /\ pc' = IF Usable THEN "items" ELSE "false"
  /\ ctx' = IF Usable THEN params ELSE ctx
  /\ UNCHANGED <<params, ua, payload, buffer, offset, read>>

(* Mutant: as many as the item claims.                                     *)
WidthClaimed(len, left) == IF len < 4 THEN len ELSE 0

(* How many bytes of an item's value are read: none when it claims more    *)
(* than three, in which case they are taken for the next item.             *)
Width(len, left) == IF len < 4 THEN std_min(len, left) ELSE 0

(* Mutant: the meter's value as it is.                                     *)
Unlimited(proposed, value) == value % 65536

(* Mutant: the value keeps its 32 bits, the proposal is the lower limit.   *)
Wide(proposed, value) == IF value < proposed THEN proposed ELSE value

Limited(proposed, value) == std_min(proposed, value % 65536)

(* Mutant: an item whose width the loop does not take is looked at again.  *)
ReadItemAgain ==
  /\ pc = "items"
  /\ offset + 1 < Len(payload)
  /\ offset' = IF payload[offset + 2] < 4
               THEN offset + 2 + Width(payload[offset + 2], Len(payload) - offset - 2)
               ELSE offset
  /\ UNCHANGED <<params, ua, payload, buffer, ctx, pc, read>>

(* The value is read at the item's offset in the buffer, not in the        *)
(* information field: what it finds there are other bytes.                 *)
ReadItem ==
  /\ pc = "items"
  /\ offset + 1 < Len(payload)
  /\ LET id == payload[offset + 1]
         width == Width(payload[offset + 2], Len(payload) - (offset + 2))
         value == Value(buffer, offset + 2, width)
     IN  /\ offset' = offset + 2 + width
         /\ ctx' = [tx |-> IF id = 5 THEN Limited(params.tx, value) ELSE ctx.tx,
                    rx |-> IF id = 6 THEN Limited(params.rx, value) ELSE ctx.rx]
         /\ read' = read \cup {id}
  /\ UNCHANGED <<params, ua, payload, buffer, pc>>

Return ==
  /\ pc = "items"
  /\ offset + 1 >= Len(payload)
  /\ pc' = "true"
  /\ UNCHANGED <<params, ua, payload, buffer, ctx, offset, read>>

Next == Checks \/ ReadItem \/ Return

Spec == Init /\ [][Next]_vars

(* The loop runs as long as the function does.                             *)
FairSpec == Spec /\ WF_vars(Next)

-----------------------------------------------------------------------------
(* The context holds lengths of 16 bits whatever the items say.            *)
TypeOK ==
  /\ params \in Lengths
  /\ ua \in BOOLEAN
  /\ payload \in Seq(Byte)
  /\ buffer \in Seq(Byte)
  /\ ctx \in Lengths
  /\ offset \in Nat
  /\ pc \in {"checks", "items", "true", "false"}
  /\ read \subseteq Byte

(* The bytes are read where there are some: an item that claims more bytes *)
(* than are left ends with the information field.                          *)
OffsetInside ==
  /\ offset <= Len(payload)
  /\ Len(payload) <= Len(buffer)

(* From whatever bytes the values come, no length is above the proposal.   *)
WithinProposals ==
  pc \in {"items", "true"} => ctx.tx <= params.tx /\ ctx.rx <= params.rx

(* A length the meter does not mention is the proposal, not what an        *)
(* earlier connection agreed on.                                           *)
NothingStale ==
  pc = "true" =>
    /\ 5 \notin read => ctx.tx = params.tx
    /\ 6 \notin read => ctx.rx = params.rx

(* A UA that is refused leaves the context alone.                          *)
RefusalKeepsContext == [][pc' = "false" => ctx' = ctx]_vars

(* The loop ends: every turn goes on by the item it reads.                 *)
Returns == <>(pc \in {"true", "false"})

(* A meter reads items one behind the other, by their widths: where they   *)
(* start, and the values they say an id has, 128 when none does.           *)
Behind(items, o) == IF o < Len(items) THEN o + 2 + items[o + 1] ELSE o

Starts(items) ==
  LET start[k \in 0..Len(items)] == IF k = 0 THEN 1 ELSE Behind(items, start[k - 1])
  IN  {start[k] : k \in 0..Len(items)} \cap (1..Len(items))

Says(items, id, length) ==
  LET found == {o \in Starts(items) : items[o] = id}
  IN  /\ found = {} => length = 128
      /\ \A o \in found : Value(items, o + 1, items[o + 1]) = length

(* What serialize_snrm writes, read item by item, are the proposals.       *)
ProposalsReadable ==
  /\ Says(serialize_snrm, 5, params.tx)
  /\ Says(serialize_snrm, 6, params.rx)
=============================================================================
