----------------------------- MODULE WrapperFrame -----------------------------
(***************************************************************************)
(* The wrapper codec of src/wrapper.cpp, byte by byte: eight bytes, the    *)
(* version, the length and two ports, before an APDU.                      *)
(***************************************************************************)
EXTENDS Integers, Sequences

Byte == 0..255
MaxUInt16 == 65535
UInt16 == 0..MaxUInt16

WrapperParameters == [w_port_source : UInt16, w_port_destination : UInt16]

(* Mutant: the whole number goes where its high byte belongs.              *)
Uncut(n) == n

Hi(n) == (n \div 256) % 256

Lo(n) == n % 256

Number(hi, lo) == 256 * hi + lo

(* Mutant: the length counts the header.                                   *)
HeaderCounted(params, data) ==
  LET src == params.w_port_source
      dst == params.w_port_destination
      size == Len(data) + 8
  IN  <<0, 1, Hi(size), Lo(size), Hi(dst), Lo(dst), Hi(src), Lo(src)>> \o data

(* The length is cut to 16 bits.                                           *)
serialize(params, data) ==
  LET src == params.w_port_source
      dst == params.w_port_destination
  IN  <<0, 1, Hi(Len(data)), Lo(Len(data)), Hi(dst), Lo(dst), Hi(src), Lo(src)>> \o data

(* Mutant: more may follow than the length says.                           *)
AtLeastComplete(buffer) ==
  Len(buffer) >= 9 /\ Number(buffer[3], buffer[4]) + 8 <= Len(buffer)

(* The sum wraps at 16 bits before it is compared; neither the version nor *)
(* the ports are looked at.                                                *)
wrapper_frame_complete(buffer) ==
  Len(buffer) >= 9 /\ (Number(buffer[3], buffer[4]) + 8) % (MaxUInt16 + 1) = Len(buffer)

(* Mutant: the header is taken off.                                        *)
ParseUnpacks(buffer) == SubSeq(buffer, 9, Len(buffer))

(* Of a complete frame; of any other parse throws.  The header stays on.   *)
parse(buffer) == buffer
=============================================================================
