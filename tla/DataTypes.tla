------------------------------ MODULE DataTypes ------------------------------
(***************************************************************************)
(* The data of a request or a response, src/data_type.cpp: what            *)
(* from_string and from_bytes pack, with the length write_size gives it,   *)
(* and what to_string reads out of a value, packed here or by a meter.     *)
(* to_bytes, which is unfinished, returns nothing and is left out.         *)
(* Module CosemApdu puts such values into requests and answers.            *)
(*                                                                         *)
(* A number of 32 bits is the pair of its halves: TLC counts to 2^31 - 1.  *)
(***************************************************************************)
EXTENDS Integers, Sequences, SequencesExt

Byte == 0..255
Half == {n \in Nat : n <= 65535}  \* 16 bits
DataType == (0..6) \cup {9, 10, 12, 13, 15, 16, 17, 18, 20, 21} \cup (23..27)
UINT32 == 6
OCTET_STRING == 9
CHARACTERS == 10  \* DataType::STRING

-----------------------------------------------------------------------------
(* write_size, up to the sizes TLC has numbers for: from 2^31 on the code  *)
(* writes the same four bytes, and throws from 2^32 on.                    *)

Writable(size) == size \in Nat /\ size \div 16777216 <= 255

Byte0(size) == size % 256
Byte1(size) == (size \div 256) % 256
Byte2(size) == (size \div 65536) % 256
Byte3(size) == size \div 16777216

(* Mutant: a length of one byte has no byte before it.                     *)
SizeBare(size) ==
  CASE size <= 255 -> <<size>>
    [] size > 255 /\ size <= 65535 -> <<130, Byte1(size), Byte0(size)>>
    [] size > 65535 /\ size <= 16777215 -> <<131, Byte2(size), Byte1(size), Byte0(size)>>
    [] OTHER -> <<132, Byte3(size), Byte2(size), Byte1(size), Byte0(size)>>

write_size(size) ==
  CASE size <= 128 -> <<size>>
    [] size > 128 /\ size <= 255 -> <<129, size>>
    [] size > 255 /\ size <= 65535 -> <<130, Byte1(size), Byte0(size)>>
    [] size > 65535 /\ size <= 16777215 -> <<131, Byte2(size), Byte1(size), Byte0(size)>>
    [] OTHER -> <<132, Byte3(size), Byte2(size), Byte1(size), Byte0(size)>>

(* Mutant: a text ends with a zero, as in C, that its length leaves out.   *)
PackTerminated(tag, text) == <<tag>> \o write_size(Len(text)) \o text \o <<0>>

pack_sized_type(tag, text) == <<tag>> \o write_size(Len(text)) \o text

from_bytes(text, tag) ==
  IF tag \in {OCTET_STRING, CHARACTERS} THEN pack_sized_type(tag, text) ELSE <<>>

-----------------------------------------------------------------------------
(* to_string.  A number stands for its decimal digits.                     *)

Text(bytes) == [result |-> "text", text |-> bytes]
Number(halves) == [result |-> "number", number |-> halves]
Underflow == [result |-> "underflow_error"]

(* Mutant: the tag is not counted.                                         *)
NumberMissesTag(buffer) == Len(buffer) < 4

NumberMisses(buffer) == Len(buffer) < 5

(* Mutant: the bytes are shifted in from the other end.                    *)
WordReversed(buffer) == <<256 * buffer[5] + buffer[4], 256 * buffer[3] + buffer[2]>>

Word(buffer) == <<256 * buffer[2] + buffer[3], 256 * buffer[4] + buffer[5]>>

(* The last byte that is read.  The second byte of a string says how many, *)
(* and nobody compares it with the buffer.                                 *)
LastRead(buffer) ==
  CASE Len(buffer) < 2 -> 0
    [] Len(buffer) >= 2 /\ buffer[1] = UINT32 -> IF NumberMisses(buffer) THEN 1 ELSE 5
    [] Len(buffer) >= 2 /\ buffer[1] = CHARACTERS -> IF buffer[2] > 2 THEN buffer[2] ELSE 2
    [] OTHER -> 1

(* The characters are taken from the first byte of the buffer on, so that  *)
(* a text is shown behind its tag and length, and without its end.  Beyond *)
(* the buffer they are what the memory happens to have at their index; a   *)
(* build may also stop there, see Show of module CosemApdu.                *)
Characters(buffer, memory) ==
  [i \in 1..buffer[2] |-> IF i <= Len(buffer) THEN buffer[i] ELSE memory[i]]

to_string(buffer, memory) ==
  CASE Len(buffer) < 2 -> Text(<<>>)
    [] Len(buffer) >= 2 /\ buffer[1] = UINT32 ->
         IF NumberMisses(buffer) THEN Underflow ELSE Number(Word(buffer))
    [] Len(buffer) >= 2 /\ buffer[1] = CHARACTERS -> Text(Characters(buffer, memory))
    [] OTHER -> Text(<<>>)

-----------------------------------------------------------------------------
(* The reader of a length, as test/test_dlms_type.cpp has them: up to 128  *)
(* the byte itself, above that 128 and the number of bytes that follow,    *)
(* four at most.                                                           *)
BigEndian(bytes) ==
  LET Turn(n, value) == IF n <= Len(bytes) THEN 256 * value + bytes[n] ELSE value
  IN  Turn(4, Turn(3, Turn(2, Turn(1, 0))))

SizeBytes(bytes) == IF bytes[1] <= 128 THEN 1 ELSE bytes[1] - 127

ReadSize(bytes) ==
  IF bytes[1] <= 128 THEN bytes[1] ELSE BigEndian(SubSeq(bytes, 2, SizeBytes(bytes)))
=============================================================================
