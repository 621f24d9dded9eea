------------------------------ MODULE HdlcFrame ------------------------------
(***************************************************************************)
(* The HDLC frame codec of src/hdlc_frame.cpp: the frame a HdlcFrame       *)
(* becomes, which buffers are taken for a frame, and what is read out of   *)
(* them.  A buffer is a sequence of bytes; At(buffer, i) is buffer[i] of   *)
(* the code.  Shifts and masks are written as \div, % and *.               *)
(***************************************************************************)
EXTENDS Integers, Sequences

Byte == 0..255

Word == {n \in Nat : n <= 65535}

At(buffer, i) == buffer[i + 1]

Hi(word) == word \div 256
Lo(word) == word % 256

-----------------------------------------------------------------------------
(* The check sequence: the table of the code has, for a byte, the eight    *)
(* steps of the division by the reflected polynomial 0x8408.  Both tables  *)
(* are written as tuples, which TLC computes once.                         *)

NibbleXor ==
  LET Differ(a, b, w) == IF (a \div w) % 2 = (b \div w) % 2 THEN 0 ELSE w
      NX(a, b) == Differ(a, b, 1) + Differ(a, b, 2) + Differ(a, b, 4) + Differ(a, b, 8)
  IN  [i \in 1..256 |-> NX((i - 1) \div 16, (i - 1) % 16)] \o <<>>

Xor(a, b) ==
  LET At16(w) == w * At(NibbleXor, 16 * ((a \div w) % 16) + ((b \div w) % 16))
  IN  At16(1) + At16(16) + At16(256) + At16(4096)

Polynomial == 33800

Divide(crc) == IF crc % 2 = 0 THEN crc \div 2 ELSE Xor(crc \div 2, Polynomial)

table ==
  [i \in 1..256 |-> Divide(Divide(Divide(Divide(Divide(Divide(Divide(Divide(i - 1))))))))]
    \o <<>>

Step(fcs, byte) == Xor(Hi(fcs), At(table, Xor(Lo(fcs), byte)))

(* fcs of the code after each of the bytes.                                *)
Fcs(data) ==
  LET fcs[n \in 0..Len(data)] == IF n = 0 THEN 65535 ELSE Step(fcs[n - 1], data[n])
  IN  fcs

(* The size of the data comes as a number of 16 bits.                      *)
checksequence_calc(data) == 65535 - Fcs(data)[Len(data) % 65536]

-----------------------------------------------------------------------------
(* The frames.  cmd holds the values of HdlcCommand.                       *)

COMMAND_I == 0
RESPONSE_I == 0
COMMAND_SNRM == 131
COMMAND_DISC == 67
RESPONSE_UA == 99
RESPONSE_DM == 15
RESPONSE_FRMR == 135

HdlcFrames ==
  [cmd : Byte, client : Byte, rrr : Byte, sss : Byte,
   physical : Word, logical : Word, payload : Seq(Byte)]

(* cmd | 0x10 *)
PollFinal(cmd) == IF (cmd \div 16) % 2 = 1 THEN cmd ELSE cmd + 16

ControlByte(frame) ==
  IF frame.cmd % 2 = 1 THEN PollFinal(frame.cmd)
  ELSE PollFinal(frame.cmd) + ((frame.sss + 1) % 8) * 32 + (frame.rrr % 8) * 2

(* Mutant: the three bytes of the LLC header are not counted.              *)
SizeWithoutLlc(frame) ==
  IF frame.payload = <<>> THEN 10 ELSE (10 + Len(frame.payload) + 2) % 65536

(* The length the frame claims, a 16 bit number of which 12 are sent.      *)
FrameSize(frame) ==
  IF frame.payload = <<>> THEN 10
  ELSE (10 + Len(frame.payload) + 2 + (IF frame.cmd = COMMAND_I THEN 3 ELSE 0)) % 65536

(* Seven bits of an address to a byte; the lowest bit ends an address.     *)
Upper(address) == 2 * ((address \div 128) % 128)
Lower(address) == 2 * (address % 128)
Ends(byte) == byte + 1

Client(frame) == Ends((2 * frame.client) % 256)

(* Mutant: source, then destination, as in the answers.                    *)
SourceFirst(frame) ==
  <<Client(frame),
    Upper(frame.logical), Lower(frame.logical),
    Upper(frame.physical), Ends(Lower(frame.physical))>>

(* Destination, always four bytes, then source.                            *)
Addresses(frame) ==
  <<Upper(frame.logical), Lower(frame.logical),
    Upper(frame.physical), Ends(Lower(frame.physical)),
    Client(frame)>>

Checked(bytes) == bytes \o <<Lo(checksequence_calc(bytes)), Hi(checksequence_calc(bytes))>>

hdlc_frame_serialize(frame) ==
  LET header == Checked(<<160 + (Hi(FrameSize(frame)) % 16), Lo(FrameSize(frame))>>
                          \o Addresses(frame) \o <<ControlByte(frame)>>)
      llc == IF frame.cmd = COMMAND_I THEN <<230, 230, 0>> ELSE <<>>
      content == header \o llc \o frame.payload
  IN  <<126>> \o (IF frame.payload = <<>> THEN content ELSE Checked(content)) \o <<126>>

-----------------------------------------------------------------------------
(* Reading.                                                                *)

(* The index, from the first byte after the client address, of the byte    *)
(* that ends the server address; 4 when none of the four does.             *)
addr_offset(buffer) ==
  CHOOSE n \in 0..4 :
    /\ n < 4 => At(buffer, n + 4) % 2 = 1
    /\ \A m \in 0..(n - 1) : At(buffer, m + 4) % 2 = 0

(* What the last check sequence covers: from the byte after the flag.      *)
Content(buffer) == SubSeq(buffer, 2, Len(buffer) - 3)

Checksum(buffer, i) == 256 * At(buffer, i + 1) + At(buffer, i)

(* Mutant: the check sequence is not compared.                             *)
ContentUnchecked(buffer) == TRUE

ContentChecked(buffer) ==
  Checksum(buffer, Len(buffer) - 3) = checksequence_calc(Content(buffer))

(* The header of a frame with information has a check sequence of its own. *)
(* The code compares the wrong two bytes, the control byte and the first   *)
(* byte of the sequence, and wants them to differ.  rest is unsigned: a    *)
(* negative number would be a large one.                                   *)
InformationAccepted(buffer, rest) ==
  \/ rest = 0
  \/ /\ rest \notin {1, 2}
     /\ 256 * At(buffer, addr_offset(buffer) + 5) + At(buffer, addr_offset(buffer) + 6)
          # checksequence_calc(SubSeq(buffer, 2, addr_offset(buffer) + 6))

(* Mutant: a frame with a long address may be as short as any.             *)
AnyLength(buffer) == TRUE

LongEnough(buffer) == addr_offset(buffer) = 3 => Len(buffer) >= 12

valid_frame(buffer) ==
  /\ Len(buffer) >= 10
  /\ At(buffer, 0) = 126
  /\ At(buffer, Len(buffer) - 1) = 126
  /\ At(buffer, 1) \div 16 = 10
  /\ 256 * (At(buffer, 1) % 16) + At(buffer, 2) = Len(buffer) - 2
  /\ ContentChecked(buffer)
  /\ At(buffer, 3) % 2 = 1
  /\ addr_offset(buffer) \in {1, 3}
  /\ LongEnough(buffer)
  /\ (At(buffer, addr_offset(buffer) + 5) \div 16) % 2 = 1
  /\ InformationAccepted(buffer, Len(buffer) - addr_offset(buffer) - 9)

(* Mutant: the bit that ends an address is taken for a part of it.         *)
SevenUnshifted(hi, lo) == 128 * hi + lo

(* Two bytes of seven bits each; the address is read into four bytes, the  *)
(* missing ones zero.                                                      *)
Seven(hi, lo) == 128 * (hi \div 2) + lo \div 2

ServerAddress(buffer) ==
  IF addr_offset(buffer) = 3
  THEN [logical  |-> Seven(At(buffer, 4), At(buffer, 5)),
        physical |-> Seven(At(buffer, 6), At(buffer, 7))]
  ELSE [logical |-> 0, physical |-> Seven(At(buffer, 4), At(buffer, 5))]

(* What follows the header of a frame.                                     *)
Information(buffer) == addr_offset(buffer) + 8

IsInformation(buffer) == (At(buffer, addr_offset(buffer) + 5) - 16) % 2 = 0

HasLlc(buffer) ==
  LET o == Information(buffer)
  IN  At(buffer, o) = 230 /\ At(buffer, o + 1) = 231 /\ At(buffer, o + 2) = 0

Invalid == [ok |-> FALSE]

(* Mutant: the payload is taken to the end of the buffer's check sequence. *)
PayloadWithFcs(buffer, begin) == SubSeq(buffer, begin + 1, Len(buffer) - 1)

(* From begin up to the three bytes that end the frame.                    *)
PayloadOf(buffer, begin) == SubSeq(buffer, begin + 1, Len(buffer) - 3)

hdlc_frame_parse(buffer) ==
  IF ~valid_frame(buffer) \/ (IsInformation(buffer) /\ ~HasLlc(buffer)) THEN Invalid
  ELSE LET cmd == At(buffer, addr_offset(buffer) + 5) - 16
           info == IsInformation(buffer)
       IN  [ok    |-> TRUE,
            frame |->
              [cmd |-> IF info THEN RESPONSE_I ELSE cmd,
               client |-> At(buffer, 3) \div 2,
               rrr |-> IF info THEN (cmd \div 32) % 8 ELSE 0,
               sss |-> IF info THEN (cmd \div 2) % 8 ELSE 0,
               physical |-> ServerAddress(buffer).physical,
               logical |-> ServerAddress(buffer).logical,
               payload |-> PayloadOf(buffer, Information(buffer)
                                               + (IF info THEN 3 ELSE 0))]]

(* The last index hdlc_frame_parse reads, or the first beyond the buffer:  *)
(* no access is bounds checked.                                            *)
LastRead(buffer) ==
  LET o == Information(buffer)
  IN  IF ~IsInformation(buffer) THEN o - 3
      ELSE IF o >= Len(buffer) \/ At(buffer, o) # 230 THEN o
      ELSE IF o + 1 >= Len(buffer) \/ At(buffer, o + 1) # 231 THEN o + 1
      ELSE o + 2
=============================================================================
