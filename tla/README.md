# A TLA+ model of yadi.cpp

yadi.cpp is a small C++ library with which a program reads electricity meters
over DLMS/COSEM. A client object (`include/yadi/dlms.h`) is given a serial
port, writes a request frame, blocks in `read()` and makes something of the
bytes it gets. It has no threads; the concurrency is between the client, the
line and the meter, and the difficulty is that `read()` may return before the
meter has answered.

## The system

| Part | Source | State it keeps | Operations | Hard behaviour |
|---|---|---|---|---|
| HDLC client | `include/yadi/dlms.h:8-42` | `hdlc_ctx`, `hdlc_params`, `cosem`; and where in a call it is blocked | `connect` (two exchanges), `disconnect`, `authenticate`, `get_request`, `set_request` | answers that are lost, damaged, late; calls in any order; a meter that restarts; exceptions half way |
| HDLC layer | `src/hdlc.cpp` | none (it fills `HdlcContext`) | `serialize_snrm`, `parse_snrm_response`, `serialize`, `parse`, ... | a loop over bytes of the meter's choice; a context that outlives a connection; frame numbers |
| HDLC frame codec | `src/hdlc_frame.cpp` | none | `hdlc_frame_serialize`, `hdlc_frame_parse` | damaged, cut, joined and echoed bytes; unsigned lengths; unchecked indices |
| COSEM APDUs | `src/cosem.cpp` | none (`CosemContext` is never touched) | `serialize_aarq`, `serialize_*_request`, `parse_aare`, `parse_get_response` | nested lengths in one byte each; results that are not looked at |
| Wrapper client and codec | `include/yadi/dlms.h:44-67`, `src/wrapper.cpp` | ports | `connect`, `disconnect`, `get_request`, `serialize`, `parse` | a stream keeps no frames apart; a length that wraps at 16 bits; `parse` does not unpack |
| Data types | `src/data_type.cpp` | none | `write_size`, `from_string`, `from_bytes`, `to_string` | lengths at their limits |
| Logical names | `src/logical_name.cpp` | six bytes | two constructors | dots too many or too few; numbers that are no bytes |
| E-mode | `include/yadi/emode.h`, `src/emode.cpp` | none | `emode_process` | two exchanges, the second ignored; text without a check sequence; a meter that listens for the other language |
| Security | `src/security.cpp` | a random generator | `generate_challenger`, `process_challenger` | none reached by a client |

The client calls the APDU layer for the information of a frame, the HDLC layer
for the frame, and the port for the rest. Nothing is shared and there are no
callbacks. An exception of any parser passes through the client to the program.

What makes the parts correct: a call rests on the answer to its own request
(client); what is accepted was sent by a meter, and is decoded as it was meant
(codec); the lengths agreed on are the client's own or less (negotiation); a
meter can read what is written (APDUs, names, values); no wrong length passes
for a frame (wrapper); a handshake leaves the line in step and the meter in the
language the next call speaks, or that call fails (E-mode).

## The modules

| Module | Models |
|---|---|
| `SerialLine` | the port and the line, external: two FIFO queues, the results one `read()` may have, and the faults of the constant `Faults` |
| `Meter` | the meter, external: a meter as the comments in `src/hdlc_frame.h` and the APDUs of `src/cosem.cpp` presuppose it |
| `HdlcClient` | `CosemHdlcClient`. Each call is split where it blocks in `read()`: `Connect`, `ConnectUa`, `ConnectAare`, and so on. One action is all the code from one `read()` to the next, with every return and exception |
| `Exchange` | what that discipline promises, abstractly: a request is executed at most once, only while its call waits, and a call returns the answer to the request it wrote last |
| `HdlcFrame` | the codec as operators on sequences of bytes, the check sequence included |
| `FrameTransfer` | the codec at work: frames of the client and of a meter, whole, damaged, cut, joined, or ended early by the sender |
| `Negotiation` | `serialize_snrm`, and `parse_snrm_response` one turn of its loop a step |
| `OpticalSession` | `emode_process` before, between and after the calls of `HdlcClient` on the same port, with a meter's port that understands text, HDLC, or first the one and then the other |
| `CosemApdu` | the AARQ, the requests and `parse_get_response` in bytes, with a meter that reads the AARQ field by field and answers, truly or not, and a program that shows the answer and may crash of it |
| `LogicalName` | the names in those requests: both constructors as operators |
| `DataTypes` | the values in requests and answers: `write_size`, `from_bytes` and `to_string` on sequences of bytes, with the reader of lengths the tests presuppose; sizes up to 2^31 - 1, the integers TLC has, and numbers of 32 bits as two halves; what `to_string` finds beyond its buffer is the memory's |
| `WrapperFrame` | the wrapper codec as operators on sequences of bytes |
| `WrapperClient` | `CosemWrapperClient` over a stream, split at `read()` as `HdlcClient` is, with the bytes of `WrapperFrame` on the stream |
| `MC...` | the values of the constants for TLC |
| `HdlcClientProofs`, `HdlcOrderProofs`, `OpticalProofs`, `NegotiationProofs`, `ChecksequenceProofs`, `FrameTransferProofs`, `CosemApduProofs`, `WrapperProofs` | the theorems |

How they fit together: `HdlcClient` extends `Meter`, which extends
`SerialLine`, and abstracts a frame to its type, its information and whether
`hdlc_frame_parse` accepts it. `FrameTransfer` justifies that abstraction (a
spoilt frame is never accepted, an accepted one decodes to what was sent, an
echo is never accepted), and `Negotiation` the operator `NegotiatedLimits` (the
client never ends with more than it proposed). In `HdlcClient` a UA grants what
the meter meant; in the code the value comes from other bytes of the frame,
which `Negotiation` has: both say "the proposal or less", and no property of
`HdlcClient` depends on which value it is. `OpticalSession` extends
`HdlcClient` and conjoins the meter's language to its actions: a frame reaches
`MeterStep` only when the meter listens for HDLC. `CosemApdu` extends
`LogicalName` and `DataTypes`. `HdlcClient`, `OpticalSession` and, on a timely
stream, `WrapperClient` each implement `Exchange`.

The state of `HdlcClient` against the code: `call` is the `read()` the client
is in, `ctx` is `hdlc_ctx`, `req` the argument of the last `get_request`,
`outcome` how the last call ended, `written` the last frame written. `num`,
`re` and `executed` are ghosts that number the requests; the code has no such
number, and that is the point. `toMeter` and `toClient` are the bytes on the
line, `connected`, `associated` and `expected` the meter's. In
`OpticalSession`, `optical` and `mode` are the meter's too, and `restarted` is a
history variable. In `WrapperClient`, `stream` says once what the reads of a
stream may return: the next answer (`"timely"`), or nothing and two answers
joined as well (`"late"`), or a part of one (`"cut"`); the three are three
initial states of one run.

In `HdlcFrame`, shifts and masks are `\div`, `%` and `*`; sixteen-bit numbers
are cut with `% 65536`. The table of the check sequence is computed from the
polynomial, and was compared with the table in the code. In `Negotiation`, the
inner loop over the bytes of an item, at most three, is not stepped through:
`Width` and `Value` are its closed form.

## What TLC checks

Every property has a mutant in `PROJECT.json`: a small change to a definition,
as a plausible bug would make it, with which TLC finds the property violated.

| Run | Shows | Bounds |
|---|---|---|
| `HdlcTimely` | with losses, noise and restarts, as long as no answer comes after the timeout: at most one frame under way and none between two calls, `get_request` returns the attribute it was asked for, `disconnect` means disconnected, and the client implements `Exchange` | 6 frames written, 2 attributes, 2 granted lengths |
| `OpticalSession` | with losses, noise and restarts: `emode_process` that has read an acknowledgement and comes back leaves a meter that listens for HDLC, whatever became of the handshake a `connect` that returns true means a connected meter (unless it restarted since), both together implement `Exchange`, every call of the HDLC client returns or throws, and the handshake gets beyond its two reads | 8 frames written, 1 attribute, 1 granted length, meters of both kinds |
| `HdlcLate` | with all faults at once: answers are read in the order of their requests and at most once, which is all that is left | 4 frames |
| `HdlcLateGet` | violated: one late answer and `get_request` returns another attribute's value | 5 frames |
| `HdlcRejected` | violated: `connect` returns true for a rejected association | no faults |
| `HdlcSendNumbers` | violated: the second I frame of a connection, the get request after the AARQ, has the send number of the first | no faults |
| `FrameAnswers` | nothing spoilt and no echo is accepted, what is accepted is decoded as meant, a server address of four bytes included, the client's frames are well formed, every read is inside the buffer | 6 commands, 8 answers, 9 damages of any one byte, every cut, every join |
| `FrameAddressShort` | violated: those of two bytes are not | the same frames |
| `FrameHeaderCheck` | violated: some valid frames are refused | one more answer |
| `Negotiated` | the items written say what was proposed; the loop over a UA's items ends and stays inside; the lengths are the proposals or less, nothing is left of an earlier connection, and a refusal changes nothing | items of up to four bytes from `{0,2,3,5,6,200}` and two longer ones; proposals 0, 1, 127-129, 255-257, 50000, 65535 |
| `Apdus` | the lengths of the AARQ fit, the nested ones too, its fields are in order and go together; a request is read as it was meant, its name and its value included; lengths are read back; SUCCESS means data; numbers are shown as meant or refused; `to_string` reads beyond its buffer for no number and no string that is what it says, only for a misstated one | all 8 mechanisms, all 4 security contexts, challenges of 0, 1, 8, 64 and 194 bytes; 11 names, of dots too many and too few; texts of 15 lengths from 0 to 65536, the edges of every form of a length, 36 numbers cut anywhere, or with a byte behind; strings cut at and before their length, and lengths that promise too much or too little; two kinds of memory |
| `Wrapped` | the two halves of the codec, which cut to 16 bits in two ways, agree: what is written is complete for the test every answer has to pass up to 65527 bytes of APDU, and for none longer; a call that returns rests on one whole answer; `get_request` never returns; a timely stream stays in step (`Exchange`); every call ends | 3 frames; streams of all three kinds; cuts inside the length field and behind the header; get requests of 13, 65528 and 65537 bytes, of which the second makes the sum of 16 bits wrap and the third the length itself (every other size: `WrittenCompleteHolds`) |

Why the bounds are enough. The shortest way to confuse two answers takes two
calls, and a connection takes two frames before the first: six frames hold a
connection, a read, a disconnection and another call, or two connections, one
after the other. A handshake takes two more, so that eight hold one, a
connection, a read and what is left over, or two handshakes. Two attributes
are enough for an answer to be the wrong one. The frames in `MCFrameTransfer` have no information, one byte, a few, and a
pair of addresses behind which a header's check sequence reads as a control
byte. Items in `MCNegotiation` are ids the loop knows and does not, with
widths that are present, cut off and too large. The proposals are the edges of
their encoding and their neighbours. The cuts of `MCWrapperClient` are within
the length field, before it, at the end of the header and within the APDU;
three frames are the least with which an answer of the first call can meet
those of two others. The bound on frames is checked where a call starts, so it
never stops a call half way. The payloads of `FrameAnswers` are short because
TLC evaluates the check sequence of a frame recursively, and its stack does not
hold that of a few hundred bytes; where the length of a frame matters, at 4081
bytes and more, `CommandsWellFormed` is a theorem and not a run.

`CHECK_DEADLOCK FALSE` is set for `Negotiation` only, a function that returns:
it stops when its loop has.

### Fairness

`OpticalFairness` is weak fairness on the client while it is in `read()` (a
port has a timeout, 2000 ms in `demo/main.cpp:29`, and the program goes on with
whatever it returned) and on the meter's port (it answers or drops what it has
received). `Fairness` of `WrapperClient` is the same for its stream. The
application is not fair, it need never make a call, nobody need start a program
again that was lost in `emode_process` (`ProgramStarts`), and no fault must
happen.
`FairSpec` of `Negotiation` says that a function that has started runs on.

### Undefined behaviour

Two places of the code have it, and the model has both its outcomes at each.
`emode_process` (`include/yadi/emode.h:49-62`) is declared to return a value and
has no `return`: after its second `read()` the model comes back with a result
called "undefined", or does not come back (`call = "lost"`) until the program is
started again. No property claims that the handshake comes back. `to_string`
(`src/data_type.cpp:91-93`) believes the length in a meter's string: beyond the
buffer it reads what is in memory, any of the constant `Memory`, or the program
ends there (`pc = "crashed"`).

### Late answers

"late" means that the timeout can expire although a request or an answer is
still under way. Without it, `read()` comes back empty-handed only when
nothing is: this is an assumption about timeouts, not about the code, and
`HdlcLate` and `HdlcLateGet` show what becomes of the client without it.

## What is proved

By TLAPS, for every value of the constants: every invariant and every action
property of the passing runs, and every refinement. What is left to TLC is
liveness.

* `HdlcClientProofs`: `TypeCorrect`, the type invariant, under any faults.
  Under `Timely` (`"late" \notin Faults`) the inductive invariant `TimelyInv`
  and from it `WindowOneHolds`, `GetReturnsAttributeHolds`,
  `DisconnectMeansDisconnectedHolds` and `ClientImplementsExchange`. The
  invariant is needed because the code compares no number: that the answer read
  is the right one follows only from the line being empty when a call starts.
  It says that the line is empty, or holds the request the waiting call wrote,
  or one answer to that very request, and it relates that answer to the meter's
  state and to what was asked. There is one step per action of the client, of
  the meter and of the line.
* `HdlcOrderProofs`: `AnswersInOrderHolds`, for every set of faults, late
  answers included. The invariant (`OrderInv`) adds that no request is taken
  before it is written; what a `read()` leaves is what was there without its
  first frames, and what it returns, if valid, is the first of them.
* `OpticalProofs`, for every set of faults but late answers: `ChangedOverHolds`,
  `ConnectedUnlessRestartedHolds`, `SessionImplementsExchange` and
  `OpticalTypeCorrect`. The inductive invariant (`OpticalInv`) says, beyond what
  `TimelyInv` says of the line, what the answer on it stands for: a UA that can
  be read for a connected meter, an answer to the acknowledgement for a meter
  that has changed over, each unless it restarted since; and that nothing
  disconnects the meter between the two exchanges of a connect. It needs no
  types; those are a second invariant (`TypedSession`), proved with its help.
* `NegotiationProofs`: `TypeCorrect`, `OffsetInsideHolds`,
  `WithinProposalsHolds`, `NothingStaleHolds`, `RefusalKeepsContextHolds`, for
  every UA. `NothingStale` speaks of the end only; the invariant has it from
  the moment the proposals are taken (`Unmentioned`). `ProposalsReadableHolds`:
  whichever of the 65536 lengths is proposed on either side, the items of the
  SNRM, none, one or two of them with one byte or two each, are read back as
  those lengths.
* `ChecksequenceProofs`: `OneByteTells`, that contents of one length that
  differ in a single byte never have the same check sequence. Followed bit by
  bit from the polynomial: a turn of the inner loop can be undone, as the
  highest bit of its result says whether the polynomial was added
  (`DivideBack`); so no two entries of the table have the same high byte
  (`TableInjective`), and a step of the sum tells its byte and what was before
  it (`StepTellsByte`, `StepTellsFcs`). Two sums that have once parted never
  meet again: the first place where they would is a least natural number
  (`LeastNatural`, from the library's well-foundedness of the naturals).
* `FrameTransferProofs`: `SpoiltFramesRefused`, `EchoesRefused`,
  `AnswersDecoded`, `CommandsAreWellFormed`, `Typing` and `ReadsAreInside`, for
  frames of every length and content and every place and value of a damage; a
meter's frames are as long as twelve bits can say, the client's as long as an
APDU makes them.
  `SpoiltRefused` looks at what has been read and is not inductive: the
  invariant (`IInv`) has to know of the bytes still on the line that they are a
  whole frame while nothing has happened to them, the one that was sent, and no
  valid frame once something has (`OnTheLine`). A damaged flag or
  length is told by its value, a byte of the content by its check sequence
  (`OneByteTells`), a byte of the check sequence by the content that is as it
  was; a cut or a join disagrees with the length field; an echo has an even byte
  where an answer has the last byte of an address, which is odd, and that is also
what refuses a cut command whose length field has run over (`Uncuttable`).
`CommandsAreWellFormed` has the overflow: the length a frame claims is right
exactly up to 4080 bytes of APDU, and too small by 4096 or more for every longer
one, which nothing in `hdlc_frame_serialize` prevents; the size that
`checksequence_calc` is given has 16 bits, so that its last check sequence is
claimed for contents of up to 65535 bytes. `EveryReadInside` needs no invariant:
  whatever bytes `hdlc_frame_parse` is given, it reads none beyond them. The
  lemma `AcceptedLengths` has the argument: the unsigned subtractions do not
  wrap for a frame that passes the tests before them.
* `CosemApduProofs`: all the invariants of the run `Apdus`. For any requests,
  answers and sizes: `SizeReadableHolds` (the five forms of `write_size` are
  read back, 0 to 2^32 - 1), `RequestUnderstoodHolds`, `PackedReadableHolds`,
  `SuccessIsDataHolds`, `NumberShownHolds`, from the invariant `Made`, which
  says what the bytes were made from. Of any answer, a string that is not what it
  says included: `TypeCorrect`, and `OverrunMeansMisstatedHolds`, that `to_string`
  reads beyond the data of a response only for such a string; of a longer length
  it takes the first byte for all of it, which is within the data then. For
  an AARQ the invariant `Reading` says that the meter stands at the start of one
  of its three to seven fields or at the end, and has read those that are due
  before it, each filled and in order: it is what makes `offset` and `fields`
  hang together. It gives `FieldsInOrderHolds` and
  `AuthenticationAnnouncedHolds` for challenges of up to 253 bytes
  (`ShortChallenges`) and `LengthsFitHolds` for up to 194 (`FittingChallenges`).
  The code bounds `challenger_size` nowhere (`include/yadi/cosem.h:92`; its
  default is 8, and 64 the most the mechanisms have): from 195 on, with a title,
  the length of the whole (`src/cosem.cpp:247`) is cut to its byte, from 254 on
  that of the value, and the invariants are false.
* `WrapperProofs`, about the codec: `CompleteIsExact` (the sum that wraps at
  16 bits lets no buffer through whose length is not the one in its header) and
  `WrittenAccepted` (the wrapper accepts its own frames for 1 to 65527 bytes of
  data and for no other size). About the client: `TypeCorrect`;
  `AcceptedWholeHolds` and `GetAlwaysThrowsHolds` from the inductive invariant
  `WholeInv`, that but for a stream that cuts, what is under way are whole
  frames, of which two in a row are never complete for all lengths of both;
  `InStepHolds` and `KeepsDisciplineHolds` from `TimelyInv`, that a timely
  stream is empty, holds the waiting call's request, or the answer to it
  (`InStep` is proved and not checked by a run, where `KeepsDiscipline` says
  more); `WrittenCompleteHolds`, that serialize and wrapper_frame_complete agree up to
  65527 bytes and on no longer APDU. For requests of every length, every pair of
  ports and every place to cut.

The assumptions are those the modules name (`ParametersAssumption`,
`LimitsAssumption`, `FaultsAssumption`, `NegotiationAssumption`,
`FramesAssumption`, `ApduAssumption`, `WrapperAssumption`): types of the
constants. Three say more. `OpticalAssumption`: the line of `OpticalSession` is
never late. `FramesAssumption`: a damage changes a byte; the client's frames are
those `src/hdlc.cpp` makes, an I frame with an APDU in it, of any length; a
meter's frames have numbers and addresses of the widths the format gives them,
and no more than 4080 bytes of information, since a meter that sends more has
no length field to say so.
`ApduAssumption`: secrets and titles are the eight bytes of their arrays, and no
text or size is one for which `write_size` throws (2^32 bytes and more). Nothing
is assumed of a meter's answers but that they are bytes. `WrapperAssumption`: a
meter's APDUs have lengths of 16 bits; the client's may be of any.

Only model-checked: `CallReturns`, `ReadsEnd` and `Returns`; liveness is beyond this prover.
Beyond its reach are also induction theorems with an operator for a parameter.
Where a proof goes over all bytes of a sequence, it takes the first byte at
which the claim fails (`ChecksequenceProofs`); a definition that has at most
four turns, like the reader of a length (`BigEndian`), is written as four turns.

## Where the code and its documentation disagree

1. `parse_aare` (`src/cosem.cpp:459-462`) accepts everything; its comment
   promises the result of the association. `HdlcRejected`.
2. I frames carry the control byte 0x50 each time; `src/hdlc_frame.h:22,28`
   have numbers in them, and a meter that rejects wrong ones. `HdlcSendNumbers`.
3. `get_request` may return another attribute's value. `HdlcLateGet`.
4. The header check sequence is compared at the wrong index and with the wrong
   sense (`src/hdlc_frame.cpp:173-174`). `FrameHeaderCheck`.
5. The branch for two-byte addresses is never taken (`src/hdlc_frame.cpp:28`).
   `FrameAddressShort`.

Met while modelling, and contradicting no text: `parse_snrm_response` reads the
values of the items from `buffer` where it means `frame.payload`
(`src/hdlc.cpp:131`), so the lengths agreed on are not the meter's (modelled in
`Negotiation`); `authenticate` always throws (`HdlcClient`, `Authenticate`);
`parse_get_response` takes the choice between data and error for the result;
`from_string` and `from_bytes` with any tag but two pack nothing, without a word
(`src/data_type.cpp:45-63`), so that a set request built from such a value goes
out without one, which `src/cosem.cpp:313` lists as mandatory (`DataTypes`);
`to_string` shows a string from its tag on, without its end, and believes the
length a meter gives (`src/data_type.cpp:90-93`, `DataTypes`); `write_size` gives 128 the byte 0x80,
which the tests ask for and BER keeps for lengths that are not known.

The wrapper: `get_request` never returns, because `parse` leaves the header on
(`src/wrapper.cpp:63`, `GetAlwaysThrows`; the one exception are the bytes a
stream that cuts may leave of an answer longer than 49 KB); `connect` returns
true on any whole frame; APDUs of 65528 to 65535 bytes, which the AARQ allows
the meter, are refused. The handshake: `emode_process` has no `return` although
it is declared to have a value; it ignores its second `read()` and
`desired_baudrate`. Names and values: the numbers of a name are cut
modulo 256 and a text reads as 0. Frames: an APDU of more than 4080 bytes goes
out in a frame whose length is cut to twelve bits. The AARQ: a meter that
restarts between the two exchanges of `connect` answers with DM, which passes
for an AARE for the same reason as in 1.

## Not modelled, and the plan

Not modelled: `set_request` of both clients (it names a function that does not
exist, so that no program which calls it compiles); `process_challenger` (no
caller, no effect); `to_bytes` (returns nothing); `emode.cpp` (repeats the
frames and the test of `emode.h`, no caller); formatting and logging in the
demo; the vendored test framework; the build. `OpticalSession` has no late
line: there the text answers would be read as frames and the frames as text,
and what is left is `AnswersInOrder`, as in `HdlcLate`.

Done:

1. `SerialLine`, `Meter`, `HdlcClient`, `Exchange`: the discipline of calls,
   with its theorems, for a line that is never late and for any line.
2. `HdlcFrame`, `FrameTransfer`: the codec, with the check sequence, and their
   theorems.
3. `Negotiation`, with its theorems.
4. `CosemApdu`, with `LogicalName` and `DataTypes` in it, and their theorems.
5. `WrapperFrame`, `WrapperClient`, with their theorems.
6. `OpticalSession`, with its theorems.

Left:

7. Composition: `HdlcClient` with the frames of `HdlcFrame` on the line instead
   of the abstract ones, on one session; information longer than the field
   length agreed on.
8. Theorems: that the client of such a session, with the frames' own bytes,
   implements the abstract one, which `FrameTransferProofs` prepares.
