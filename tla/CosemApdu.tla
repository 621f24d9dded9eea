------------------------------ MODULE CosemApdu ------------------------------
(***************************************************************************)
(* The APDUs of src/cosem.cpp, byte by byte: the AARQ with its nested      *)
(* lengths, the three requests, and the response parse_get_response takes. *)
(* The names in a request are those of module LogicalName, the values in   *)
(* it and in a response those of module DataTypes.                         *)
(*                                                                         *)
(* A meter reads what the client wrote, as the notation in the comments of *)
(* that file lays it out, one field a step; the client shows what it reads *)
(* out of the meter's answer.                                              *)
(***************************************************************************)
EXTENDS LogicalName, DataTypes

CONSTANTS
  Titles,          \* system titles, 8 bytes each
  Secrets,         \* passwords, 8 bytes each
  ChallengerSizes, \* challenger_size
  RandomBytes,     \* what the generator of src/security.cpp may yield
  Requests,        \* the requests an application may make
  Answers,         \* what a meter may answer to a get request
  Memory,          \* what may be found at an index beyond the end of a vector
  Sizes            \* the lengths that are written on their own

Mechanisms == 0..7   \* AuthenticationMechanism
LOWEST == 0
LLS == 1
HLS_GMAC == 5

SecurityContexts == {"NONE", "AUTHENTICATION", "ENCRYPTION", "AUTHENTICATION_ENCRYPTION"}

CosemParameters ==
  [authentication : Mechanisms, security : SecurityContexts, system_title : Titles,
   secret : Secrets, challenger_size : ChallengerSizes]

(* What an application makes a request from: a name, and the text and the  *)
(* tag its data are packed from.  No text and no tag: no data.             *)
NoValue == [tag |-> 0, text |-> <<>>]

RequestType ==
  [class_id : Half, name : [from : {"string"}, parts : Seq(Part)]
                                 \cup [from : {"list"}, parts : Seq(Byte)],
   index : Byte, value : [tag : DataType, text : Seq(Byte)]]

(* A meter answers with a value, 0, or an error code, 1.                   *)
AnswerType == [choice : {0, 1}, data : Seq(Byte)]

ASSUME ApduAssumption ==
  /\ Titles \subseteq Seq(Byte) /\ \A t \in Titles : Len(t) = 8
  /\ Secrets \subseteq Seq(Byte) /\ \A s \in Secrets : Len(s) = 8
  /\ ChallengerSizes \subseteq Nat
  /\ RandomBytes \subseteq Byte
  /\ Requests \subseteq RequestType
  /\ \A r \in Requests : r.name.from = "string" => r.name.parts # <<>>
  /\ \A r \in Requests : Writable(Len(r.value.text))
  /\ Answers \subseteq AnswerType
  /\ Memory \subseteq [1..255 -> Byte]
  /\ \A size \in Sizes : Writable(size)

VARIABLES
  pc,      \* "start", "thrown", "shown", "crashed", or what has been written:
           \* "aarq", "get", "set", "action", "answer" or "size"
  meant,   \* what it was built from: parameters, a request, an answer, a size
  apdu,    \* its bytes
  offset,  \* of the meter that reads an AARQ field by field
  fields,  \* the fields it has read: their tags and their values
  shown    \* what to_string made of an answer's data

vars == <<pc, meant, apdu, offset, fields, shown>>

-----------------------------------------------------------------------------
(* serialize_aarq.                                                         *)

ProtocolVersion == <<128, 2, 7, 128>>

ApplicationContextName(p) ==
  <<161, 9, 6, 7, 96, 133, 116, 5, 8, 1, IF p.security = "NONE" THEN 1 ELSE 3>>

(* Mutant: the title goes with ciphering only.                             *)
TitleForSecurity(p) == p.security # "NONE"

HasTitle(p) == p.security # "NONE" \/ p.authentication = HLS_GMAC

CallingApTitle(p) ==
  IF HasTitle(p)
  THEN <<166, (Len(p.system_title) + 2) % 256, 6, Len(p.system_title) % 256>>
         \o p.system_title
  ELSE <<>>

(* Mutant: the two bytes of the inner tag and length are not counted.      *)
ValueBare(value) == <<172, Len(value) % 256, 128, Len(value) % 256>> \o value

AuthenticationValue(value) ==
  <<172, (Len(value) + 2) % 256, 128, Len(value) % 256>> \o value

(* Mutant: the requirements come behind the mechanism they announce.       *)
MechanismFirst(p, value) ==
  IF p.authentication = LOWEST THEN <<>>
  ELSE <<139, 7, 96, 133, 116, 5, 8, 2, p.authentication, 138, 2, 7, 128>>
         \o AuthenticationValue(value)

(* sender-acse-requirements, mechanism-name, calling-authentication-value. *)
Authentication(p, value) ==
  IF p.authentication = LOWEST THEN <<>>
  ELSE <<138, 2, 7, 128>>
         \o <<139, 7, 96, 133, 116, 5, 8, 2, p.authentication>>
         \o AuthenticationValue(value)

UserInformation == <<190, 15, 4, 13, 1, 0, 0, 0, 6, 95, 4, 0, 184, 56, 0, 255, 255>>

(* The size, filled in at the end, is cut to a byte like the others.       *)
serialize_aarq(p, challenge) ==
  LET value == IF p.authentication = LLS THEN p.secret ELSE challenge
      body == ProtocolVersion \o ApplicationContextName(p) \o CallingApTitle(p)
                \o Authentication(p, value) \o UserInformation
  IN  <<96, Len(body) % 256>> \o body

(* generate_challenger: as many bytes as it is asked for, of any value.    *)
Challenges(size) == {[i \in 1..size |-> b] : b \in RandomBytes}

-----------------------------------------------------------------------------
(* The requests.                                                           *)

Tag == [get |-> 192, set |-> 193, action |-> 195]

(* Mutant: the class is pushed as one number.                              *)
DescriptorWide(req) ==
  <<193, 0, req.class_id>> \o req.logical_name \o <<req.index>>

(* The invoke id is 1 in every request, confirmed, with high priority.     *)
Descriptor(req) ==
  <<193, req.class_id \div 256, req.class_id % 256>> \o req.logical_name \o <<req.index>>

(* Whether selective access (get) or parameters (action) follow.           *)
Presence(req) == IF req.data = <<>> THEN 0 ELSE 1

serialize_get_request(req) ==
  <<Tag.get, 1>> \o Descriptor(req) \o <<Presence(req)>> \o req.data

(* No selective access, and then the value.                                *)
serialize_set_request(req) ==
  <<Tag.set, 1>> \o Descriptor(req) \o <<0>> \o req.data

serialize_action_request(req) ==
  <<Tag.action, 1>> \o Descriptor(req) \o <<Presence(req)>> \o req.data

-----------------------------------------------------------------------------
(* parse_get_response: the fourth byte for the result, the rest for data.  *)

InvalidCosemFrame == [result |-> -1, data |-> <<>>]

(* Mutant: the data begin with the byte that is the result.                *)
ResponseWithChoice(bytes) ==
  IF Len(bytes) < 4 \/ bytes[1] # 196 \/ bytes[2] # 1 THEN InvalidCosemFrame
  ELSE [result |-> bytes[4], data |-> SubSeq(bytes, 4, Len(bytes))]

parse_get_response(bytes) ==
  IF Len(bytes) < 4 \/ bytes[1] # 196 \/ bytes[2] # 1 THEN InvalidCosemFrame
  ELSE [result |-> bytes[4], data |-> SubSeq(bytes, 5, Len(bytes))]

-----------------------------------------------------------------------------
(* A meter's Get-Response-Normal, and its reading of a request.            *)
GetResponse(answer) == <<196, 1, 193, answer.choice>> \o answer.data

(* The optional part of a get or an action is announced by a 1; that of a  *)
(* set is a selective access, which no request of this client has.         *)
Readable(kind, bytes) ==
  /\ Len(bytes) >= 13
  /\ bytes[1] = Tag[kind]
  /\ bytes[13] \in {0, 1}
  /\ kind = "set" => bytes[13] = 0
  /\ kind # "set" => (bytes[13] = 0 <=> Len(bytes) = 13)

ClassRead(bytes) == 256 * bytes[4] + bytes[5]
NameRead(bytes) == SubSeq(bytes, 6, 11)
IndexRead(bytes) == bytes[12]
DataRead(bytes) == SubSeq(bytes, 14, Len(bytes))

Init ==
  /\ pc = "start"
  /\ meant = <<>>
  /\ apdu = <<>>
  /\ offset = 0
  /\ fields = <<>>
  /\ shown = Text(<<>>)

WriteAarq ==
  /\ pc = "start"
  /\ \E p \in CosemParameters :
       /\ meant' = p
       /\ \E challenge \in Challenges(p.challenger_size) :
            apdu' = serialize_aarq(p, challenge)
  /\ pc' = "aarq"
  /\ offset' = 2
  /\ UNCHANGED <<fields, shown>>

AarqRead == offset + 2 > Len(apdu)

(* A tag, a length and as many bytes as there are of the value.            *)
ReadField ==
  /\ pc = "aarq"
  /\ ~AarqRead
  /\ LET end == offset + 2 + apdu[offset + 2]
     IN  /\ offset' = end
         /\ fields' = Append(fields,
              [tag |-> apdu[offset + 1],
               value |-> SubSeq(apdu, offset + 3, IF end > Len(apdu) THEN Len(apdu) ELSE end)])
  /\ UNCHANGED <<pc, meant, apdu, shown>>

(* Request{class, name, index, data}: a name that is no name throws before *)
(* there is a request.                                                     *)
Built(args) ==
  [class_id |-> args.class_id, logical_name |-> NameOf(args.name), index |-> args.index,
   data |-> from_bytes(args.value.text, args.value.tag)]

Misname ==
  /\ pc = "start"
  /\ \E args \in Requests :
       /\ NameOf(args.name) = InvalidName
       /\ meant' = args
  /\ pc' = "thrown"
  /\ UNCHANGED <<apdu, offset, fields, shown>>

WriteRequest ==
  /\ pc = "start"
  /\ \E args \in Requests :
       /\ NameOf(args.name) # InvalidName
       /\ meant' = args
       /\ \/ pc' = "get" /\ apdu' = serialize_get_request(Built(args))
          \/ pc' = "set" /\ apdu' = serialize_set_request(Built(args))
          \/ pc' = "action" /\ apdu' = serialize_action_request(Built(args))
  /\ UNCHANGED <<offset, fields, shown>>

(* A length on its own, for the forms no text of this model is long enough *)
(* to need.                                                                *)
WriteSize ==
  /\ pc = "start"
  /\ \E size \in Sizes :
       /\ meant' = size
       /\ apdu' = write_size(size)
  /\ pc' = "size"
  /\ UNCHANGED <<offset, fields, shown>>

MeterAnswers ==
  /\ pc = "start"
  /\ \E answer \in Answers :
       /\ meant' = answer
       /\ apdu' = GetResponse(answer)
  /\ pc' = "answer"
  /\ UNCHANGED <<offset, fields, shown>>

(* As demo/main.cpp does it: the data of a successful response are shown.  *)
(* A read beyond them is undefined behaviour: it finds what is there, or   *)
(* ends the program.                                                       *)
Show ==
  /\ pc = "answer"
  /\ parse_get_response(apdu).result = 0
  /\ LET data == parse_get_response(apdu).data
     IN  \/ /\ \E memory \in Memory : shown' = to_string(data, memory)
            /\ pc' = "shown"
         \/ /\ LastRead(data) > Len(data)
            /\ pc' = "crashed"
            /\ UNCHANGED shown
  /\ UNCHANGED <<meant, apdu, offset, fields>>

(* The next one, by a program that is started again if it had crashed.     *)
Done ==
  /\ \/ pc \in {"get", "set", "action", "size", "thrown", "shown", "crashed"}
     \/ pc = "aarq" /\ AarqRead
     \/ pc = "answer" /\ parse_get_response(apdu).result # 0
  /\ pc' = "start"
  /\ meant' = <<>>
  /\ apdu' = <<>>
  /\ offset' = 0
  /\ fields' = <<>>
  /\ shown' = Text(<<>>)

Next ==
  \/ WriteAarq
  \/ ReadField
  \/ Misname
  \/ WriteRequest
  \/ WriteSize
  \/ MeterAnswers
  \/ Show
  \/ Done

Spec == Init /\ [][Next]_vars

-----------------------------------------------------------------------------
(* Whatever it was built from, an APDU is a sequence of bytes, and what is *)
(* shown is a text, of bytes that may not all be the meter's, a number of  *)
(* 32 bits or underflow_error.                                             *)
TypeOK ==
  /\ pc \in {"start", "aarq", "get", "set", "action", "answer", "size", "thrown", "shown",
             "crashed"}
  /\ apdu \in Seq(Byte)
  /\ offset \in Nat
  /\ \A i \in DOMAIN fields : fields[i].tag \in Byte /\ fields[i].value \in Seq(Byte)
  /\ \/ shown = Underflow
     \/ shown.result = "number" /\ shown.number \in Half \X Half
     \/ shown.result = "text" /\ shown.text \in Seq(Byte)

(* The lengths of the AARQ fit one another: the whole (updated at the end, *)
(* cosem.cpp:247) ends with the bytes, every field within them, and the    *)
(* last one where they end.  The values with a tag and a length of their   *)
(* own, the title, the authentication value and the user information, are  *)
(* filled by them.                                                         *)
Nested(field) == field.tag \in {161, 166, 172, 190}

LengthsFit ==
  pc = "aarq" =>
    /\ apdu[2] = Len(apdu) - 2
    /\ offset <= Len(apdu)
    /\ AarqRead => offset = Len(apdu)
    /\ \A i \in DOMAIN fields : Nested(fields[i]) =>
         LET value == fields[i].value IN Len(value) >= 2 /\ value[2] = Len(value) - 2

(* The fields come in the order of the comment on serialize_aarq, each at  *)
(* most once: their context numbers rise.                                  *)
FieldsInOrder ==
  \A i, j \in DOMAIN fields : i < j => fields[i].tag % 32 < fields[j].tag % 32

(* The requirements, the mechanism and its value are in the AARQ together, *)
(* when the authentication functional unit is selected (the comment again),*)
(* and whoever needs the client's title to authenticate or decipher, GMAC  *)
(* and every security but NONE, finds it.                                  *)
Present(number) == \E i \in DOMAIN fields : fields[i].tag % 32 = number

AuthenticationAnnounced ==
  pc = "aarq" /\ offset = Len(apdu) =>
    /\ \A number \in {10, 11, 12} : Present(number) <=> meant.authentication # LOWEST
    /\ Present(6) <=> meant.security # "NONE" \/ meant.authentication = HLS_GMAC

(* The meter reads the request the application made: its class, its index  *)
(* and a name of six numbers, all in their places, though the application  *)
(* may have given it more dots or fewer.  Each number is the one it gave,  *)
(* unless that is none of a byte.                                          *)
SamePart(part, byte) == part # <<>> /\ part[1] \in Byte => byte = part[1]

NameUnderstood(name, bytes) ==
  \A i \in 1..6 :
    /\ i \in DOMAIN name.parts
    /\ \/ name.from = "list" /\ bytes[i] = name.parts[i]
       \/ name.from = "string" /\ SamePart(name.parts[i], bytes[i])

RequestUnderstood ==
  pc \in {"get", "set", "action"} =>
    /\ Readable(pc, apdu)
    /\ ClassRead(apdu) = meant.class_id
    /\ IndexRead(apdu) = meant.index
    /\ NameUnderstood(meant.name, NameRead(apdu))

(* The value in a request is read back where the meter looks for it: the   *)
(* tag, the text and nothing after it, which is where the next field of a  *)
(* longer APDU would be.                                                   *)
PackedReadable ==
  pc \in {"get", "set", "action"} /\ DataRead(apdu) # <<>> =>
    LET value == DataRead(apdu)
        behind == Tail(value)
        start == SizeBytes(behind) + 1
    IN  /\ value[1] = meant.value.tag
        /\ SubSeq(behind, start, start + ReadSize(behind) - 1) = meant.value.text
        /\ Len(behind) = start + ReadSize(behind) - 1

(* A length write_size writes is read as the size it was written for, from *)
(* as many bytes as it says it has: the forms do not overlap at 128, 255,  *)
(* 65535 and 16777215.                                                     *)
SizeReadable ==
  pc = "size" => SizeBytes(apdu) = Len(apdu) /\ ReadSize(apdu) = meant

(* SUCCESS means data, and just the data the meter sent.                   *)
SuccessIsData ==
  pc = "answer" =>
    LET response == parse_get_response(apdu)
    IN  /\ response.result = 0 <=> meant.choice = 0
        /\ response.result = 0 => response.data = meant.data

(* A meter's string is misstated when it is not as long as its length      *)
(* says, or spends a longer form of the length on one that needs none.     *)
WellStated(sized) ==
  LET room == Len(sized) - SizeBytes(sized)
  IN  /\ room >= 0
      /\ ReadSize(sized) = room
      /\ SizeBytes(sized) > 1 => room >= 128

Misstated(data) ==
  Len(data) >= 2 /\ data[1] = CHARACTERS /\ ~WellStated(Tail(data))

(* to_string does read beyond the data of a response, and may crash of it, *)
(* but never of a number, however it was cut, nor of a string that is what *)
(* it says, although of a longer length it takes the first byte, 129 to    *)
(* 132, for the length itself: only a misstated string leads it there.     *)
OverrunMeansMisstated ==
  /\ pc = "answer" /\ parse_get_response(apdu).result = 0 =>
       LET data == parse_get_response(apdu).data
       IN  LastRead(data) > Len(data) => Misstated(data)
  /\ pc = "crashed" => Misstated(meant.data)

(* A number is shown as the meter meant it, all 32 bits of it whatever may *)
(* follow, or, cut, is refused, unless nothing of it is there.             *)
NumberShown ==
  pc = "shown" /\ meant.data # <<>> /\ meant.data[1] = UINT32 =>
    shown = CASE Len(meant.data) >= 5 ->
                   Number(<<BigEndian(SubSeq(meant.data, 2, 3)),
                            BigEndian(SubSeq(meant.data, 4, 5))>>)
              [] Len(meant.data) \in 2..4 -> Underflow
              [] OTHER -> Text(<<>>)
=============================================================================
