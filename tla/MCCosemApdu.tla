---------------------------- MODULE MCCosemApdu ----------------------------
(***************************************************************************)
(* Instances of CosemApdu for TLC: every mechanism and security context,   *)
(* challenges of no byte, one, the default size, the 64 bytes the          *)
(* mechanisms allow at most, and the 194 a title leaves room for in an     *)
(* AARQ whose length is a byte, all of bytes that look like lengths or     *)
(* tags; names of six numbers, of others, with a dot too many or an end    *)
(* missing; texts of the lengths at which the format or the index of       *)
(* to_string changes; the edges of every form of write_size; and numbers   *)
(* with the sign bit of each byte set and clear, whole, cut and with a     *)
(* byte behind; strings that are what they say and strings that are not,   *)
(* with two kinds of bytes behind them in memory.                          *)
(***************************************************************************)
EXTENDS CosemApdu

MCTitles == {<<77, 77, 77, 0, 1, 188, 97, 78>>}

MCSecrets == {<<49, 50, 51, 52, 53, 54, 55, 56>>, <<172, 10, 128, 8, 139, 7, 190, 15>>}

MCChallengerSizes == {0, 1, 8, 64, 194}

MCRandomBytes == {0, 139, 255}

String(numbers) == [from |-> "string", parts |-> [i \in DOMAIN numbers |-> <<numbers[i]>>]]

Dotted(name) == [name EXCEPT !.parts = Append(@, <<>>)]

Short == String(<<1, 0, 1, 8, 0>>)

Energy == String(<<1, 0, 1, 8, 0, 255>>)

MCNames ==
  {Energy, Dotted(Energy), Dotted(Dotted(Energy)), Short, Dotted(Short),
   String(<<0, 0, 96, 1, 256, -1>>), String(<<1, 0, 1, 8, 0, 255, 7>>),
   [from |-> "string", parts |-> <<<<>>>>],
   [from |-> "list", parts |-> <<0, 0, 96, 1, 0, 255>>],
   [from |-> "list", parts |-> <<1, 0, 1>>], [from |-> "list", parts |-> <<>>]}

Repeated(lengths, bytes) == {[i \in 1..n |-> b] : n \in lengths, b \in bytes}

Texts ==
  Repeated({0, 1, 2, 3, 126, 127, 128, 129, 130, 254, 255, 256, 257}, {0, 49, 129, 255})
    \cup Repeated({65535, 65536}, {129})

Value(tag, text) == [tag |-> tag, text |-> text]

MCRequests ==
  [class_id : {1, 15, 256, 65535}, name : MCNames, index : {0, 2, 255},
   value : {NoValue, Value(OCTET_STRING, <<1>>), Value(UINT32, <<1>>)}]
    \cup [class_id : {1}, name : {Energy}, index : {2},
          value : {Value(tag, text) : tag \in {OCTET_STRING, CHARACTERS}, text \in Texts}]

MCSizes ==
  {0, 1, 127, 128, 129, 254, 255, 256, 257, 32768, 65535, 65536, 65537,
   16777214, 16777215, 16777216, 16777217, 2147483647}

Edges == {0, 1, 255, 256, 32768, 65535}

Numbers ==
  {SubSeq(<<UINT32, hi \div 256, hi % 256, lo \div 256, lo % 256, 0>>, 1, n) :
     hi \in Edges, lo \in Edges, n \in 1..6}

(* What a meter packs: a length of 128 already takes two bytes.            *)
MeterText(text) ==
  LET n == Len(text)
  IN  <<CHARACTERS>>
        \o (CASE n < 128 -> <<n>>
              [] n >= 128 /\ n < 256 -> <<129, n>>
              [] n >= 256 /\ n < 65536 -> <<130, n \div 256, n % 256>>
              [] OTHER -> <<131, n \div 65536, (n \div 256) % 256, n % 256>>)
        \o text

(* Strings that end early, and lengths that promise too much or too little.*)
MisstatedTexts ==
  {SubSeq(MeterText([i \in 1..5 |-> 49]), 1, n) : n \in 1..6}
    \cup {SubSeq(MeterText([i \in 1..size |-> 49]), 1, n) : size \in {128, 256}, n \in {3, 128, 129}}
    \cup {<<CHARACTERS, n>> \o text : n \in {0, 1, 3, 4, 128, 129, 132, 255},
                                     text \in {<<>>, <<49>>, <<49, 49>>}}

(* A meter may leave a value out.                                          *)
MCAnswers ==
  [choice : {0},
   data : {<<>>, <<0>>} \cup Numbers \cup {MeterText(text) : text \in Texts} \cup MisstatedTexts]
    \cup [choice : {1}, data : {<<1>>, <<3>>, <<250>>}]

MCMemory == {[i \in 1..255 |-> b] : b \in {0, 49}}
=============================================================================
