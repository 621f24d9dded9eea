--------------------------- MODULE MCWrapperClient ---------------------------
(***************************************************************************)
(* Instances of WrapperClient for TLC, with the APDUs of                   *)
(* test/test_cosem.cpp and answers a meter gives to them: an association   *)
(* accepted and one rejected, a number, an error, and a text long enough   *)
(* for the length to need two bytes.                                       *)
(***************************************************************************)
EXTENDS WrapperClient

MCPorts == [w_port_source |-> 16, w_port_destination |-> 257]

MCAarq ==
  <<96, 32, 128, 2, 7, 128, 161, 9, 6, 7, 96, 133, 116, 5, 8, 1, 1, 190, 15, 4,
    13, 1, 0, 0, 0, 6, 95, 4, 0, 184, 56, 0, 255, 255>>

(* A get request of the shortest form, and two with parameters of an       *)
(* access selection: the first is one byte too long for the sum of 16 bits *)
(* in wrapper_frame_complete, the second for the length field too.         *)
MCGets ==
  {<<192, 1, 193, 0, 1, 1, 0, 1, 8, 0, 255, 2, 0>>}
    \cup {<<192, 1, 193, 0, 1, 1, 0, 1, 8, 0, 255, 2, 1>> \o [i \in 1..(n - 13) |-> 196] :
            n \in {65528, 65537}}

Aare(result) ==
  <<97, 41, 161, 9, 6, 7, 96, 133, 116, 5, 8, 1, 1, 162, 3, 2, 1, result, 163, 5,
    161, 3, 2, 1, 0, 190, 16, 4, 14, 8, 0, 6, 95, 31, 4, 0, 0, 16, 29, 255, 255, 0, 7>>

MCAares == {Aare(0), Aare(1)}

MCResponses ==
  {<<196, 1, 193, 0, 6, 0, 17, 34, 51>>, <<196, 1, 193, 1, 3>>,
   <<196, 1, 193, 0, 10, 129, 248>> \o [i \in 1..248 |-> 48 + (i % 10)]}

MCMeterPorts == <<0, 16, 1, 1>>

MCCuts == {3, 8}
=============================================================================
