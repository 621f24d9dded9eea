----------------------------- MODULE LogicalName -----------------------------
(***************************************************************************)
(* The logical names of src/logical_name.cpp, which say what object a      *)
(* request is about: six bytes, given as numbers with dots between them or *)
(* as a list.                                                              *)
(*                                                                         *)
(* A string is the sequence of what stands before, between and behind its  *)
(* dots: <<>> for nothing, <<n>> for a text atoi reads the number n in,    *)
(* <<0>> for one it finds no number in.                                    *)
(***************************************************************************)
EXTENDS Integers, Sequences, SequencesExt

Part == {part \in Seq(Int) : Len(part) <= 1}

(* getline gives no token behind the last dot, nor for an empty string.    *)
Tokens(parts) == IF Last(parts) = <<>> THEN Front(parts) ELSE parts

atoi(token) == IF token = <<>> THEN 0 ELSE token[1]

(* The constructors throw.                                                 *)
InvalidName == <<>>

(* Mutant: the tokens are not counted.                                     *)
FromStringUncounted(parts) ==
  LET tokens == Tokens(parts) IN [i \in DOMAIN tokens |-> atoi(tokens[i]) % 256]

(* Every number is cut to a byte.                                          *)
FromString(parts) ==
  LET tokens == Tokens(parts)
  IN  IF Len(tokens) # 6 THEN InvalidName
      ELSE [i \in 1..6 |-> atoi(tokens[i]) % 256]

FromList(list) == IF Len(list) # 6 THEN InvalidName ELSE list

(* A name as the application gives it.                                     *)
NameOf(name) == IF name.from = "string" THEN FromString(name.parts) ELSE FromList(name.parts)
=============================================================================
