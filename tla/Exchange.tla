------------------------------- MODULE Exchange -------------------------------
(***************************************************************************)
(* What the request/answer discipline of the clients of yadi/dlms.h        *)
(* promises: every request is executed at most once and only while its     *)
(* call is waiting, and a call that returns an answer returns the answer   *)
(* to the very request it wrote last.  A call that fails may or may not    *)
(* have been executed, but it cannot be executed any more.                 *)
(*                                                                         *)
(* Requests are numbered in the order they are asked.                      *)
(***************************************************************************)
EXTENDS Naturals

VARIABLES
  phase,     \* of the call: "idle", "asked" (not executed yet), "served"
  asked,     \* the number of the last request
  executed,  \* the number of the last request executed, 0 for none
  result     \* the request whose answer the last call returned, 0 on failure

vars == <<phase, asked, executed, result>>

Init ==
  /\ phase = "idle"
  /\ asked = 0
  /\ executed = 0
  /\ result = 0

(* A request starts a call, or follows the answer to the previous one.     *)
Ask ==
  /\ phase \in {"idle", "served"}
  /\ phase' = "asked"
  /\ asked' = asked + 1
  /\ UNCHANGED <<executed, result>>

Execute ==
  /\ phase = "asked"
  /\ phase' = "served"
  /\ executed' = asked
  /\ UNCHANGED <<asked, result>>

Answer ==
  /\ phase = "served"
  /\ phase' = "idle"
  /\ result' = asked
  /\ UNCHANGED <<asked, executed>>

Fail ==
  /\ phase' = "idle"
  /\ result' = 0
  /\ UNCHANGED <<asked, executed>>

Next == Ask \/ Execute \/ Answer \/ Fail

Spec == Init /\ [][Next]_vars
=============================================================================
