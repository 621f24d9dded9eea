-------------------------- MODULE MCOpticalSession --------------------------
(***************************************************************************)
(* Instances of OpticalSession for TLC: one attribute and one granted      *)
(* length, as the order of the calls is what matters, and frames enough    *)
(* for two handshakes, or one, a connect and a read after it.              *)
(***************************************************************************)
EXTENDS OpticalSession

CONSTANT energy

MCAttributes == {energy}

MCLimits == {64}
=============================================================================
