---------------------------- MODULE MCHdlcClient ----------------------------
(***************************************************************************)
(* Instances of HdlcClient for TLC: two attributes, so that an answer can  *)
(* be the wrong one; a granted length below and one above the proposals.   *)
(***************************************************************************)
EXTENDS HdlcClient

CONSTANTS energy, serialNumber

MCAttributes == {energy, serialNumber}

MCLimits == {64, 300}
=============================================================================
