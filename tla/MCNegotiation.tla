---------------------------- MODULE MCNegotiation ----------------------------
(***************************************************************************)
(* Instances of Negotiation for TLC: every information field of up to four *)
(* bytes after the two that make it usable, over bytes that are an id, a   *)
(* width (present, absent, too large) or a value.                          *)
(***************************************************************************)
EXTENDS Negotiation, SequencesExt

MCBytes == {0, 2, 3, 5, 6, 200}

MCPayloads ==
  {<<128, 129>> \o s : s \in BoundedSeq(MCBytes, 4)}
    \cup {<<128>>, <<5, 2, 0, 64>>, <<128, 129, 5, 2, 1, 0, 6, 2, 1, 0>>,
          <<128, 129, 5, 3, 1, 0, 0, 6, 3, 1, 0, 0>>}

(* The header of a UA with a server address of four bytes or of two; its   *)
(* first three bytes are before all that is read for a value.              *)
MCHeaders ==
  {<<126, 160, 30, 3, 0, 2, 254, 255, 115, 17, 34>>,
   <<126, 160, 28, 3, 2, 255, 115, 17, 34>>}

MCContexts == {[tx |-> 128, rx |-> 128], [tx |-> 7, rx |-> 900]}

(* The limits of the encoding, and lengths below and above what the bytes  *)
(* of a frame can say.                                                     *)
MCProposals ==
  {[tx |-> 127, rx |-> 50000], [tx |-> 128, rx |-> 255], [tx |-> 256, rx |-> 129],
   [tx |-> 1, rx |-> 257], [tx |-> 0, rx |-> 65535]}
=============================================================================
