------------------------------- MODULE MCRio -------------------------------
(***************************************************************************)
(* A small instance of Rio for TLC: streams of up to MaxBytes bytes.       *)
(***************************************************************************)
EXTENDS RioProperties

CONSTANT MaxBytes

MCStreams == UNION {[1 .. n -> Chars] : n \in 0 .. MaxBytes}
=============================================================================
