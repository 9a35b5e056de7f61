---------------------------- MODULE MCProcessors ----------------------------
(***************************************************************************)
(* A small instance of Processors for TLC, on the programs of              *)
(* Programs.                                                               *)
(***************************************************************************)
EXTENDS Processors, Programs
=============================================================================
