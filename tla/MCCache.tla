------------------------------ MODULE MCCache ------------------------------
(***************************************************************************)
(* A small instance of CacheSim for TLC.                                   *)
(***************************************************************************)
EXTENDS CacheProperties

(* Traces use all tags of set 0, and one block of the other sets.          *)
OneBlockInLaterSets == set # 0 => input_t = 0
=============================================================================
