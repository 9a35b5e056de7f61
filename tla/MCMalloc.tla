------------------------------ MODULE MCMalloc ------------------------------
(***************************************************************************)
(* Small instances of the allocator for TLC.  The blocks of a trace are    *)
(* interchangeable.                                                        *)
(***************************************************************************)
EXTENDS HeapProperties

LOCAL INSTANCE TLC

IdsSymmetry == Permutations(Ids)

(* The traces after the first one hold one block at a time.                *)
OneBlockInLaterTraces ==
    traces > 1 => \A i, j \in Ids : block[i] # NoBlock /\ block[j] # NoBlock => i = j
=============================================================================
