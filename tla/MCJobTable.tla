----------------------------- MODULE MCJobTable -----------------------------
(* Small instances of JobTable for TLC. *)
EXTENDS JobTable, TLC
Symmetry == Permutations(Pids)
=============================================================================
