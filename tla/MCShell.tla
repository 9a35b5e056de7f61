------------------------------ MODULE MCShell ------------------------------
(* Small instances of Shell for TLC. *)
EXTENDS ShellProperties
Symmetry  == Permutations(Pids)
=============================================================================
