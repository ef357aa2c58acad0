----------------------------- MODULE MCAppAccess -----------------------------
(* A small instance of AppAccess for TLC. *)
EXTENDS AppAccess, TLC

Symmetry == Permutations(Procs)
=============================================================================
