----------------------------- MODULE MCMenuTree -----------------------------
(* Small instances of MenuTree for TLC. *)
EXTENDS MenuTree, TLC

Symmetry == Permutations(Menus) \union Permutations(Procs)
=============================================================================
