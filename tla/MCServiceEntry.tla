--------------------------- MODULE MCServiceEntry ---------------------------
(* A small instance of ServiceEntry for TLC. *)
EXTENDS ServiceEntry

Paths == {<<"datahub", "auth", "login">>, <<"identity", "roles">>, <<"identity", "internal">>}
Offsets == {-1, 1}

Symmetry == Permutations(Procs) \union Permutations(Calls)
=============================================================================
