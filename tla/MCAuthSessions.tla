--------------------------- MODULE MCAuthSessions ---------------------------
(* Small instances of AuthSessions for TLC. *)
EXTENDS AuthSessions, TLC

(* Pairs are interchangeable, and so are requests: neither is ever named.  *)
PairSymmetry == Permutations(Pairs)
Symmetry == PairSymmetry \union Permutations(Procs)
=============================================================================
