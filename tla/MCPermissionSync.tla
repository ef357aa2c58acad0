-------------------------- MODULE MCPermissionSync --------------------------
(* A small instance of PermissionSync for TLC. *)
EXTENDS PermissionSync, TLC

CONSTANTS c1, c2, c3, f1, f2

(* Reports about a chain of three codes: all of it; all of it with the     *)
(* lowest at the root and in other columns; the top only; the chain        *)
(* without its middle; the chain without its top.                          *)
Chain(S)     == [c \in S |-> [parent |-> CASE c = c1 -> NoCode [] c = c2 -> c1 [] c = c3 -> c2,
                              fields |-> f1]]
ChainReports == {Chain(Codes), Chain({c1}), Chain({c1, c3}), Chain({c2, c3}),
                 [Chain(Codes) EXCEPT ![c3] = [parent |-> NoCode, fields |-> f2]]}
=============================================================================
