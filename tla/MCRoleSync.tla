------------------------------ MODULE MCRoleSync ------------------------------
(* Small instances of RoleSync for TLC. *)
EXTENDS RoleSync, TLC

OwnCodes == Codes \ Foreign
Bound(S, again) == [perms |-> S, twice |-> again]
Nothing  == Bound({}, FALSE)
AllKnown == Bound(Known, FALSE)

(* Reports: no role, one or two with all active nodes, one that names its  *)
(* nodes twice and one that is not active, one that takes another app's    *)
(* code.  Administrators bind nothing, more than the active nodes, or a    *)
(* node twice.                                                             *)
FirstCode   == CHOOSE c \in OwnCodes : TRUE
SomeReports == UNION {[S -> {AllKnown}] : S \in {{}, {FirstCode}, OwnCodes}}
               \union [{FirstCode} -> {Bound(Perms, TRUE)}]
               \union [Foreign -> {AllKnown}]
SomeRebinds == {Nothing, Bound(Perms, FALSE), Bound(Known, TRUE)}

Symmetry == Permutations(Procs) \union Permutations(Ids)
===============================================================================
