---------------------------- MODULE MCRbacCache ----------------------------
(* A small instance of RbacCache for TLC. *)
EXTENDS RbacCache

EveryKind == AllKinds
=============================================================================
