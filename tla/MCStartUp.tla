------------------------------ MODULE MCStartUp ------------------------------
(* A small instance of StartUp for TLC. *)
EXTENDS StartUp

Edited == {"sys:system:manage", "super_admin", "admin", "admin@nexuskit.com"}
=============================================================================
