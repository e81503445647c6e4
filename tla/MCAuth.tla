-------------------------------- MODULE MCAuth --------------------------------
(* Instances of AuthSystem for TLC. *)
EXTENDS AuthSystem
=============================================================================
