------------------------------ MODULE MCEngine ------------------------------
(* Pages of two rows, so that the table grows while transactions run. *)
EXTENDS Engine
=============================================================================
