----------------------------- MODULE MCSession -----------------------------
(* Scripts of up to three statements, any number of runs. *)
EXTENDS Session
=============================================================================
