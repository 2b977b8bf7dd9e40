------------------------------ MODULE MCHistory ------------------------------
(* The empty text and one of a character, with every cursor and anchor, and *)
(* stacks of two snapshots: a third edit finds the undo stack full.         *)
EXTENDS History

MCLength == [t \in Texts |-> IF t = "" THEN 0 ELSE 1]
=============================================================================
