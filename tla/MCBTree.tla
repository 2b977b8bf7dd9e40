------------------------------ MODULE MCBTree ------------------------------
(***************************************************************************)
(* A tree of order 2 under five keys: enough for a leaf to split, for an   *)
(* inner node to split and for the root to split twice.                    *)
(***************************************************************************)
EXTENDS BTree

MCKeys == 1 .. 5
MCSymmetry == Permutations(Vals)
=============================================================================
