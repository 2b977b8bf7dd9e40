------------------------------ MODULE MCTable ------------------------------
(***************************************************************************)
(* Keys 1 to 3, two texts; INSERTs of one row and of two, with and without *)
(* keys; UPDATEs that move all keys up by one or mirror them.              *)
(***************************************************************************)
EXTENDS Table

CONSTANT a

Row(i, x) == [id |-> i, v |-> x]
MCBatches == {<<Row(Null, a)>>,
              <<Row(2, a), Row(Null, a)>>, <<Row(1, a), Row(1, a)>>}
MCWheres == {[col |-> "all", val |-> Null], [col |-> "id", val |-> 1],
             [col |-> "v", val |-> a]}
MCSets == {[id |-> "next", v |-> "keep"], [id |-> "flip", v |-> Null]}
=============================================================================
