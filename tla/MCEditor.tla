------------------------------ MODULE MCEditor ------------------------------
(***************************************************************************)
(* The editor with short texts over a letter in both cases, a blank, line  *)
(* ends, brackets and a character of two bytes; quotes pair as brackets do. *)
(***************************************************************************)
EXTENDS Editor

MCTyped == {<<"a">>, <<"(">>, <<")">>, <<Lead, Cont>>}
(* One of the pastes exceeds the limit, which cuts it, after texts of       *)
(* different lengths, between its characters and within them.              *)
MCLong == <<"\t">> \o [i \in 1 .. MaxLen + 1 |-> IF i % 2 = 1 THEN Lead ELSE Cont]
MCPastes == {<<"a", "\r", "\n">>, MCLong}
MCSearches == {[query |-> <<"a">>, case |-> TRUE, word |-> TRUE],
               [query |-> <<"a", "a">>, case |-> FALSE, word |-> FALSE]}
MCRepl == {<<Lead, Cont>>}
=============================================================================
