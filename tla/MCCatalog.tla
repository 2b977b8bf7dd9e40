----------------------------- MODULE MCCatalog -----------------------------
(***************************************************************************)
(* Two databases, two names for tables and views, a data file of three     *)
(* pages and one call of the file system that fails.                       *)
(***************************************************************************)
EXTENDS Catalog, TLC

CONSTANTS d1, d2, n1, n2

MCDbNames == {d1, d2}
MCNames == {n1, n2}
Symmetry == Permutations(MCDbNames) \cup Permutations(MCNames)
=============================================================================
