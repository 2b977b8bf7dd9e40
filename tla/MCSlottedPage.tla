--------------------------- MODULE MCSlottedPage ---------------------------
(* SlottedPage on a page of 12 bytes, see the .cfg.                        *)
EXTENDS SlottedPage
=============================================================================
