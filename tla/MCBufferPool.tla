---------------------------- MODULE MCBufferPool ----------------------------
(* Two frames over a file of three pages and the reserved page 0: every    *)
(* fetch of a third page evicts, and the file fills up.                    *)
EXTENDS BufferPool
=============================================================================
