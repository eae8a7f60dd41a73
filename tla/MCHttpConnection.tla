------------------------- MODULE MCHttpConnection -------------------------
(* Two contexts, as the default argument of the pool has it.               *)
EXTENDS HttpConnection
MCSize == 2
=============================================================================
