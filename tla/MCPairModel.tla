----------------------------- MODULE MCPairModel -----------------------------
(* One pair of receivers; Pair.cfg gives the bounds.                          *)
EXTENDS PairModel
===============================================================================
