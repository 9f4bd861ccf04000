--------------------------- MODULE MCMarginTrades ---------------------------
(* Two trades of one market, the first of two lots. *)
EXTENDS MarginTrades, TLC

CONSTANTS t1, t2

MCQuantity == t1 :> 2 @@ t2 :> 1
=============================================================================
