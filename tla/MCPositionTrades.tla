-------------------------- MODULE MCPositionTrades --------------------------
EXTENDS PositionTrades, TLC

CONSTANTS t1

MCQuantity == t1 :> 4
=============================================================================
