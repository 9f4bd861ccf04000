------------------------- MODULE MCStrategyProcess -------------------------
(* Instances of StrategyProcess for TLC.                                   *)
EXTENDS StrategyProcess

=============================================================================
