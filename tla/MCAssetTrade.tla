---------------------------- MODULE MCAssetTrade ----------------------------
(***************************************************************************)
(* Instances of AssetTrade for TLC: the commissions of the runs.           *)
(***************************************************************************)
EXTENDS AssetTrade

\* The commission is taken in the quote currency (or in a third asset)
NoFee == [k \in FillSizes |-> 0]
=============================================================================
