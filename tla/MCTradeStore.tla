---------------------------- MODULE MCTradeStore ----------------------------
EXTENDS TradeStore, TLC
CONSTANTS a, b, c, m1, m2

MCMarketOf == (a :> m1) @@ (b :> m1) @@ (c :> m2)
MCOneMarket == (a :> m1)
=============================================================================
