--------------------------- MODULE MCPaperTrader ---------------------------
EXTENDS PaperTrader

Offer(dir, qty, type, margin) ==
    [dir |-> dir, qty |-> qty, type |-> type, margin |-> margin]

\* Orders that open, increase, reduce, empty and reverse the position, at once
\* and later, and that buy, by an order the first update removes, and sell the
\* asset.
MCOffers ==
    {Offer(Long, 1, "market", TRUE), Offer(Short, 2, "limit", TRUE),
     Offer(Short, 1, "stop", TRUE),
     Offer(Long, 1, "stop_limit", FALSE), Offer(Short, 1, "market", FALSE)}
=============================================================================
