\* A strategy thread and the trader's thread on one market, with orders the update
\* keeps until their price is reached and one it does not.
SPECIFICATION FairSpec
CONSTANTS
    Clients = {c1}
    Trader = Trader
    Offers <- MCOffers
    MaxOrders = 3
INVARIANTS
    TypeOK
    ExecutedOnce
    NetPosition
    Answered
PROPERTY TriggeredServed
