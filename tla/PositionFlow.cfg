\* One trade of four lots: the trades share the thread of the paper trader only.
SPECIFICATION FairSpec
CONSTANTS
    t1 = t1
    Paper = Paper
    Trades = {t1}
    Quantity <- MCQuantity
    OrderTypes = {"market", "limit"}
    Brackets = {"limit"}
INVARIANTS TypeOK Agreed
PROPERTY CloseEnds
CHECK_DEADLOCK FALSE
