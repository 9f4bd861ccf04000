SPECIFICATION FairSpec
CONSTANTS
    t1 = t1
    t2 = t2
    Trades = {t1, t2}
    Quantity <- MCQuantity
    MaxOrders = 3
    MaxReports = 2
    Directions = {"short"}
    Outside = TRUE
    ApiFaults = {"refused", "lost", "blind", "unknown", "rejected"}
INVARIANTS
    TypeOK
    BooksMatch
    NeverMore
    
    ExitCovers
 
CHECK_DEADLOCK FALSE
