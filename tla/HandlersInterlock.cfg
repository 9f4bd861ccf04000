\* The daily limit, shared by two traders that two workers update.
SPECIFICATION FairSpec
CONSTANTS
    Traders = {t1, t2}
    Workers = {w1, w2}
    Strategy = Strategy
    User = User
    Handlers = {"daily"}
    Quantities = {1}
    MaxDays = 0
PROPERTY UpdateEnds
