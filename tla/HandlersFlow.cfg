\* Two traders, two workers, the strategy thread and the user, both handlers.
SPECIFICATION Spec
CONSTANTS
    Traders = {t1, t2}
    Workers = {w1, w2}
    Strategy = Strategy
    User = User
    Handlers = {"daily", "reinvest"}
    Quantities = {1, 2}
    MaxDays = 1
INVARIANTS TypeOK QuantityKept Accounted
SYMMETRY Symmetry
CHECK_DEADLOCK FALSE
