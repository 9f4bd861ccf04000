SPECIFICATION Spec
CONSTANTS
    Workers = {w1, w2}
    Traders = {t1, t2}
    Ticking = {t1}
    Watched = {w1}
    MaxSteps = 2
    MaxQueue = 1
    Manual = Manual
    None = None
CHECK_DEADLOCK FALSE
INVARIANTS TypeOK
PROPERTIES StepsInOrder JobsServed TerminateEnds HungIsReported
