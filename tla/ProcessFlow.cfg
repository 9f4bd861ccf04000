\* Two workers, one restart, one recheck, one failing initialization.
SPECIFICATION FairSpec
CONSTANTS
    Workers = {w1, w2}
    MaxJobs = 2
    MaxRestarts = 1
    MaxRechecks = 1
    MaxFailures = 1
INVARIANTS
    TypeOK
    OneAtATime
    WarmUp
    NothingForgotten
PROPERTY
    Bootstrapped
\* The strategy trader may have nothing left to do.
CHECK_DEADLOCK FALSE
