SPECIFICATION FairSpec
CONSTANTS
    Requests = {r1, r2}
    Commands = {c1, c2}
    Operation <- MCOperation
    Due = due
    Capacity = 1
    MaxLives = 2
INVARIANTS
    GracefulCutsNoneOff
PROPERTIES
    SignalEndsDaemon
CHECK_DEADLOCK FALSE
