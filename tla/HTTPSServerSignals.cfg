CONSTANTS
    Workers = {w1, w2}
    Clients = {c1, c2}
    NoClient = NoClient
SPECIFICATION SignalSpec
CHECK_DEADLOCK FALSE
INVARIANTS
    GracefulExit
