CONSTANTS
    Clients = {c1, c2, c3}
    MaxThreads = 4
SPECIFICATION FairSpec
INVARIANTS
    TypeOK
    OnlyFinishedRemoved
    GracefulExit
PROPERTIES
    EveryAcceptedServed
    SignalStopsServer
