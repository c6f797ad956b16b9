CONSTANTS
    Workers = {w1, w2}
    Clients = {c1, c2, c3}
    NoClient = NoClient
SPECIFICATION FairSpec
INVARIANTS
    TypeOK
    InOnePlace
    DrainedBeforeReturn
    NoSleeperAfterStop
    NoLostWakeup
PROPERTIES
    EveryAcceptedServed
    KillStopsServer
