CONSTANTS
    Threads = {t1, t2, t3, t4}
    Size = 2
    MaxRequests = 2
SPECIFICATION FairSpec
INVARIANTS
    TypeOK
    ConnectionsConserved
    NoSleeperWhileIdle
    IdleConnectionsClean
PROPERTIES
    EveryRequestServed
    ImplementsPool
