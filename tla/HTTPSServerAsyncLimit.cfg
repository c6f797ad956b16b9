CONSTANTS
    Clients = {c1, c2, c3}
    MaxThreads = 1
SPECIFICATION Spec
INVARIANTS
    OnlyFinishedRemoved
