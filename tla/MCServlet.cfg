CONSTANTS
    Streams <- MCStreams
    BufferSize = 4
SPECIFICATION FairSpec
INVARIANTS
    TypeOK
    RequestsFramed
    RepliesInOrder
    
    AllAnswered
PROPERTIES
    ConnectionCloses
