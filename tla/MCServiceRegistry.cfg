CONSTANTS
    Workers = {w1}
    Requests <- MCRequests
    Uris = {"u1", "u2"}
    MaxRequests = 3
    MaxFailures = 1
SPECIFICATION Spec
INVARIANTS
    TypeOK
    
    RegisteredIsUsable
    

    
    
