CONSTANTS
    Workers = {w1, w2}
    Requests <- Registrations
    Uris = {"u1", "u2"}
    MaxRequests = 2
    MaxFailures = 0
SPECIFICATION Spec
INVARIANT DispatchNoexcept
