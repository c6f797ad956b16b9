CONSTANTS
    Callers = {o1, o2}
    AuthWorkers = {a1, a2}
    ManagementRequests <- MCManagement
    StoredRules <- MCRules
    StoredLinks <- MCLinks
    FirstId = 3
    EscapeQuotes = TRUE
    Forms <- MCForms
    PoolSize = 1
    Offers <- MCOffers
    InitialEntries <- MCInitialEntries
    MaxWork = 2
SPECIFICATION Spec
INVARIANTS
    TypeOK
    PostReplyTrue
    
    AuthorizedIsReturned
    FlagsHonoured
PROPERTIES
    ImplementsRuleTable
    Answered
CHECK_DEADLOCK FALSE
