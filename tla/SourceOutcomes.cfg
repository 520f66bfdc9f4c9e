SPECIFICATION Spec
CONSTANTS
    p1 = p1
    p2 = p2
    Sessions = {p1, p2}
    JobsOf <- Everything
    Replies <- MixedReplies
    PollInterval = 1
    StaleAfter = 1
    GateInterval = 1
    MaxGrants = 2
    Revocable = {1}
    MaxCrashes = 0
INVARIANTS
    AllClearBacked
    ReadReportTruthful
    SharedAuthorization
PROPERTIES
    
    ReauthorizedBySetup
