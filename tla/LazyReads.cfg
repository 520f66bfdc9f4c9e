SPECIFICATION LiveSpec
CONSTANTS
    p1 = p1
    p2 = p2
    Sessions = {p1, p2}
    JobsOf <- TwoServers
    Replies <- FailingReplies
    PollInterval = 2
    StaleAfter = 2
    GateInterval = 1
    MaxGrants = 1
    Revocable = {}
    MaxCrashes = 1
INVARIANTS
    ReadersInv
PROPERTIES
    LazyReadsResume
