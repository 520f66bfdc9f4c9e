SPECIFICATION FallbackSpec
CONSTANTS
    s1 = s1
    s2 = s2
    k1 = k1
    d1 = d1
    d2 = d2
    Situations = {s1, s2}
    TypeOf <- ConflictAndOccasion
    IdOf <- IdsOf2
    Tokens = {k1}
    NoToken = NoToken
    DailyBudget = 1
    Cooldown = 2
    LeaseLength = 1
    CheckLag = 1
    DayLength = 8
    QuietHours = {}
    PageLimit = 2
    MaxRows = 2
    MaxTime = 2
    MaxGeneration = 1
    Expiries = {9}
    Wakes = {}
    Urgencies = {"critical", "routine"}
    Sizes = {TRUE}
    Dispatchers = {d1, d2}
    FallbackPriorities = {"critical"}
    FallbackWait = 1
    DispatchLag = 1
INVARIANTS
    FallbackInv
    OneBootstrapException
PROPERTIES
    FallbackYieldsToLease
SYMMETRY DispatcherSymmetry
CHECK_DEADLOCK FALSE
