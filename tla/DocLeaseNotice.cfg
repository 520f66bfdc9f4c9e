SPECIFICATION FallbackSpec
CONSTANTS
    s1 = s1
    s2 = s2
    k1 = k1
    d1 = d1
    d2 = d2
    Situations = {s1}
    TypeOf <- OneConflict
    IdOf <- IdsOf1
    Tokens = {k1}
    NoToken = NoToken
    DailyBudget = 1
    Cooldown = 2
    LeaseLength = 1
    CheckLag = 1
    DayLength = 8
    QuietHours = {}
    PageLimit = 1
    MaxRows = 1
    MaxTime = 3
    MaxGeneration = 2
    Expiries = {2, 9}
    Wakes = {}
    Urgencies = {"critical", "routine"}
    Sizes = {TRUE}
    Dispatchers = {d1, d2}
    FallbackPriorities = {"critical"}
    FallbackWait = 0
    DispatchLag = 1
PROPERTIES
    NoNoticeDuringLease
SYMMETRY DispatcherSymmetry
CHECK_DEADLOCK FALSE
