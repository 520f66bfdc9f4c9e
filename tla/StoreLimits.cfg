SPECIFICATION Spec
CONSTANTS
    s1 = s1
    s2 = s2
    s3 = s3
    s4 = s4
    k1 = k1
    k2 = k2
    k3 = k3
    Situations = {s1, s2, s3, s4}
    TypeOf <- EveryType
    IdOf <- IdsOf4
    Tokens = {k1, k2}
    NoToken = NoToken
    DailyBudget = 2
    Cooldown = 2
    LeaseLength = 1
    CheckLag = 1
    DayLength = 2
    QuietHours = {1}
    PageLimit = 4
    MaxRows = 3
    MaxTime = 1
    MaxGeneration = 1
    Expiries = {9}
    Wakes = {}
    Urgencies = {"high", "critical"}
    Sizes = {TRUE, FALSE}
INVARIANTS
    TypeOK
PROPERTIES
    RepliesYield
SYMMETRY TokenSymmetry
CHECK_DEADLOCK FALSE
