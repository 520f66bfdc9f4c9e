SPECIFICATION Spec
CONSTANTS
    s1 = s1
    s2 = s2
    s3 = s3
    s4 = s4
    k1 = k1
    k2 = k2
    k3 = k3
    Situations = {s1, s2}
    TypeOf <- TwoConflicts
    IdOf <- IdsOf2
    Tokens = {k1, k2}
    NoToken = NoToken
    DailyBudget = 1
    Cooldown = 2
    LeaseLength = 1
    CheckLag = 1
    DayLength = 2
    QuietHours = {}
    PageLimit = 2
    MaxRows = 2
    MaxTime = 2
    MaxGeneration = 2
    Expiries = {2, 9}
    Wakes = {2}
    Urgencies = {"high", "critical"}
    Sizes = {TRUE}
INVARIANTS
    ReceiptCoversWholeLease
    LeaseHeldUntilExpiry
    BudgetHonoured
PROPERTIES
    ImplementsReceiptContract
SYMMETRY TokenSymmetry
CHECK_DEADLOCK FALSE
