SPECIFICATION Spec
CONSTANTS
    d1 = d1
    d2 = d2
    d3 = d3
    Daemons = {d1, d2}
    Service = d1
    Gone = Gone
    IntervalOf <- TwoCadences
    PidsReused = {"systemd", "launchd"}
    MaxStretch = 7
    MaxAge = 10
INVARIANTS
    OwnerOutcomeRecorded
PROPERTIES
    OwnerKeepsRow
