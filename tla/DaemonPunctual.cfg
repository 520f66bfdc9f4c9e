SPECIFICATION LiveSpec
CONSTANTS
    d1 = d1
    d2 = d2
    d3 = d3
    Daemons = {d1, d2, d3}
    Service = d1
    Gone = Gone
    IntervalOf <- TwoCadences
    PidsReused = {"launchd"}
    MaxStretch = 3
    MaxAge = 10
INVARIANTS
    WatcherInv
PROPERTIES
    CrashedOwnerReplaced
