SPECIFICATION Spec
CONSTANTS
    a = a
    b = b
    Parts = {"credentials", "service", "database", "file", "memory", "inbox", "calendar",
             "occasions"}
    Holders = {a, b}
    Layouts = {"none", "profile", "global", "file"}
    DefaultDirectory = TRUE
    MaxSaves = 1
    MaxLoads = 2
    MaxDeletes = 1
    Platforms = {"linux", "darwin", "win32"}
    MaxFaults = 3
    MaxCommands = 2
    Openers = {a, b}
    LegacyProcesses = {"l"}
    Latest = 4
    Erasing = 2
    StartVersions = {0, 1, 4}
    FileUsers = {a, b}
    MaxWrites = 3
    MaxUnlinks = 1
    Names = {1, 2, 3}
    NewMemories <- FiveMemories
    Callers = {"a"}
    PageSize = 1
    MaxMemoryRows = 2
    MaxEntityRows = 2
    MaxRows = 3
    Threads = {1, 2, 3}
    ThreadsPerPage = 1
    Limits <- EitherLimit
    ByteBudget = 7
    ThreadLimit = 2
    Forms <- SixForms
    MaxChanges = 1
    MaxAged = 1
    Events = {1, 2, 3}
    EventInputs <- SevenEvents
    EventsPerPage = 2
    MaxEventPages = 2
    Lookahead = 2
    MaxConflicts = 2
    MaxMoves = 1
    MaxHour = 1
    Evaluators = {a, b}
    DatedMemories <- FourDates
    DefaultLead = 2
    FirstYear = 2027
    PlainDays = 3
    LeapDay = 2
    MaxDay = 5
    MaxEdits = 3
SYMMETRY ProcessSymmetry
INVARIANTS
    CommandKeepsWord
    ErasureInv
    FileInv
    MemoryInv
    WalkMeetsAll
    SweepFindsConflicts
    AnnouncedOncePerYear
PROPERTIES
    
    
    NoFalseResolution
    CompleteMeansCovered
    ConflictNotDropped
    DueOccasionKept
    NextDateIsFirst
CHECK_DEADLOCK FALSE
