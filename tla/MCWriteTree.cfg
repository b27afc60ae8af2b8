SPECIFICATION TreeSpec
CHECK_DEADLOCK FALSE
CONSTANTS
    Clients = {c1}
    Locs = {x}
    MaxWrites = 3
    MaxReads = 2
    MaxFaults = 2
    Nil = Nil
    c1 = c1
    x = x
INVARIANTS
    TypeOK
    PendingMatches
    ListensAreCounted
    LastWriteStays
    CacheIsExact
PROPERTIES
    KeepsPromise
    ReadYourWrites
    PutsAreAnswered
