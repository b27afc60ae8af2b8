SPECIFICATION FairSpec
CHECK_DEADLOCK FALSE
CONSTANTS
    Clients = {c1}
    Locs = {x}
    MaxWrites = 1
    MaxReads = 1
    MaxFaults = 1
    Nil = Nil
    c1 = c1
    x = x
PROPERTIES
    CompletionsRun
