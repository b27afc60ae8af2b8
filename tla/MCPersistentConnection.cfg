SPECIFICATION FairSpec
CHECK_DEADLOCK FALSE
CONSTANTS
    Users = {anna, ben}
    MaxEpoch = 1
    MaxFaults = 1
    MaxUpsets = 3
    ManyFaults = 100
    Nil = Nil
    anna = anna
    ben = ben
INVARIANTS
    TypeOK
    ReconnectIsScheduled
    SendsAreSafe
    TokenIsExpected
    AuthIsCurrent
    RefusedIsRefreshed
PROPERTIES
    IsDatabaseLink
    Reconnects
