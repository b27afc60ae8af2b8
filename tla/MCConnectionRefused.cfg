SPECIFICATION Spec
CHECK_DEADLOCK FALSE
CONSTANTS
    Users = {anna}
    MaxEpoch = 1
    MaxFaults = 0
    MaxUpsets = 1
    ManyFaults = 100
    Nil = Nil
    anna = anna
INVARIANT RefreshedOnReconnect
