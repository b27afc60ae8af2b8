SPECIFICATION FairSpec
CHECK_DEADLOCK FALSE
CONSTANTS
    NumKeys = 2
    Titles = {a, b}
    Objects = {o1, o2}
    MaxWaiting = 2
    Nil = Nil
    a = a
    b = b
    o1 = o1
    o2 = o2
INVARIANTS
    TypeOK
    NodesShown
    NoGhosts
    OneNodeEach
    TapOpensTapped
PROPERTIES
    NodesAppear
