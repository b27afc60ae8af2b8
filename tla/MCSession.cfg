SPECIFICATION FairSpec
CONSTANTS
    Uids = {anna}
    Slots = {s1, s2}
    Objects = {o1, o2, o3}
    Nil = Nil
PROPERTIES
    CallsComplete
