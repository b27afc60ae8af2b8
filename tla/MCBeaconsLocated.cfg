SPECIFICATION Spec
CONSTANTS
    Devices = {phone}
    Uids = {anna}
    Keys = {k1}
    Texts = {a}
    Accesses = {"denied"}
    MaxPend = 2
    Nil = Nil
    phone = phone
    anna = anna
    k1 = k1
    a = a
INVARIANTS
    BeaconsAreLocated
