SPECIFICATION CarefulSpec
CONSTANTS
    Devices = {phone, pad}
    Uids = {anna, ben}
    Keys = {k1}
    Texts = {a}
    Accesses = {"granted"}
    MaxPend = 2
    Nil = Nil
    phone = phone
    pad = pad
    anna = anna
    ben = ben
    k1 = k1
    a = a
SYMMETRY Symmetry
INVARIANTS
    TypeOK
    OneOwner
