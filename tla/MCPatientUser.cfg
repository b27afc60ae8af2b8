SPECIFICATION PatientSpec
CONSTANTS
    Devices = {phone, pad}
    Uids = {anna, ben, carl}
    Keys = {k1}
    Texts = {a, b}
    Accesses = {"granted", "off"}
    MaxPend = 4
    Nil = Nil
    phone = phone
    pad = pad
    anna = anna
    ben = ben
    carl = carl
    k1 = k1
    a = a
    b = b
SYMMETRY Symmetry
INVARIANTS
    FormIsCurrent
    ProfileIsComplete
