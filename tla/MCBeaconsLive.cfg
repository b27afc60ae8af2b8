SPECIFICATION FairSpec
CONSTANTS
    Devices = {phone}
    Uids = {anna, ben}
    Keys = {k1}
    Texts = {a}
    Accesses = {"granted", "denied", "off"}
    MaxPend = 2
    Nil = Nil
    phone = phone
    anna = anna
    ben = ben
    k1 = k1
    a = a
PROPERTIES
    ListsLoad
