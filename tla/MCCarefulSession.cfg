SPECIFICATION HistorySpec
CONSTANTS
    Uids = {anna, ben}
    Slots = {s1, s2}
    Objects = {o1, o2, o3}
    Nil = Nil
SYMMETRY Symmetry
INVARIANTS
    TypeOK
    CurrentUserExists
    SavedIsCurrent
    Agreement
    BeaconsStayPrivate
    CreateNeverOverwrites
PROPERTIES
    RecordsFollow
