CONSTANTS
    n1 = n1
    n2 = n2
    t1 = t1
    EmptyName = EmptyName
    Name = {EmptyName, n1, n2}
    ClientNames = {EmptyName, n1}
    Type = {t1}
    NoType = NoType
    NoName = NoName
    Foreign = Foreign
    MaxEdits = 3
SPECIFICATION Spec
CHECK_DEADLOCK FALSE
INVARIANTS

    NamesAgree
