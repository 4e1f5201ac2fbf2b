CONSTANTS
    n1 = n1
    n2 = n2
    t1 = t1
    EmptyName = EmptyName
    Name = {EmptyName, n1, n2}
    ClientNames = {n1, n2}
    Type = {t1}
    NoType = NoType
    NoName = NoName
    Foreign = Foreign
    MaxEdits = 4
SPECIFICATION Spec
CHECK_DEADLOCK FALSE
INVARIANTS
    AudioHasEndpoint
    ClientOnlyIfEnabled
    NamesAgree
