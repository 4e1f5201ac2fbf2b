CONSTANTS
    v1 = v1
    v2 = v2
    v3 = v3
    Variable = {v1, v2, v3}
    Unmapped = {v3}
    ReadOnly = {v2}
    Value = {10, 12, 99}
    Quoted = {99}
    Written <- MCWritten
    NoFile = NoFile
    NotJson = NotJson
    MaxChanges = 3
SPECIFICATION Spec
INVARIANT LoadRestores
CHECK_DEADLOCK FALSE
