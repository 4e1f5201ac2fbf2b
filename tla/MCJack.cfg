CONSTANTS
    oa = oa
    ob = ob
    ia = ia
    id1 = id1
    id2 = id2
    id3 = id3
    id4 = id4
    id5 = id5
    Output = {oa}
    Input = {ia}
    Id = {id1, id2, id3}
    NoId = NoId
    MaxEvents = 3
SPECIFICATION FairSpec
CHECK_DEADLOCK FALSE
INVARIANTS
    SameMaps
    SavedAsLinked
PROPERTIES
    EventuallySettled
    FreshExitIsNotSaved
