CONSTANTS
    wa = wa
    wb = wb
    wz = wz
    wr = wr
    gain = gain
    name = name
    link1 = link1
    Wire = {wa, wb, wz, wr}
    Internal <- MCInternal
    FromOsc <- MCFromOsc
    ToOsc <- MCToOsc
    Valid <- MCValid
    Var = {gain, name}
    Shared = {name}
    Default <- MCDefault
    Reread <- MCReread
    Unparsable = {wz}
    Link = {link1}
    MaxEdits = 3
    MaxStarts = 2
CHECK_DEADLOCK FALSE
SPECIFICATION FairSpec
INVARIANTS
    UpToDate
    FormerFileKept
PROPERTIES
    EventuallySaved
