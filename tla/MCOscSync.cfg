CONSTANTS
    a = a
    b = b
    c = c
    g1 = g1
    g2 = g2
    k1 = k1
    k2 = k2
    Wire <- MCWire
    Internal <- MCInternal
    FromOsc <- MCFromOsc
    ToOsc <- MCToOsc
    Valid <- MCValid
    Gui = {g1, g2}
    Conn = {k1, k2}
    NoConn = NoConn
    Dump = Dump
    MaxInputs = 2
    MaxBreaks = 1
SPECIFICATION FairSpec
INVARIANTS
    QuiescentConsistency
CHECK_DEADLOCK FALSE
PROPERTIES
    EventuallyInSync
