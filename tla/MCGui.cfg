CONSTANTS
    g1 = g1
    g2 = g2
    Gui = {g1, g2}
    MaxKey = 2
    SavedKeys <- MCSavedKeys
    ControllerKeys <- MCControllerKeys
    MaxInputs = 2
    MaxBreaks = 1
    MaxWindowInputs = 2
    MaxWindowBreaks = 1
    EqualizerKeys = {0, 1}
    EqualizerTypes = {"Peak", "LowShelf", "BandPassConstantSkirt"}
    EqualizerFreqs = {10000, 1234567}
    FileWords = {"PK", "LS", "PEQ", "LP"}
    FileLines <- MCLines
    MaxFileEdits = 3
    WireMessage <- MCMessage
    MaxPacket = 100
    MaxSent = 2
    MaxNull = 2
    MaxWireBreaks = 1
SYMMETRY Symmetry
SPECIFICATION GuiSpec
INVARIANTS
    SameStrips
    NeverAborts
    BoxesFollowType
    EnabledByUser
    RoundTrip
    DeliveredAsSent
PROPERTIES
    ReconcileExact
CHECK_DEADLOCK FALSE
