CONSTANTS
    Frames = {1, 2}
    MaxTime = 10
    Key = {h1, h2}
    Address = {a1, a2}
    MaxQueue = 2
    MaxPress = 2
    c1 = c1
    c2 = c2
    MaxChannels = 4
    DefaultChannels = 2
    ClientKeys <- MCClientKeys
    MaxClientKeys = 3
    NumOutput = 3
    Latency = {0, 4}
    Between = 10
    Period = 50
    DeadTime = 1
    BigError = 1
    Unstable = 2
    HistorySize = 2
    MaxDisturbances = 2
    MaxCommands = 1
SPECIFICATION PartsSpec
INVARIANTS
    ReportExact
    ChannelsPresent
    NoneForgotten
    ServerFollows
PROPERTIES
    ImplementsAtomic
    ResizeExact
    DispatchExact
    
    EventuallyAligned
CHECK_DEADLOCK FALSE
