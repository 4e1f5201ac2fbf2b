CONSTANTS
    OversamplingRatio = 2
    FloatStep = 3
    MaxChannel = 2
    Frames = {3}
    BufferSize = 5
    MaxSize = 4
    Rate = {2, 7}
    MixRate = 2
    Drift = {2}
    MaxDrifts = 1
    RemoteRate = {2, 4}
    InputFrames = {1}
    RingSize = 4
    InputDrift = {0, 1}
    MaxInputSize = 1
    InputChanges = 1
    OutputFrames = {3}
    MaxPacket = 2
    VbanRate = {2}
    OutputDrift <- MCOutputDrift
SPECIFICATION DevicesSpec
INVARIANTS
    ChannelsTogether
    RenderExact
    SidesTogether
    SentAtItsRate
PROPERTIES
    LossReported
    InputEventuallyFollows
CHECK_DEADLOCK FALSE
