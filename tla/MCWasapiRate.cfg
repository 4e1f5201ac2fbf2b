CONSTANTS
    OversamplingRatio = 4
    FloatStep = 1
    MaxChannel = 2
    Frames = {2}
    BufferSize = 4
    MaxSize = 1
    Rate = {3, 4}
    MixRate = 3
    Drift = {1}
    MaxDrifts = 1
SPECIFICATION Spec
INVARIANT RateOfDevice
CHECK_DEADLOCK FALSE
