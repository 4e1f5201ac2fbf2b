CONSTANTS
    Name <- Names
    Lists <- DeviceLists
    Rate = {2, 3}
    Period = 2
    MaxGaps = 4
    MaxChannel = 2
    Peak = {0, 2, 5}
    Block = {1, 2}
    MaxSamples = 3
    OversamplingRatio = 4
    FloatStep = 1
    NumChannel = 2
    Size = 11
    ProducerFrames = {2}
    ConsumerFrames = {2}
    Ratio = {3, 5}
    RingDrifts = 1
SPECIFICATION RingSpec
INVARIANTS
    SkewBounded
    ResampleExact
    XrunsNoticed
    StreamAsConfigured
    LevelsFollowPeaks
CHECK_DEADLOCK FALSE
