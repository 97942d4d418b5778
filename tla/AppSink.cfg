CONSTANTS
    MaxFrames = 4
    PacketsOf <- SomePackets
    Created <- SomeTimes
    IntModulus = 16
    Tick = 3
    ClockModulus = 6
    AnySamples <- AnyOf
SPECIFICATION FairSpec
\* frames end, and after Close everything stops
CHECK_DEADLOCK FALSE
INVARIANTS AliveWhileInUse ReadInOrder ClockLag
PROPERTY FramesFlow
