CONSTANTS
    Bytes <- SmallBytes
    MaxBytes = 10
    MTU = 8
    Units <- SomeUnits
    MaxUnits = 5
SPECIFICATION MCSpec
\* a call of SplitNALUs ends, and there are MaxUnits units to send
CHECK_DEADLOCK FALSE
INVARIANTS SplitInverted PicturesArrive ParameterSetsFirst
