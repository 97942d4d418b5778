CONSTANTS
    Surfaces = {s1, s2}
    NoSurface = NoSurface
    MaxUpdates = 2
    MaxRefs = 4
    MaxReinits = 2
SPECIFICATION DisplaySpec
\* the capture ends
CHECK_DEADLOCK FALSE
INVARIANTS DisplayTypeOK FrameFlagAgrees SourceAlive EncodesWhatWasTaken OneOfEach
PROPERTY LossIsNoticed
